----------------------------- MODULE TaskQueue -----------------------------
(***************************************************************************)
(* The asynq queue of transfer:process tasks.  Delivery is at least once   *)
(* and unordered: a delivered task may stay and be delivered again (the    *)
(* broker lost the acknowledgement, or two tasks exist for the same        *)
(* transfer), and an enqueue may fail, which every caller only logs.       *)
(***************************************************************************)
VARIABLE queue      \* transfers with a task waiting to be delivered

QueueInit == queue = {}

(* The caller logs an error and goes on, so both outcomes are silent. *)
EnqueueTransfer(t) == queue' \in {queue, queue \cup {t}}

(* A worker takes the task; a copy may remain. *)
Deliver(t) == t \in queue /\ queue' \in {queue, queue \ {t}}

(* A handler that returned an error, or whose process died, is retried     *)
(* unless its retries are used up.                                         *)
Redeliver(t) == queue' \in {queue, queue \cup {t}}
=============================================================================
