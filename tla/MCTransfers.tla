---------------------------- MODULE MCTransfers ----------------------------
(* Model-checking instances of Transfers. *)
EXTENDS Transfers, TLC

(* Every transfer pays from the same account, so envelopes compete for     *)
(* its sequence numbers.                                                   *)
OneSource == [t \in Tx |-> CHOOSE a \in Account : TRUE]

(* Workers and reconcilers are interchangeable. *)
Symmetric == Permutations(Worker) \cup Permutations(Reconciler)
=============================================================================
