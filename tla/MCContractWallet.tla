--------------------------- MODULE MCContractWallet ---------------------------
(* The contract wallet for TLC.                                               *)
EXTENDS ContractWallet, TLC

(* A bound that keeps the two halves of the contract from multiplying: a      *)
(* wallet that never had a guardian pays over the whole of MaxTime, one with  *)
(* guardians locks and pays within GuardedTime and for GuardedPaid at most.   *)
GuardedTime == 1
GuardedPaid == 1
Within ==
  \/ guardians = <<>> /\ nextId = 0
  \/ now <= GuardedTime /\ timeLock <= GuardedTime /\ paid <= GuardedPaid

BoundedSpec == Init /\ [][Next /\ Within']_vars

(* Addresses play no fixed role, since Init and every call quantify over all  *)
(* of them.                                                                   *)
Sym == Permutations(Address)
=============================================================================
