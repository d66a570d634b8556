-------------------------- MODULE PaymentContract --------------------------
(***************************************************************************)
(* What FlowX promises the two parties of a transfer, with no database,    *)
(* queue, worker or chain in sight: a transfer that compliance stopped is  *)
(* paid only after an officer approved it, one that was rejected is never  *)
(* paid, every other one may be paid, and none is paid twice.              *)
(***************************************************************************)
CONSTANT Tx     \* transfers

VARIABLES
    phase,      \* phase[t]: "absent", "held", "open" or "refused"
    paidBy      \* paidBy[t]: the payments made for t

cvars == <<phase, paidBy>>

CInit ==
    /\ phase = [t \in Tx |-> "absent"]
    /\ paidBy = [t \in Tx |-> {}]

Request(t) ==
    /\ phase[t] = "absent"
    /\ \E p \in {"held", "open"} : phase' = [phase EXCEPT ![t] = p]
    /\ UNCHANGED paidBy

Officer(t) ==
    /\ phase[t] = "held"
    /\ \E p \in {"open", "refused"} : phase' = [phase EXCEPT ![t] = p]
    /\ UNCHANGED paidBy

Pay(t) ==
    /\ phase[t] = "open"
    /\ paidBy[t] = {}
    /\ \E p \in paidBy'[t] : paidBy' = [paidBy EXCEPT ![t] = {p}]
    /\ UNCHANGED phase

CNext == \E t \in Tx : Request(t) \/ Officer(t) \/ Pay(t)

CSpec == CInit /\ [][CNext]_cvars
=============================================================================
