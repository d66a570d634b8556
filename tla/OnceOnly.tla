------------------------------ MODULE OnceOnly ------------------------------
(***************************************************************************)
(* A promise that several parts of FlowX make, with none of their tables,  *)
(* notices and requests in sight: what is not due is not given, and what   *)
(* is due is given once.  Crediting a deposit, returning a withdrawal,     *)
(* paying a conversion and recording an incoming payment each keep it.     *)
(***************************************************************************)
EXTENDS Naturals

CONSTANT Claim  \* what may fall due

VARIABLES
    due,        \* the claims that have fallen due, for ever
    given       \* given[c]: how often c was met

onceVars == <<due, given>>

OnceInit ==
    /\ due = {}
    /\ given = [c \in Claim |-> 0]

FallDue(c) ==
    /\ c \notin due
    /\ due' = due \cup {c}
    /\ UNCHANGED given

Give(c) ==
    /\ c \in due /\ given[c] = 0
    /\ given' = [given EXCEPT ![c] = 1]
    /\ UNCHANGED due

OnceNext == \E c \in Claim : FallDue(c) \/ Give(c)

OnceSpec == OnceInit /\ [][OnceNext]_onceVars
=============================================================================
