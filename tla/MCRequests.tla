------------------------------ MODULE MCRequests ------------------------------
(***************************************************************************)
(* What is decided while a request waits, for TLC: the idempotency key of  *)
(* a request, quotes and conversions, new wallets, the matching of names,  *)
(* and the admission of the request.  As in MCPayouts a behaviour          *)
(* exercises one of the components, its focus.                             *)
(***************************************************************************)
EXTENDS ForeignExchange, Wallets, NameMatching, Accounts, Idempotency, TLC

VARIABLE focus

(* One of the two letters has an upper case. *)
LowerCase == [c \in {"A"} |-> "a"]

(* All requests carry the same key and body while another part is in focus. *)
OneKind == keyOf = [r \in Request |-> CHOOSE k \in Key : TRUE] /\ bodyOf = [r \in Request |-> CHOOSE b \in Body : TRUE]

RequestInit ==
  /\ focus \in {"keys", "fx", "wallets", "names", "accounts"}
  /\ FxInit /\ AccountInit
  /\ Init /\ (focus = "keys" \/ OneKind)
  /\ WalletInit /\ (focus = "wallets" \/ build = [signer |-> CHOOSE s \in WalletSigner : TRUE, backend |-> "custodial"])
  /\ IF focus = "names" THEN NameInit ELSE query = <<>> /\ sanctioned = <<>> /\ threshold = 0

RequestNext ==
  /\ UNCHANGED focus
  /\ \/ focus = "keys" /\ Next /\ UNCHANGED <<fxVars, walletVars, nameVars, accountVars>>
     \/ focus = "fx" /\ FxNext /\ UNCHANGED <<vars, walletVars, nameVars, accountVars>>
     \/ focus = "wallets" /\ WalletNext /\ UNCHANGED <<vars, fxVars, nameVars, accountVars>>
     \/ focus = "names" /\ NameNext /\ UNCHANGED <<vars, fxVars, walletVars, accountVars>>
     \/ focus = "accounts" /\ AccountNext /\ UNCHANGED <<vars, fxVars, walletVars, nameVars>>

RequestSpec == RequestInit /\ [][RequestNext]_<<focus, vars, fxVars, walletVars, nameVars, accountVars>>

(* People and the requests they make are interchangeable. *)
RequestSymmetry == Permutations(Person) \cup Permutations(Caller)
=============================================================================
