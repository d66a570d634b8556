------------------------------ MODULE Wallets ------------------------------
(***************************************************************************)
(* Opening wallets: internal/wallet (the custodial service, the XDC        *)
(* service, the contract adapter and its deployer), postgres/wallet_repo.go*)
(* and domain/tenant.go, for one tenant.  Requests count, deploy, insert   *)
(* and fund in separate steps; nothing keeps two requests of a tenant      *)
(* apart.                                                                  *)
(***************************************************************************)
EXTENDS Naturals, FiniteSets

CONSTANTS
  Opener, Owner, NoOwner,       \* requests; keys that own contract wallets
  WalletSigner,                 \* signers a deployment may be built with
  WalletLimit,                  \* GetWalletLimit of the tenant
  MaxOpenFaults                 \* bound on failed calls and crashes

ASSUME OpenBounds == WalletLimit \in Nat /\ MaxOpenFaults \in Nat /\ WalletSigner \subseteq {"env", "kms"}

VARIABLES
  build,                        \* the program as configured: signer and backend
  opc, opening,                 \* a request: position; kind of wallet and owner
  walletRow,                    \* table wallets
  contract,                     \* ledger: contracts, by the request that deployed them
  fundNonce, txNonce,           \* treasury: next nonce on the chain; nonce a request read
  funded,                       \* ledger: requests whose wallet the treasury funded
  openFaults, openErrors,       \* failures so far; history: requests with a failed call
  crowd                         \* history: most requests at once between count and insert

walletVars == <<build, opc, opening, walletRow, contract, fundNonce, txNonce, funded, openFaults, openErrors, crowd>>
chainSide == <<contract, fundNonce, txNonce, funded>>

Custody == {"custodial", "xdc", "contract"}
WalletRow == [by : Opener, custody : Custody, key : Opener \cup Owner]
NotOpening == [custody |-> "none", owner |-> NoOwner]

WalletInit ==
  /\ build \in [signer : WalletSigner, backend : {"custodial", "xdc"}]
  /\ opc = [c \in Opener |-> "idle"] /\ opening = [c \in Opener |-> NotOpening]
  /\ walletRow = {} /\ contract = [c \in Opener |-> "none"]
  /\ fundNonce = 0 /\ txNonce = [c \in Opener |-> 0] /\ funded = {}
  /\ openFaults = 0 /\ openErrors = {} /\ crowd = 1

OpenFault(c) == openFaults < MaxOpenFaults /\ openFaults' = openFaults + 1 /\ openErrors' = openErrors \cup {c}
NoOpenFault == UNCHANGED <<openFaults, openErrors>>

OpenGoes(c, at) ==
  /\ opc' = [opc EXCEPT ![c] = at]
  /\ LET now == Cardinality({d \in Opener : opc'[d] \in {"prepare", "deploy", "persist"}})
     IN crowd' = IF now > crowd THEN now ELSE crowd
-----------------------------------------------------------------------------
(* createWallet: a request with an owner goes to the contract adapter, any  *)
(* other to the backend.  Each request opens one wallet.                    *)
CreateWalletRequest(c) ==
  /\ opc[c] = "idle" /\ OpenGoes(c, "count")
  /\ \/ opening' = [opening EXCEPT ![c] = [custody |-> build.backend, owner |-> NoOwner]]
     \/ \E o \in Owner : opening' = [opening EXCEPT ![c] = [custody |-> "contract", owner |-> o]]
  /\ UNCHANGED <<build, walletRow, chainSide, openFaults, openErrors>>

(* Seeded fault: one more than the limit is let through. *)
LimitExceeded == Cardinality(walletRow) > WalletLimit

(* count >= limit *)
LimitReached == Cardinality(walletRow) >= WalletLimit

(* Seeded fault: the row is inserted before the contract is deployed. *)
CountThenPersist(c) ==
  /\ opc[c] = "count"
  /\ \/ OpenGoes(c, IF LimitReached THEN "done" ELSE "persist") /\ NoOpenFault
     \/ OpenFault(c) /\ OpenGoes(c, "persist")
  /\ UNCHANGED <<build, opening, walletRow, chainSide>>

(* The count, the same in the three services.  When the tenant or the count *)
(* cannot be read, the limit is passed over.                                *)
CountByTenant(c) ==
  /\ opc[c] = "count"
  /\ LET next == IF opening[c].custody = "contract" THEN "prepare" ELSE "persist"
     IN \/ OpenGoes(c, IF LimitReached THEN "done" ELSE next) /\ NoOpenFault
        \/ OpenFault(c) /\ OpenGoes(c, next)
  /\ UNCHANGED <<build, opening, walletRow, chainSide>>

(* The forms a secret is handed to the signer in: AES-GCM bytes, their hex  *)
(* text (what the table holds), nothing.  EnvSigner opens the bytes only.   *)
EnvSigns(form) == form = "bytes"
Signs(form) == build.signer = "kms" \/ EnvSigns(form)

(* Deploy: simulated, then signed with an empty secret. *)
PrepareDeployment(c) ==
  /\ opc[c] = "prepare"
  /\ \/ OpenGoes(c, IF Signs("nothing") THEN "deploy" ELSE "done") /\ NoOpenFault
     \/ OpenFault(c) /\ OpenGoes(c, "done")
  /\ UNCHANGED <<build, opening, walletRow, chainSide>>

(* The transaction is sent; the answer does not wait for a ledger. *)
SubmitDeployment(c) ==
  /\ opc[c] = "deploy"
  /\ \/ contract' = [contract EXCEPT ![c] = "sent"] /\ OpenGoes(c, "persist") /\ NoOpenFault
     \/ OpenFault(c) /\ OpenGoes(c, "done") /\ contract' \in {contract, [contract EXCEPT ![c] = "sent"]}
  /\ UNCHANGED <<build, opening, walletRow, fundNonce, txNonce, funded>>

(* The network (external): a ledger takes the deployment, or it expires. *)
DeploymentLands(c) ==
  /\ contract[c] = "sent" /\ contract' \in {[contract EXCEPT ![c] = s] : s \in {"live", "lost"}}
  /\ UNCHANGED <<build, opc, crowd, opening, walletRow, fundNonce, txNonce, funded, openFaults, openErrors>>

(* A custodial wallet has a key of its own; a contract wallet its owner's.  *)
KeyOf(c) == IF opening[c].custody = "contract" THEN opening[c].owner ELSE c

(* INSERT INTO wallets; public_key is UNIQUE *)
KeyFree(c) == \A w \in walletRow : w.key # KeyOf(c)
CreateRow(c) == walletRow' = walletRow \cup {[by |-> c, custody |-> opening[c].custody, key |-> KeyOf(c)]}

(* Create, then for an XDC wallet the treasury. *)
PersistWallet(c) ==
  /\ opc[c] = "persist"
  /\ \/ /\ KeyFree(c) /\ NoOpenFault
        /\ CreateRow(c)
        /\ OpenGoes(c, IF opening[c].custody = "xdc" THEN "fund" ELSE "done")
     \/ ~KeyFree(c) /\ OpenGoes(c, "done") /\ NoOpenFault /\ UNCHANGED walletRow
     \/ OpenFault(c) /\ OpenGoes(c, "done") /\ UNCHANGED walletRow
  /\ UNCHANGED <<build, opening, chainSide>>

(* fundFromTreasury: chain.Transfer reads the treasury's nonce, then sends. *)
FundNonceRead(c) ==
  /\ opc[c] = "fund" /\ OpenGoes(c, "send") /\ txNonce' = [txNonce EXCEPT ![c] = fundNonce]
  /\ UNCHANGED <<build, opening, walletRow, contract, fundNonce, funded, openFaults, openErrors>>

(* Seeded fault: funding is tried again after an error of the node. *)
FundUntilAnswered(c) ==
  /\ opc[c] = "send"
  /\ IF txNonce[c] = fundNonce
     THEN /\ funded' = funded \cup {c} /\ fundNonce' = fundNonce + 1 /\ UNCHANGED txNonce
          /\ \/ OpenGoes(c, "done") /\ NoOpenFault
             \/ OpenGoes(c, "fund") /\ OpenFault(c)
     ELSE OpenGoes(c, "done") /\ NoOpenFault /\ UNCHANGED <<funded, fundNonce, txNonce>>
  /\ UNCHANGED <<build, opening, walletRow, contract>>

(* A nonce already taken is refused.  Whatever comes back, the wallet was   *)
(* created: an error, of a payment that went out or of one that did not, is *)
(* only logged.                                                             *)
FundFromTreasury(c) ==
  /\ opc[c] = "send" /\ OpenGoes(c, "done")
  /\ \/ /\ IF txNonce[c] = fundNonce THEN funded' = funded \cup {c} /\ fundNonce' = fundNonce + 1
                                     ELSE UNCHANGED <<funded, fundNonce>>
        /\ NoOpenFault \/ OpenFault(c)
     \/ OpenFault(c) /\ UNCHANGED <<funded, fundNonce>>
  /\ UNCHANGED <<build, opening, walletRow, contract, txNonce>>

DeleteWallet ==
  /\ \E w \in walletRow : walletRow' = walletRow \ {w}
  /\ UNCHANGED <<build, opc, crowd, opening, chainSide, openFaults, openErrors>>

(* Seeded fault: the request is taken up again from the beginning. *)
RestartOpener(c) ==
  /\ opc[c] \notin {"idle", "done"} /\ OpenFault(c) /\ OpenGoes(c, "idle")
  /\ UNCHANGED <<build, opening, walletRow, chainSide>>

(* The request dies between two steps. *)
LoseOpener(c) ==
  /\ opc[c] \notin {"idle", "done"} /\ OpenFault(c) /\ OpenGoes(c, "done")
  /\ UNCHANGED <<build, opening, walletRow, chainSide>>

WalletNext ==
  \/ \E c \in Opener :
       \/ CreateWalletRequest(c) \/ CountByTenant(c) \/ PrepareDeployment(c) \/ SubmitDeployment(c)
       \/ DeploymentLands(c) \/ PersistWallet(c) \/ FundNonceRead(c) \/ FundFromTreasury(c) \/ LoseOpener(c)
  \/ DeleteWallet

WalletSpec == WalletInit /\ [][WalletNext]_walletVars
-----------------------------------------------------------------------------
(* Types. *)
WalletTypeOK ==
  /\ build.signer \in WalletSigner /\ walletRow \subseteq WalletRow
  /\ opc \in [Opener -> {"idle", "count", "prepare", "deploy", "persist", "fund", "send", "done"}]
  /\ \A c \in Opener : opening[c] = NotOpening <=> opc[c] = "idle"
  /\ contract \in [Opener -> {"none", "sent", "live", "lost"}]
  /\ fundNonce \in Nat /\ funded \subseteq Opener

(* The limit of a tenant is overrun by no more than the requests that       *)
(* counted at the same time and the counts that could not be made: a        *)
(* request that comes later is refused (CreateWallet).                      *)
OverrunIsBounded == Cardinality(walletRow) <= WalletLimit + (crowd - 1) + Cardinality(openErrors)

(* No row names a contract that was never sent to the network, and no key   *)
(* has two rows (CreateWallet of the contract adapter).                     *)
RowsHaveContracts ==
  \A w \in walletRow :
    /\ w.custody = "contract" => contract[w.by] # "none"
    /\ \A v \in walletRow : v.key = w.key => v = w

(* The treasury funds a wallet at most once: every nonce it spent belongs   *)
(* to a wallet of its own, whose row was written before (fundFromTreasury). *)
FundedOnce ==
  /\ fundNonce = Cardinality(funded)
  /\ \A c \in funded : opening[c].custody = "xdc" /\ opc[c] \notin {"count", "persist"}

(* Wallets opened at the same time overrun the tenant's limit by no more than *)
(* their number, a row has its contract, and a wallet is funded once        *)
(* (CreateWallet, fundFromTreasury).                                        *)
WalletSafe ==
  /\ WalletTypeOK
  /\ OverrunIsBounded
  /\ RowsHaveContracts
  /\ FundedOnce
=============================================================================
