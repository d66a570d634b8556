---------------------------- MODULE BalanceCache ----------------------------
(***************************************************************************)
(* The table balances of one Stellar wallet: GetBalances, AddTrustline and *)
(* Faucet of internal/wallet, persistBalances of the indexer, and the      *)
(* statements of postgres/wallet_repo.go.  The ledger's own balances move  *)
(* by themselves; each writer reads, then writes row by row, and two       *)
(* writers overlap freely.                                                 *)
(***************************************************************************)
EXTENDS Naturals, FiniteSets

CONSTANTS
  CacheWriter,                  \* requests and sync tasks at work
  CacheSigner,                  \* signers a deployment may be built with
  TopValue, Grant,              \* largest ledger balance; what a faucet request adds
  BalanceThreshold,             \* difference the daily comparison lets pass
  MaxMoves, MaxGrants,          \* bounds on the ledger's moves, on faucet requests
  MaxCacheFaults                \* bound on failed calls and crashes

ASSUME CacheBounds == {TopValue, Grant, BalanceThreshold, MaxMoves, MaxGrants, MaxCacheFaults} \subseteq Nat
ASSUME CacheSigners == CacheSigner \subseteq {"env", "kms"}

(* Rows are keyed by asset code and issuer.  The faucet writes its tokens   *)
(* under the empty issuer.                                                  *)
BalanceRow == {"USDC/issuer", "USDC/", "XLM/"}
OnLedger == {"USDC/issuer", "XLM/"}
Code(r) == IF r = "XLM/" THEN "XLM" ELSE "USDC"
FaucetRow(code) == IF code = "XLM" THEN "XLM/" ELSE "USDC/"
NoBalance == TopValue + MaxGrants * Grant + 1
Nothing == [r \in {} |-> 0]

VARIABLES
  cacheSigner,                  \* the deployment's signer
  held, trusts,                 \* ledger: balances; whether the trustline exists
  past,                         \* history: values each ledger balance had
  cache,                        \* table balances
  bpc, fetched,                 \* a writer: position; the rows it has still to write
  seen, reported,               \* the daily comparison: {what Horizon showed it}; assets it has reported
  moves, grants, cacheFaults,
  tainted,                      \* history: the faucet was asked for XLM, whose row is the ledger's
  unsigned                      \* history: a change_trust that could not be signed

dailyVars == <<seen, reported>>
cacheVars == <<cacheSigner, dailyVars, held, trusts, past, cache, bpc, fetched, moves, grants, cacheFaults, tainted, unsigned>>
ledgerRows == <<held, trusts, past, moves>>

CacheInit ==
  /\ cacheSigner \in CacheSigner
  /\ held = [r \in OnLedger |-> 0] /\ trusts = FALSE /\ past = [r \in OnLedger |-> {0}]
  /\ cache = [r \in BalanceRow |-> NoBalance]
  /\ bpc = [w \in CacheWriter |-> "idle"] /\ fetched = [w \in CacheWriter |-> Nothing]
  /\ seen = {} /\ reported = {}
  /\ moves = 0 /\ grants = 0 /\ cacheFaults = 0 /\ tainted = FALSE /\ unsigned = FALSE

CacheFault == cacheFaults < MaxCacheFaults /\ cacheFaults' = cacheFaults + 1
-----------------------------------------------------------------------------
(* The ledger (external). *)
BalanceMoves ==
  /\ moves < MaxMoves /\ moves' = moves + 1
  /\ \E r \in OnLedger, v \in 0..TopValue :
       /\ (Code(r) = "USDC" => trusts) /\ v # held[r]
       /\ held' = [held EXCEPT ![r] = v] /\ past' = [past EXCEPT ![r] = @ \cup {v}]
  /\ UNCHANGED <<cacheSigner, dailyVars, trusts, cache, bpc, fetched, grants, cacheFaults, tainted, unsigned>>

(* An account shows a balance for XLM and for each trustline. *)
Shown == {r \in OnLedger : Code(r) = "USDC" => trusts}
-----------------------------------------------------------------------------
(* Seeded fault: a row that exists keeps its value (ON CONFLICT DO NOTHING). *)
InsertBalance(r, v) == cache' = [cache EXCEPT ![r] = IF @ = NoBalance THEN v ELSE @]

(* Seeded fault: a row that exists is added to. *)
AddToBalance(r, v) == cache' = [cache EXCEPT ![r] = IF @ + v >= NoBalance THEN v ELSE @ + v]

(* UpsertBalance: the value replaces what the row held. *)
UpsertBalance(r, v) == cache' = [cache EXCEPT ![r] = v]

(* GetBalances, and SyncWallet before its persistBalances: LoadAccount.  An *)
(* error leaves the table as it is, and GetBalances answers from it.        *)
LoadBalances(w) ==
  /\ bpc[w] = "idle" /\ bpc' = [bpc EXCEPT ![w] = "write"]
  /\ fetched' = [fetched EXCEPT ![w] = [r \in Shown |-> held[r]]]
  /\ UNCHANGED <<cacheSigner, dailyVars, ledgerRows, cache, grants, cacheFaults, tainted, unsigned>>

(* One row.  After a failed statement GetBalances goes on with the next row *)
(* and persistBalances returns with the rest unwritten.                     *)
WriteBalance(w) ==
  /\ bpc[w] = "write" /\ DOMAIN fetched[w] # {}
  /\ \E r \in DOMAIN fetched[w] :
       LET rest == [q \in DOMAIN fetched[w] \ {r} |-> fetched[w][q]] IN
       \/ UpsertBalance(r, fetched[w][r]) /\ UNCHANGED cacheFaults /\ fetched' = [fetched EXCEPT ![w] = rest]
       \/ CacheFault /\ UNCHANGED cache /\ fetched' \in {[fetched EXCEPT ![w] = rest], [fetched EXCEPT ![w] = Nothing]}
  /\ UNCHANGED <<cacheSigner, dailyVars, ledgerRows, bpc, grants, tainted, unsigned>>

BalancesWritten(w) ==
  /\ bpc[w] = "write" /\ DOMAIN fetched[w] = {} /\ bpc' = [bpc EXCEPT ![w] = "idle"]
  /\ UNCHANGED <<cacheSigner, dailyVars, ledgerRows, cache, fetched, grants, cacheFaults, tainted, unsigned>>

(* The secret is handed to the signer as the hex text of the table, and     *)
(* EnvSigner opens the bytes behind it only.                                *)
SignsHex == cacheSigner = "kms"

(* AddTrustline: the account is loaded, the change_trust built and signed. *)
SignTrustline(w) ==
  /\ bpc[w] = "idle"
  /\ IF SignsHex THEN bpc' = [bpc EXCEPT ![w] = "trust"] /\ UNCHANGED unsigned
                 ELSE unsigned' = TRUE /\ UNCHANGED bpc
  /\ UNCHANGED <<cacheSigner, dailyVars, ledgerRows, cache, fetched, grants, cacheFaults, tainted>>

(* change_trust also succeeds on a trustline that exists, and changes only  *)
(* its limit.                                                               *)
SubmitTrustline(w) ==
  /\ bpc[w] = "trust"
  /\ \/ trusts' = TRUE /\ bpc' = [bpc EXCEPT ![w] = "zero"] /\ UNCHANGED cacheFaults
     \/ CacheFault /\ trusts' \in {trusts, TRUE} /\ bpc' = [bpc EXCEPT ![w] = "idle"]
  /\ UNCHANGED <<cacheSigner, dailyVars, held, past, moves, cache, fetched, grants, tainted, unsigned>>

(* The row is set to zero; an error is passed over. *)
ZeroTrustline(w) ==
  /\ bpc[w] = "zero" /\ bpc' = [bpc EXCEPT ![w] = "idle"]
  /\ \/ UpsertBalance("USDC/issuer", 0) /\ UNCHANGED cacheFaults
     \/ CacheFault /\ UNCHANGED cache
  /\ UNCHANGED <<cacheSigner, dailyVars, ledgerRows, fetched, grants, tainted, unsigned>>

(* Faucet: the first row of the code, in an order that leaves the issuer    *)
(* open; no row, or a query that failed, counts as zero.                    *)
ReadForFaucet(w) ==
  /\ bpc[w] = "idle" /\ grants < MaxGrants /\ grants' = grants + 1
  /\ bpc' = [bpc EXCEPT ![w] = "grant"]
  /\ \E code \in {"USDC", "XLM"} :
       LET rows == {r \in BalanceRow : Code(r) = code /\ cache[r] # NoBalance}
       IN /\ \E v \in {0} \cup {cache[r] : r \in rows} :
               /\ IF rows # {} /\ v \notin {cache[r] : r \in rows} THEN CacheFault ELSE UNCHANGED cacheFaults
               /\ fetched' = [fetched EXCEPT ![w] = [r \in {FaucetRow(code)} |-> v + Grant]]
          /\ tainted' = (tainted \/ code = "XLM")
  /\ UNCHANGED <<cacheSigner, dailyVars, ledgerRows, cache, unsigned>>

(* Seeded fault: the request is answered before its work is put away. *)
WriteGrantAgain(w) ==
  /\ bpc[w] = "grant" /\ bpc' = [bpc EXCEPT ![w] = "idle"]
  /\ \E r \in DOMAIN fetched[w] : UpsertBalance(r, fetched[w][r])
  /\ UNCHANGED <<cacheSigner, dailyVars, ledgerRows, fetched, grants, cacheFaults, tainted, unsigned>>

WriteGrant(w) ==
  /\ bpc[w] = "grant" /\ bpc' = [bpc EXCEPT ![w] = "idle"] /\ fetched' = [fetched EXCEPT ![w] = Nothing]
  /\ \E r \in DOMAIN fetched[w] :
       \/ UpsertBalance(r, fetched[w][r]) /\ UNCHANGED cacheFaults
       \/ CacheFault /\ UNCHANGED cache
  /\ UNCHANGED <<cacheSigner, dailyVars, ledgerRows, grants, tainted, unsigned>>

LoseWriter(w) ==
  /\ bpc[w] # "idle" /\ CacheFault
  /\ bpc' = [bpc EXCEPT ![w] = "idle"] /\ fetched' = [fetched EXCEPT ![w] = Nothing]
  /\ UNCHANGED <<cacheSigner, dailyVars, ledgerRows, cache, grants, tainted, unsigned>>

-----------------------------------------------------------------------------
(* The daily balance reconciliation (reconcile.go): the account is loaded,  *)
(* then the rows are read; an error leaves the wallet for the next day.     *)
LoadForComparison ==
  /\ seen = {} /\ seen' = {[r \in Shown |-> held[r]]}
  /\ UNCHANGED <<cacheSigner, ledgerRows, cache, bpc, fetched, reported, grants, cacheFaults, tainted, unsigned>>

(* Seeded fault: only the assets Horizon names are compared. *)
ComparedOnHorizon(account) == DOMAIN account

(* Every asset of either side, under its code and issuer. *)
Compared(account) == DOMAIN account \cup {r \in BalanceRow : cache[r] # NoBalance}

(* A side without the asset counts as zero. *)
Difference(account, r) ==
  LET db == IF cache[r] = NoBalance THEN 0 ELSE cache[r]
      horizon == IF r \in DOMAIN account THEN account[r] ELSE 0
  IN  IF db > horizon THEN db - horizon ELSE horizon - db

(* Rows of balance_discrepancies; one that cannot be written is logged and  *)
(* the next follows.                                                        *)
CheckWalletBalance ==
  /\ \E account \in seen :
       LET wrong == {r \in Compared(account) : Difference(account, r) > BalanceThreshold} IN
       \/ reported' = reported \cup wrong /\ UNCHANGED cacheFaults
       \/ CacheFault /\ reported' \in {reported \cup (wrong \ {r}) : r \in wrong}
  /\ seen' = {}
  /\ UNCHANGED <<cacheSigner, ledgerRows, cache, bpc, fetched, grants, tainted, unsigned>>

Refreshes(w) == LoadBalances(w) \/ WriteBalance(w) \/ BalancesWritten(w)
Finishes(w) == SubmitTrustline(w) \/ ZeroTrustline(w) \/ WriteGrant(w)

CacheNext ==
  \/ BalanceMoves \/ LoadForComparison \/ CheckWalletBalance
  \/ \E w \in CacheWriter :
       Refreshes(w) \/ Finishes(w) \/ SignTrustline(w) \/ ReadForFaucet(w) \/ LoseWriter(w)

CacheSpec == CacheInit /\ [][CacheNext]_cacheVars
-----------------------------------------------------------------------------
(* Types. *)
CacheTypeOK ==
  /\ held \in [OnLedger -> 0..TopValue] /\ trusts \in BOOLEAN
  /\ cache \in [BalanceRow -> 0..NoBalance] /\ reported \subseteq BalanceRow /\ Cardinality(seen) <= 1
  /\ \A w \in CacheWriter :
       /\ bpc[w] \in {"idle", "write", "trust", "zero", "grant"}
       /\ bpc[w] \notin {"write", "grant"} => fetched[w] = Nothing

(* A row of the ledger's never shows a balance the account did not have at  *)
(* some time; XLM does once the faucet was asked for it, because the two    *)
(* share a row (UpsertBalance and its callers).                             *)
CacheIsPast ==
  \A r \in OnLedger : cache[r] = NoBalance \/ cache[r] \in past[r] \/ (tainted /\ r = "XLM/")

(* The faucet never makes more than it was asked for on top of what the     *)
(* ledger showed: overlapping requests may lose a grant and never double it.*)
FaucetIsBounded ==
  cache["USDC/"] = NoBalance \/ \E v \in past["USDC/issuer"] : cache["USDC/"] <= v + grants * Grant

(* Whatever order the writers' rows arrive in, the table catches up with a  *)
(* ledger that stopped moving, again and again (persistBalances).           *)
CacheCatchesUp ==
  \A r \in OnLedger, v \in 0..TopValue :
    <>[](held[r] = v /\ r \in Shown) => []<>(cache[r] = v)

(* Tokens of the faucet, which no ledger holds, are reported by the daily   *)
(* comparison in the end (checkWalletBalance).                              *)
PhantomIsReported ==
  (cache["USDC/"] # NoBalance /\ cache["USDC/"] > BalanceThreshold) ~> ("USDC/" \in reported)

(* Claim (docs/quickstart.md, step 5: "This submits a Stellar change_trust  *)
(* operation"): no request ends because the secret cannot be opened.        *)
TrustlineIsSubmitted == ~unsigned

(* Claim (wallet_repo.go: "persists the current on-chain balance"): without *)
(* faults, and with nobody at work, no row shows zero for money the account *)
(* has had since before the row was written.                                *)
NoFalseZero ==
  ((\A w \in CacheWriter : bpc[w] = "idle") /\ cacheFaults = 0 /\ moves = 1 /\ held["USDC/issuer"] > 0)
    => cache["USDC/issuer"] # 0

(* A cached balance is one the ledger once had, and the faucet gives no more *)
(* than its grants (UpsertBalance, Faucet).                                 *)
CacheSafe ==
  /\ CacheTypeOK
  /\ CacheIsPast
  /\ FaucetIsBounded
=============================================================================
