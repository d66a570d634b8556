------------------------------ MODULE Treasury ------------------------------
(***************************************************************************)
(* The treasury: internal/treasury and postgres/treasury_repo.go.  Sweeps  *)
(* move what the fee wallet holds above the network reserve and an         *)
(* operating buffer to cold storage.  The daily task and the manual        *)
(* endpoint run the same ExecuteSweep, which measures, loads the sequence  *)
(* number, submits and writes the audit row in separate calls; nothing     *)
(* keeps two sweeps apart.  Balances are in base reserves.                 *)
(***************************************************************************)
EXTENDS Integers, FiniteSets, FiniteSetsExt

CONSTANTS
  Asset, Native,                \* swept assets, and the one that carries the reserve
  Sweeper, Custodial,           \* sweeps at work; wallets of customers
  NoSweep,
  Policies, ManualAmounts,      \* configurations and amounts that operators ask for
  NetworkFee, TopBalance,       \* fee of a transaction; bound on the fee wallet's balance
  MaxSweepFaults                \* bound on failed calls and crashes

ASSUME PoliciesAreConfigs == Policies \subseteq [threshold : Nat, buffer : Nat, auto : BOOLEAN, cold : BOOLEAN]
ASSUME NativeIsSwept == Native \in Asset
ASSUME SweepBounds == ManualAmounts \subseteq 1..TopBalance /\ NetworkFee \in Nat /\ TopBalance \in Nat /\ MaxSweepFaults \in Nat
ASSUME FleetIsFinite == IsFiniteSet(Sweeper) /\ IsFiniteSet(Custodial)

VARIABLES
  tbal, tseq,                   \* ledger: balances and sequence number of the fee wallet
  entries,                      \* ledger: trustlines and offers of each customer's wallet
  tconfig,                      \* table treasury_config
  tpc, sweep,                   \* a sweeper: position; the sweep it carries
  todoAssets,                   \* the configs a run of the daily task has still to visit
  flying,                       \* envelopes with the network, and who waits for each
  applied, logged,              \* history: units moved; units the log says were moved
  sweepFaults

treasuryVars == <<tbal, tseq, entries, tconfig, tpc, sweep, todoAssets, flying, applied, logged, sweepFaults>>
ledgerSide == <<tbal, tseq, entries>>

Config == [threshold : Nat, buffer : Nat, auto : BOOLEAN, cold : BOOLEAN]
Envelope == [asset : Asset, amount : 0..TopBalance, seq : Nat, owner : Sweeper \cup {NoSweep}]
SweepLog == [asset : Asset, amount : 0..TopBalance, by : {"auto", "manual"}, dest : BOOLEAN,
             seq : Nat, clean : BOOLEAN, buffer : Nat]

ASSUME NoSweepIsNone == NoSweep \notin Sweeper \cup SweepLog

(* migration 19: no threshold, no buffer, no cold address, not automatic *)
TreasuryInit ==
  /\ tbal = [a \in Asset |-> TopBalance] /\ tseq = 0 /\ entries = [w \in Custodial |-> 0]
  /\ tconfig = [a \in Asset |-> [threshold |-> 0, buffer |-> 0, auto |-> FALSE, cold |-> FALSE]]
  /\ tpc = [s \in Sweeper |-> "idle"] /\ sweep = [s \in Sweeper |-> NoSweep]
  /\ todoAssets = [s \in Sweeper |-> {}] /\ flying = {}
  /\ applied = [a \in Asset |-> 0] /\ logged = [a \in Asset |-> 0] /\ sweepFaults = 0

Is(s, here) == tpc[s] = here
To(s, there) == tpc' = [tpc EXCEPT ![s] = there]

(* A failed call of Horizon or of the database, or a lost process. *)
SweepFault == sweepFaults < MaxSweepFaults /\ sweepFaults' = sweepFaults + 1

(* A payment, a changed buffer or a new trustline makes what the sweepers   *)
(* measured stale.                                                          *)
Stale(as) ==
  [s \in Sweeper |-> IF sweep[s] # NoSweep /\ sweep[s].asset \in as THEN [sweep[s] EXCEPT !.clean = FALSE] ELSE sweep[s]]

(* Nobody waits any more for the envelope that s submitted. *)
Orphaned(s) == {IF e.owner = s THEN [e EXCEPT !.owner = NoSweep] ELSE e : e \in flying}
-----------------------------------------------------------------------------
(* What can be swept. *)

(* The addresses whose reserve counts: every row of the table wallets. *)
ListWalletPublicKeys == Custodial

(* Two base reserves for each wallet of the table, one more for each         *)
(* subentry of the wallets that Horizon would show.                         *)
GetReserveRequirement(shown) == 2 * Cardinality(ListWalletPublicKeys) + MapThenSumSet(LAMBDA w : entries[w], shown)

(* What the fee wallet holds, from Horizon. *)
GetFeeBalance(a) == tbal[a]

(* Seeded fault: the reserve is kept, the operating buffer is forgotten. *)
SweepableAboveReserve(a, shown) ==
  LET kept == IF a = Native THEN GetReserveRequirement(shown) ELSE 0
  IN IF tbal[a] < kept THEN 0 ELSE tbal[a] - kept

GetSweepableAmount(a, shown) ==
  LET kept == (IF a = Native THEN GetReserveRequirement(shown) ELSE 0) + tconfig[a].buffer
  IN IF GetFeeBalance(a) < kept THEN 0 ELSE GetFeeBalance(a) - kept
-----------------------------------------------------------------------------
(* What the handler lets through: a positive amount and any destination     *)
(* that is not empty.                                                       *)
ManualSweepRequest == [asset : Asset, amount : ManualAmounts]

ManualSweep(s) ==
  /\ Is(s, "idle") /\ To(s, "check")
  /\ \E r \in ManualSweepRequest :
       sweep' = [sweep EXCEPT ![s] = [asset |-> r.asset, amount |-> r.amount, by |-> "manual", dest |-> TRUE,
                                      seq |-> 0, clean |-> FALSE, buffer |-> 0]]
  /\ UNCHANGED <<ledgerSide, tconfig, todoAssets, flying, applied, logged, sweepFaults>>

ListConfig == {[asset |-> a, config |-> tconfig[a]] : a \in Asset}

(* Seeded fault: the flag is read the wrong way round. *)
SweepDisabled(s) ==
  /\ Is(s, "idle") /\ To(s, "next")
  /\ todoAssets' = [todoAssets EXCEPT ![s] = {c \in ListConfig : ~c.config.auto}]
  /\ UNCHANGED <<ledgerSide, tconfig, sweep, flying, applied, logged, sweepFaults>>

(* HandleSweep: the configs are read once, those without auto_sweep_enabled *)
(* are passed over.                                                         *)
HandleSweep(s) ==
  /\ Is(s, "idle") /\ To(s, "next")
  /\ todoAssets' = [todoAssets EXCEPT ![s] = {c \in ListConfig : c.config.auto}]
  /\ UNCHANGED <<ledgerSide, tconfig, sweep, flying, applied, logged, sweepFaults>>

(* GetSweepableAmount for the next config, against the threshold as it was  *)
(* when the configs were read.  Wallets Horizon does not show are not       *)
(* counted; a fee wallet it does not show ends the asset's turn.            *)
VisitAsset(s) ==
  /\ Is(s, "next") /\ todoAssets[s] # {}
  /\ \E t \in todoAssets[s], shown \in SUBSET Custodial :
       /\ todoAssets' = [todoAssets EXCEPT ![s] = @ \ {t}]
       /\ IF shown = Custodial THEN UNCHANGED sweepFaults ELSE SweepFault
       /\ LET n == GetSweepableAmount(t.asset, shown)
          IN sweep' = [sweep EXCEPT ![s] = [asset |-> t.asset, amount |-> IF n > t.config.threshold THEN n ELSE 0,
                          by |-> "auto", dest |-> t.config.cold, seq |-> 0, clean |-> FALSE, buffer |-> 0]]
  /\ To(s, "check")
  /\ UNCHANGED <<ledgerSide, tconfig, flying, applied, logged>>

SweepRunEnds(s) == Is(s, "next") /\ todoAssets[s] = {} /\ To(s, "idle")
  /\ UNCHANGED <<ledgerSide, tconfig, sweep, todoAssets, flying, applied, logged, sweepFaults>>

(* Seeded fault: the manual sweep is not put away. *)
EndTaskOnly(s) ==
  /\ To(s, IF sweep[s].by = "auto" THEN "next" ELSE "idle")
  /\ sweep' = [sweep EXCEPT ![s] = IF @.by = "auto" THEN NoSweep ELSE @]

(* The sweep is over, with an error or without: the daily task goes on with *)
(* its next asset.                                                          *)
EndSweep(s) ==
  /\ To(s, IF sweep[s].by = "auto" THEN "next" ELSE "idle")
  /\ sweep' = [sweep EXCEPT ![s] = NoSweep]

(* RecordSweep *)
RecordSweep(s) == logged' = [logged EXCEPT ![sweep[s].asset] = @ + sweep[s].amount]

(* ExecuteSweep measures again and refuses more than that.  A zero sweep is *)
(* only logged; one without a destination ends here.                        *)
CheckSweep(s) ==
  /\ Is(s, "check")
  /\ \E shown \in SUBSET Custodial :
       /\ IF shown = Custodial THEN UNCHANGED sweepFaults ELSE SweepFault
       /\ LET sw == sweep[s]
              refused == sw.amount > GetSweepableAmount(sw.asset, shown) \/ (sw.amount > 0 /\ ~sw.dest)
          IN IF refused \/ sw.amount = 0
             THEN EndSweep(s) /\ (IF refused THEN UNCHANGED logged ELSE RecordSweep(s))
             ELSE /\ To(s, "load") /\ UNCHANGED logged
                  /\ sweep' = [sweep EXCEPT ![s].clean = (shown = Custodial), ![s].buffer = tconfig[sw.asset].buffer]
  /\ UNCHANGED <<ledgerSide, tconfig, todoAssets, flying, applied>>

(* LoadAccount: the sequence number the payment will carry. *)
LoadFeeWallet(s) ==
  /\ Is(s, "load") /\ To(s, "submit")
  /\ sweep' = [sweep EXCEPT ![s].seq = tseq + 1]
  /\ UNCHANGED <<ledgerSide, tconfig, todoAssets, flying, applied, logged, sweepFaults>>

SubmitSweep(s) ==
  /\ Is(s, "submit") /\ To(s, "sent")
  /\ flying' = flying \cup {[asset |-> sweep[s].asset, amount |-> sweep[s].amount, seq |-> sweep[s].seq, owner |-> s]}
  /\ UNCHANGED <<ledgerSide, tconfig, sweep, todoAssets, applied, logged, sweepFaults>>

(* The network (external): a stale sequence number is refused; a payment    *)
(* the wallet cannot cover fails and still pays the fee.                    *)
ApplySweep(e) ==
  LET covered == tbal[e.asset] >= e.amount + (IF e.asset = Native THEN NetworkFee ELSE 0)
      paid == IF covered THEN e.amount ELSE 0
      fee == IF tbal[Native] < NetworkFee THEN tbal[Native] ELSE NetworkFee
      answer(a) == tpc' = [s \in Sweeper |-> IF s = e.owner THEN a ELSE tpc[s]]
  IN /\ flying' = flying \ {e}
     /\ IF e.seq # tseq + 1
        THEN answer("error") /\ UNCHANGED <<ledgerSide, applied, sweep>>
        ELSE /\ tseq' = tseq + 1
             /\ tbal' = [a \in Asset |-> tbal[a] - (IF a = e.asset THEN paid ELSE 0) - (IF a = Native THEN fee ELSE 0)]
             /\ applied' = [applied EXCEPT ![e.asset] = @ + paid]
             /\ sweep' = Stale({e.asset, Native})
             /\ answer(IF covered THEN "record" ELSE "error")
             /\ UNCHANGED entries
     /\ UNCHANGED <<tconfig, todoAssets, logged, sweepFaults>>

(* The envelope is dropped, or its 30 seconds are over. *)
ExpireSweep(e) ==
  /\ e.owner = NoSweep /\ flying' = flying \ {e}
  /\ UNCHANGED <<ledgerSide, tconfig, tpc, sweep, todoAssets, applied, logged, sweepFaults>>

(* SubmitTransaction fails while the envelope is with the network. *)
LoseSweepAnswer(s) ==
  /\ Is(s, "sent") /\ SweepFault /\ To(s, "error") /\ flying' = Orphaned(s)
  /\ UNCHANGED <<ledgerSide, tconfig, sweep, todoAssets, applied, logged>>

SweepFails(s) ==
  /\ Is(s, "error") /\ EndSweep(s)
  /\ UNCHANGED <<ledgerSide, tconfig, todoAssets, flying, applied, logged, sweepFaults>>

(* Seeded fault: the row is left to the first part of ExecuteSweep. *)
LogOnlyZeroSweeps(s) ==
  /\ Is(s, "record") /\ EndSweep(s) /\ UNCHANGED <<logged, sweepFaults>>
  /\ UNCHANGED <<ledgerSide, tconfig, todoAssets, flying, applied>>

(* The row is written after the payment; an error of it is only logged. *)
LogSweep(s) ==
  /\ Is(s, "record") /\ EndSweep(s)
  /\ \/ RecordSweep(s) /\ UNCHANGED sweepFaults
     \/ SweepFault /\ UNCHANGED logged
  /\ UNCHANGED <<ledgerSide, tconfig, todoAssets, flying, applied>>

(* The process dies between two calls, or a call fails. *)
LoseSweeper(s) ==
  /\ ~Is(s, "idle") /\ SweepFault /\ To(s, "idle") /\ flying' = Orphaned(s)
  /\ sweep' = [sweep EXCEPT ![s] = NoSweep] /\ todoAssets' = [todoAssets EXCEPT ![s] = {}]
  /\ UNCHANGED <<ledgerSide, tconfig, applied, logged>>

(* What the handler lets through: neither number is negative. *)
UpdateConfigRequest == Policies

UpdateConfig(a) ==
  /\ \E c \in UpdateConfigRequest : tconfig' = [tconfig EXCEPT ![a] = c]
  /\ sweep' = Stale({a})
  /\ UNCHANGED <<ledgerSide, tpc, todoAssets, flying, applied, logged, sweepFaults>>

(* A customer's wallet opens a trustline or an offer (external). *)
AddSubentry(w) ==
  /\ entries[w] = 0 /\ entries' = [entries EXCEPT ![w] = 1] /\ sweep' = Stale({Native})
  /\ UNCHANGED <<tbal, tseq, tconfig, tpc, todoAssets, flying, applied, logged, sweepFaults>>

SweepStep(s) ==
  \/ HandleSweep(s) \/ VisitAsset(s) \/ SweepRunEnds(s) \/ CheckSweep(s) \/ LoadFeeWallet(s)
  \/ SubmitSweep(s) \/ SweepFails(s) \/ LogSweep(s)

TreasuryNext ==
  \/ \E s \in Sweeper : SweepStep(s) \/ ManualSweep(s) \/ LoseSweepAnswer(s) \/ LoseSweeper(s)
  \/ \E e \in flying : ApplySweep(e) \/ ExpireSweep(e)
  \/ \E a \in Asset : UpdateConfig(a)
  \/ \E w \in Custodial : AddSubentry(w)

TreasurySpec == TreasuryInit /\ [][TreasuryNext]_treasuryVars
-----------------------------------------------------------------------------
(* Types. *)
TreasuryTypeOK ==
  /\ tbal \in [Asset -> 0..TopBalance] /\ tseq \in Nat /\ entries \in [Custodial -> 0..1]
  /\ tconfig \in [Asset -> Config] /\ flying \subseteq Envelope
  /\ \A s \in Sweeper :
       /\ sweep[s] \in SweepLog \cup {NoSweep}
       /\ Is(s, "idle") => sweep[s] = NoSweep /\ todoAssets[s] = {}
       /\ tpc[s] \in {"check", "load", "submit", "sent", "record", "error"} => sweep[s] # NoSweep

(* A sweep that nobody overtook (no other sweep landed, no config or        *)
(* subentry changed since its measurement, every wallet was seen) leaves    *)
(* the reserve and the operating buffer in the fee wallet, but for the      *)
(* network's own fees: what GetSweepableAmount promises.                    *)
SweepKeepsReserve ==
  \A s \in Sweeper :
    LET sw == sweep[s] IN
    (tpc[s] \in {"load", "submit", "sent"} /\ sw.clean) =>
      tbal[sw.asset] - sw.amount >= sw.buffer + (IF sw.asset = Native THEN GetReserveRequirement(Custodial) ELSE 0)

(* The log never claims a unit that did not leave the fee wallet, and       *)
(* without faults, once nobody is at work, it names every one that did.     *)
LogAgrees ==
  \A a \in Asset :
    /\ logged[a] <= applied[a]
    /\ (sweepFaults = 0 /\ \A s \in Sweeper : Is(s, "idle")) => logged[a] = applied[a]

Excess(a) ==
  /\ tconfig[a].auto /\ tconfig[a].cold
  /\ GetSweepableAmount(a, Custodial) > tconfig[a].threshold + NetworkFee

(* Under a configuration that no longer changes, what the wallet holds      *)
(* above threshold, buffer, reserve and the fee does not stay there: a      *)
(* later run of the daily task sweeps it, whatever manual sweeps and faults *)
(* came between.                                                            *)
ExcessIsSwept == \A a \in Asset, p \in Policies : ~<>[](tconfig[a] = p /\ Excess(a))

(* Claim (worker.go: "so every run leaves an audit trail"; service.go: "It  *)
(* always writes a sweep_log record"): no sweep goes unlogged.              *)
EverySweepLogged == (\A s \in Sweeper : Is(s, "idle")) => \A a \in Asset : logged[a] = applied[a]

(* Claim (service.go: "without dipping into Stellar's network reserve       *)
(* requirements"), also when two sweeps overlap.                            *)
ReserveIsKept == tbal[Native] + NetworkFee * tseq >= GetReserveRequirement(Custodial)

(* A sweep nobody overtook leaves the reserve and the buffer, and the log   *)
(* agrees with what was sent (ExecuteSweep, GetSweepableAmount).            *)
TreasurySafe ==
  /\ TreasuryTypeOK
  /\ SweepKeepsReserve
  /\ LogAgrees
=============================================================================
