---------------------------- MODULE ContractWallet ----------------------------
(***************************************************************************)
(* The Soroban contract wallet: an owner who pays under a spending limit    *)
(* and a time lock, and guardians who can hand the wallet to a new owner.   *)
(* A call of the contract is atomic (a failing call leaves no trace), so    *)
(* each entry point is one action and a rejected call is no step.           *)
(* env.ledger().timestamp() is `now`, counted from deployment.              *)
(***************************************************************************)
EXTENDS Integers, Sequences, FiniteSets, FiniteSetsExt

CONSTANTS
  Address,
  SpendingLimit,      \* i128, may be negative: init does not look at it
  Window,             \* spending_window_seconds
  MaxGuardians, MaxAmount, MaxTime, MaxProposals   \* bounds

ASSUME LimitIsInt == SpendingLimit \in Int
ASSUME WindowIsNat == Window \in Nat
ASSUME BoundsAreNat == {MaxGuardians, MaxAmount, MaxTime, MaxProposals} \subseteq Nat

VARIABLES
  owner, guardians, threshold, spent, windowStart, timeLock, nextId,
  pending,            \* PendingRecovery: no proposal, or the one that is open
  now,
  \* history: what was paid in all and at each instant, which guardian agreed
  \* to which proposal and new owner, and the last proposal carried out
  paid, paidAt, consents, lastTakeover

spending == <<spent, windowStart, paid, paidAt>>
recovery == <<pending, nextId, consents, lastTakeover>>
vars == <<owner, guardians, threshold, spending, timeLock, recovery, now>>

NoTakeover == -1
IsGuardian(g) == \E i \in DOMAIN guardians : guardians[i] = g
Locked == timeLock > now

-----------------------------------------------------------------------------
ThresholdAccepted(n, t) == IF n = 0 THEN t = 0 ELSE t # 0 /\ t <= n

(* __constructor; a later `initialize` is always refused (AlreadyInitialized). *)
(* The guardian list is taken as given: an address may occur twice in it.      *)
Init ==
  /\ owner \in Address
  /\ guardians \in UNION {[1..n -> Address] : n \in 0..MaxGuardians}
  /\ threshold \in 0..MaxGuardians
  /\ ThresholdAccepted(Len(guardians), threshold)
  /\ spent = 0 /\ windowStart = 0 /\ timeLock = 0 /\ nextId = 0 /\ now = 0
  /\ pending = {}
  /\ paid = 0 /\ paidAt = [t \in 0..MaxTime |-> 0]
  /\ consents = {} /\ lastTakeover = NoTakeover

-----------------------------------------------------------------------------
\* Seeded fault: the window is taken as over one second early.
ElapsedOneEarly == now >= windowStart + Window
Elapsed == now > windowStart + Window

SpentNow == IF Elapsed THEN 0 ELSE spent

\* Seeded fault: the status forgets the reset the next payment would make.
RemainingWithoutReset == SpendingLimit - spent
(* `remaining` of get_spending_status. *)
Remaining == SpendingLimit - SpentNow

Affordable(amount) == SpentNow + amount <= SpendingLimit

(* The token refuses a negative amount and rolls the call back; whether the   *)
(* balance suffices is the token's choice too.                                *)
\* Seeded fault: the start of the new window is not stored.
ExecutePaymentStaleWindow(amount) ==
  /\ ~Locked /\ Affordable(amount)
  /\ spent' = SpentNow + amount
  /\ paid' = paid + amount
  /\ paidAt' = [paidAt EXCEPT ![now] = @ + amount]
  /\ UNCHANGED <<owner, guardians, threshold, windowStart, timeLock, recovery, now>>

ExecutePayment(amount) ==
  /\ ~Locked /\ Affordable(amount)
  /\ windowStart' = IF Elapsed THEN now ELSE windowStart
  /\ spent' = SpentNow + amount
  /\ paid' = paid + amount
  /\ paidAt' = [paidAt EXCEPT ![now] = @ + amount]
  /\ UNCHANGED <<owner, guardians, threshold, timeLock, recovery, now>>

SetTimeLock(until) ==
  /\ timeLock' = until
  /\ UNCHANGED <<owner, guardians, threshold, spending, recovery, now>>

AddGuardian(g) ==
  /\ ~Locked /\ ~IsGuardian(g)
  /\ Len(guardians) < MaxGuardians
  /\ guardians' = Append(guardians, g)
  /\ UNCHANGED <<owner, threshold, spending, timeLock, recovery, now>>

(* Removes the first occurrence only, and leaves the threshold alone. *)
RemoveGuardian(g) ==
  /\ ~Locked
  /\ \E i \in DOMAIN guardians :
       /\ guardians[i] = g
       /\ \A j \in 1..(i - 1) : guardians[j] # g
       /\ guardians' = [k \in 1..(Len(guardians) - 1) |->
                          guardians[IF k < i THEN k ELSE k + 1]]
  /\ UNCHANGED <<owner, threshold, spending, timeLock, recovery, now>>

-----------------------------------------------------------------------------
(* What g's call stands for: agreement to hand the wallet to n by proposal id, *)
(* worth something only from a guardian.                                       *)
Consent(g, id, n) == IF IsGuardian(g) THEN {<<g, id, n>>} ELSE {}

\* Seeded fault: the signatures of the proposal that is replaced are kept.
ProposeOverSignatures(g, n) ==
  /\ IsGuardian(g) /\ nextId < MaxProposals
  /\ pending' = {[id |-> nextId, newOwner |-> n,
                 signatures |-> UNION {p.signatures : p \in pending} \cup {g}]}
  /\ nextId' = nextId + 1
  /\ consents' = consents \cup Consent(g, nextId, n)
  /\ UNCHANGED <<owner, guardians, threshold, spending, timeLock, lastTakeover, now>>

\* Seeded fault: the proposal number is not advanced.
ProposeSameId(g, n) ==
  /\ IsGuardian(g) /\ nextId < MaxProposals
  /\ pending' = {[id |-> nextId, newOwner |-> n, signatures |-> {g}]}
  /\ consents' = consents \cup Consent(g, nextId, n)
  /\ UNCHANGED <<owner, guardians, threshold, spending, timeLock, nextId, lastTakeover, now>>

(* Replaces whatever proposal was pending. *)
ProposeRecovery(g, n) ==
  /\ IsGuardian(g) /\ nextId < MaxProposals
  /\ pending' = {[id |-> nextId, newOwner |-> n, signatures |-> {g}]}
  /\ nextId' = nextId + 1
  /\ consents' = consents \cup Consent(g, nextId, n)
  /\ UNCHANGED <<owner, guardians, threshold, spending, timeLock, lastTakeover, now>>

MayApprove(g, p) == IsGuardian(g) /\ p \in pending /\ g \notin p.signatures

Enough(g, p) == Cardinality(p.signatures \cup {g}) >= threshold

Countersign(g, p) ==
  /\ MayApprove(g, p) /\ ~Enough(g, p)
  /\ pending' = {[p EXCEPT !.signatures = @ \cup {g}]}
  /\ consents' = consents \cup Consent(g, p.id, p.newOwner)
  /\ UNCHANGED <<owner, guardians, threshold, spending, timeLock, nextId, lastTakeover, now>>

\* Seeded fault: the proposal that was carried out stays pending.
TakeOverKeepingProposal(g, p) ==
  /\ MayApprove(g, p) /\ Enough(g, p)
  /\ owner' = p.newOwner /\ guardians' = << >>
  /\ consents' = consents \cup Consent(g, p.id, p.newOwner)
  /\ lastTakeover' = p.id
  /\ UNCHANGED <<threshold, spending, timeLock, pending, nextId, now>>

TakeOver(g, p) ==
  /\ MayApprove(g, p) /\ Enough(g, p)
  /\ owner' = p.newOwner
  /\ guardians' = << >>
  /\ pending' = {}
  /\ consents' = consents \cup Consent(g, p.id, p.newOwner)
  /\ lastTakeover' = p.id
  /\ UNCHANGED <<threshold, spending, timeLock, nextId, now>>

(* The caller names the proposal by its number; a stale number is refused. *)
ApproveRecovery(g, id) ==
  \E p \in pending : p.id = id /\ (Countersign(g, p) \/ TakeOver(g, p))

Tick ==
  /\ now < MaxTime
  /\ now' = now + 1
  /\ UNCHANGED <<owner, guardians, threshold, spending, timeLock, recovery>>

Next ==
  \/ \E amount \in 0..MaxAmount : ExecutePayment(amount)
  \/ \E until \in 0..(MaxTime + 1) : SetTimeLock(until)
  \/ \E g \in Address : AddGuardian(g) \/ RemoveGuardian(g)
  \/ \E g, n \in Address : ProposeRecovery(g, n)
  \/ \E g \in Address, id \in 0..(MaxProposals - 1) : ApproveRecovery(g, id)
  \/ Tick

Spec == Init /\ [][Next]_vars
-----------------------------------------------------------------------------
Proposal == [id : Nat, newOwner : Address, signatures : SUBSET Address]

(* Every field of the contract's storage keeps its type, at most one proposal  *)
(* is open, and its number was handed out before.                              *)
TypeOK ==
  /\ owner \in Address /\ guardians \in Seq(Address) /\ threshold \in Nat
  /\ spent \in Nat /\ windowStart \in Nat /\ timeLock \in Nat
  /\ pending \in SUBSET Proposal
  /\ \A p, q \in pending : p = q
  /\ nextId \in Nat /\ \A p \in pending : p.id < nextId
  /\ now \in 0..MaxTime
  /\ paid \in Nat /\ paidAt \in [0..MaxTime -> Nat]
  /\ consents \subseteq Address \X Nat \X Address
  /\ lastTakeover \in Nat \cup {NoTakeover}

Budget == IF SpendingLimit > 0 THEN SpendingLimit ELSE 0

PaidBetween(s, t) == MapThenSumSet(LAMBDA u : paidAt[u], s..t)

(* execute_payment never lets more out than one limit per window: after        *)
(* k full windows at most k + 1 limits were paid, from deployment on, whatever *)
(* the pattern of payments.                                                    *)
RateLimited ==
  \E k \in 0..now : /\ k * (Window + 1) <= now
                   /\ paid <= Budget * k + Budget

(* No stretch of time as long as a window sees more than two limits paid: the  *)
(* most that a window boundary inside it can allow.                            *)
BurstBound ==
  \A t \in 0..now :
    PaidBetween(t, IF t + Window < now THEN t + Window ELSE now) <= 2 * Budget

(* get_spending_status promises exactly what execute_payment would accept,     *)
(* through every reset of the window.                                          *)
StatusAgrees ==
  ~Locked => \A amount \in 0..MaxAmount :
    (amount <= Remaining) <=> ENABLED ExecutePayment(amount)

Signed(id) == {g \in Address : <<g, id, owner>> \in consents}

(* An owner installed by approve_recovery has, behind the one proposal that    *)
(* installed it, `threshold` addresses that each agreed to that proposal and   *)
(* to that owner while they were guardians: no signature of a replaced         *)
(* proposal or of a stranger counts.                                           *)
TakeoverIsBacked ==
  lastTakeover # NoTakeover =>
    \E S \in SUBSET Signed(lastTakeover) : Cardinality(S) >= threshold

(* A proposal that was carried out, or is older than one that was, can never   *)
(* be approved again, also not by guardians whom the new owner names.          *)
NoReplay == \A p \in pending : p.id > lastTakeover

(* lib.rs:152, "Enforces the rolling spending window/limit".                   *)
RollingLimit ==
  \A t \in 0..now :
    PaidBetween(t, IF t + Window < now THEN t + Window ELSE now) <= Budget

(* lib.rs:224, "Once `recovery_threshold` signatures are collected, ownership  *)
(* transfers immediately": no proposal stays open with that many.              *)
EnoughIsExecuted == \A p \in pending : Cardinality(p.signatures) < threshold
=============================================================================
