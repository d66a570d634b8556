------------------------- MODULE ContractWalletProofs -------------------------
(***************************************************************************)
(* What the contract wallet keeps for every set of addresses, every guardian *)
(* list and threshold init accepts, every limit and window.                  *)
(***************************************************************************)
EXTENDS ContractWallet, Counting, TLAPS

USE LimitIsInt, WindowIsNat, BoundsAreNat DEF vars, spending, recovery

(* One case per entry point of the contract. *)
LEMMA NextCases ==
  ASSUME [Next]_vars
  PROVE  \/ \E amount \in 0..MaxAmount : ExecutePayment(amount)
         \/ \E until \in 0..(MaxTime + 1) : SetTimeLock(until)
         \/ \E g \in Address : AddGuardian(g)
         \/ \E g \in Address : RemoveGuardian(g)
         \/ \E g, n \in Address : ProposeRecovery(g, n)
         \/ \E g \in Address, p \in pending : Countersign(g, p)
         \/ \E g \in Address, p \in pending : TakeOver(g, p)
         \/ Tick
         \/ UNCHANGED vars
  BY DEF Next, ApproveRecovery

(* The storage of a new wallet is typed.                                     *)
LEMMA TypeInit == Init => TypeOK
  BY DEF Init, TypeOK, NoTakeover

(* The spending window only moves forward, and what a window lets out is       *)
(* counted before it is paid.                                                  *)
LEMMA TypeStep == TypeOK /\ [Next]_vars => TypeOK'
<1> SUFFICES ASSUME TypeOK, [Next]_vars PROVE TypeOK'
  OBVIOUS
<1>1. ASSUME NEW amount \in 0..MaxAmount, ExecutePayment(amount) PROVE TypeOK'
  <2>1. amount \in Nat /\ SpentNow \in Nat /\ now \in Nat
    BY DEF TypeOK, SpentNow
  <2>2. spent' \in Nat /\ windowStart' \in Nat /\ paid' \in Nat
    BY <1>1, <2>1 DEF TypeOK, ExecutePayment
  <2>3. paidAt' \in [0..MaxTime -> Nat]
    BY <1>1, <2>1 DEF TypeOK, ExecutePayment
  <2> QED
    BY <1>1, <2>2, <2>3 DEF TypeOK, ExecutePayment
<1>2. ASSUME NEW until \in 0..(MaxTime + 1), SetTimeLock(until) PROVE TypeOK'
  BY <1>2 DEF TypeOK, SetTimeLock, Proposal
<1>3. ASSUME NEW g \in Address, AddGuardian(g) PROVE TypeOK'
  BY <1>3 DEF TypeOK, AddGuardian, Proposal
<1>4. ASSUME NEW g \in Address, RemoveGuardian(g) PROVE TypeOK'
  BY <1>4, SMTT(60) DEF TypeOK, RemoveGuardian, Proposal
<1>5. ASSUME NEW g \in Address, NEW n \in Address, ProposeRecovery(g, n) PROVE TypeOK'
  BY <1>5 DEF TypeOK, ProposeRecovery, Proposal, Consent
<1>6. ASSUME NEW g \in Address, NEW p \in pending, Countersign(g, p) PROVE TypeOK'
  <2>1. p \in Proposal /\ p.id < nextId
    BY DEF TypeOK
  <2>2. [p EXCEPT !.signatures = @ \cup {g}] \in Proposal
    BY <2>1 DEF Proposal
  <2>3. /\ pending' \in SUBSET Proposal /\ \A q, r \in pending' : q = r
        /\ \A q \in pending' : q.id < nextId'
    BY <1>6, <2>1, <2>2 DEF Countersign, Proposal
  <2>4. consents' \subseteq Address \X Nat \X Address
    BY <1>6, <2>1, SMTT(60) DEF TypeOK, Countersign, Consent, Proposal
  <2> QED
    BY <1>6, <2>3, <2>4 DEF TypeOK, Countersign
<1>7. ASSUME NEW g \in Address, NEW p \in pending, TakeOver(g, p) PROVE TypeOK'
  BY <1>7 DEF TypeOK, TakeOver, Proposal, Consent
<1>8. CASE Tick
  BY <1>8 DEF TypeOK, Tick, Proposal
<1>9. CASE UNCHANGED vars
  BY <1>9 DEF TypeOK, Proposal
<1> QED
  BY <1>1, <1>2, <1>3, <1>4, <1>5, <1>6, <1>7, <1>8, <1>9, NextCases

(* The contract's storage and the history keep their types in every behaviour. *)
THEOREM TypeCorrect == Spec => []TypeOK
  BY TypeInit, TypeStep, PTL DEF Spec

-----------------------------------------------------------------------------
(* k windows were closed, each at least Window + 1 apart; what they let out is *)
(* at most k limits, and the open one let out `spent`.                         *)
Windows(k) == k * (Window + 1) <= windowStart /\ paid <= Budget * k + spent

RateInv ==
  /\ spent <= Budget /\ windowStart <= now
  /\ \E k \in Nat : Windows(k)

(* Arithmetic the provers do not find by themselves.                         *)
LEMMA Distribute == \A a, k \in Nat : (k + 1) * a = k * a + a /\ a * (k + 1) = a * k + a
  OBVIOUS

(* A product with a positive factor is no smaller.                           *)
LEMMA FactorBound == \A k, w \in Nat : k <= k * (w + 1)
<1> TAKE k, w \in Nat
<1>1. k * (w + 1) = k * w + k
  OBVIOUS
<1>2. k * w \in Nat
  OBVIOUS
<1> QED
  BY <1>1, <1>2

(* The budget of the windows gone by is a number.                            *)
LEMMA BudgetIsNat == Budget \in Nat
  BY DEF Budget

(* A payment is within what its window has left (execute_payment).           *)
LEMMA PaymentKeepsRate ==
  ASSUME TypeOK, RateInv, NEW amount \in 0..MaxAmount, ExecutePayment(amount)
  PROVE  RateInv'
<1>1. PICK k \in Nat : Windows(k)
  BY DEF RateInv
<1>2. /\ spent' \in Nat /\ windowStart' \in Nat /\ paid' \in Nat
      /\ spent \in Nat /\ windowStart \in Nat /\ paid \in Nat /\ now \in Nat
  BY DEF TypeOK, ExecutePayment, SpentNow
<1>3. spent' <= Budget' /\ windowStart' <= now' /\ Budget' = Budget
  BY <1>2 DEF RateInv, ExecutePayment, Affordable, Budget
<1>4. CASE Elapsed
  <2>1. windowStart' = now /\ spent' = amount /\ paid' = paid + amount
    BY <1>4, <1>2 DEF ExecutePayment, SpentNow
  <2>2. k * (Window + 1) \in Nat /\ Budget * k \in Nat
    BY BudgetIsNat
  <2>3. (k + 1) * (Window + 1) = k * (Window + 1) + (Window + 1)
    BY Distribute
  <2>4. Budget * (k + 1) = Budget * k + Budget
    BY Distribute, BudgetIsNat
  <2>5. (k + 1) * (Window + 1) <= windowStart'
    BY <2>1, <2>2, <2>3, <1>1, <1>2, <1>4 DEF Windows, Elapsed
  <2>6. paid' <= Budget * (k + 1) + spent'
    BY <2>1, <2>2, <2>4, <1>1, <1>2, BudgetIsNat DEF Windows, RateInv
  <2> QED
    BY <1>3, <2>5, <2>6 DEF RateInv, Windows
<1>5. CASE ~Elapsed
  <2>1. windowStart' = windowStart /\ spent' = spent + amount /\ paid' = paid + amount
    BY <1>5, <1>2 DEF ExecutePayment, SpentNow
  <2>2. Budget * k \in Nat
    BY BudgetIsNat
  <2> QED
    BY <2>1, <2>2, <1>1, <1>2, <1>3 DEF RateInv, Windows
<1> QED
  BY <1>4, <1>5

(* Nothing has left a new wallet.                                            *)
LEMMA RateInit == Init => RateInv
<1> SUFFICES ASSUME Init PROVE RateInv
  OBVIOUS
<1>1. 0 * (Window + 1) = 0 /\ Budget * 0 = 0
  BY BudgetIsNat
<1>2. Windows(0)
  BY <1>1 DEF Init, Windows
<1> QED
  BY <1>2, BudgetIsNat DEF Init, RateInv

(* Only a payment spends, and a window is over before the next begins.       *)
LEMMA RateStep == TypeOK /\ RateInv /\ [Next]_vars => RateInv'
<1> SUFFICES ASSUME TypeOK, RateInv, [Next]_vars PROVE RateInv'
  OBVIOUS
<1>1. CASE \E amount \in 0..MaxAmount : ExecutePayment(amount)
  BY <1>1, PaymentKeepsRate
<1>2. CASE UNCHANGED spending /\ now' \in Nat /\ now <= now'
  <2>1. PICK k \in Nat : Windows(k)
    BY DEF RateInv
  <2>2. Windows(k)' /\ Budget' = Budget
    BY <1>2, <2>1 DEF Windows, Budget
  <2>3. spent' <= Budget' /\ windowStart' <= now'
    BY <1>2, <2>2 DEF TypeOK, RateInv
  <2> QED
    BY <2>2, <2>3 DEF RateInv
<1>3. CASE UNCHANGED <<spending, now>>
  BY <1>3 DEF RateInv, Windows, Budget
<1> QED
  BY <1>1, <1>2, <1>3, NextCases, SMTT(60)
  DEF SetTimeLock, AddGuardian, RemoveGuardian, ProposeRecovery, Countersign,
      TakeOver, Tick, TypeOK

(* However payments are timed, the wallet never lets out more than one limit   *)
(* per window since its deployment.                                            *)
THEOREM SpendingIsRateLimited == Spec => []RateLimited
<1>1. TypeOK /\ RateInv => RateLimited
  <2> SUFFICES ASSUME TypeOK, RateInv PROVE RateLimited
    OBVIOUS
  <2>1. PICK k \in Nat : Windows(k)
    BY DEF RateInv
  <2>2. k <= k * (Window + 1) /\ k * (Window + 1) \in Nat /\ Budget * k \in Nat
    BY FactorBound, BudgetIsNat
  <2>3. k * (Window + 1) <= now
    BY <2>1, <2>2 DEF TypeOK, RateInv, Windows
  <2>4. k \in 0..now
    BY <2>2, <2>3 DEF TypeOK
  <2>5. paid <= Budget * k + Budget
    BY <2>1, <2>2, BudgetIsNat DEF TypeOK, RateInv, Windows
  <2> QED
    BY <2>3, <2>4, <2>5 DEF RateLimited
<1> QED
  BY <1>1, TypeInit, TypeStep, RateInit, RateStep, PTL DEF Spec

-----------------------------------------------------------------------------
(* The instants of the model within a window's length from t on, those from w  *)
(* on, and those from t on before w.                                           *)
Span(t) == {u \in 0..MaxTime : t <= u /\ u <= t + Window}
From(w) == {u \in 0..MaxTime : w <= u}
Before(t, w) == {u \in 0..MaxTime : t <= u /\ u < w}

(* The open window has let out no more than is counted, and nothing later than *)
(* its end; the stretch just before it, as far back as a window reaches, saw   *)
(* at most one limit; and no stretch of a window's length more than two.       *)
BurstInv ==
  /\ SumOver(paidAt, From(windowStart)) <= spent
  /\ \A u \in 0..MaxTime : u > windowStart + Window => paidAt[u] = 0
  /\ \A t \in 0..MaxTime : t + Window >= windowStart => SumOver(paidAt, Before(t, windowStart)) <= Budget
  /\ \A t \in 0..MaxTime : SumOver(paidAt, Span(t)) <= 2 * Budget

(* Sums over parts of the model's time are numbers.                            *)
LEMMA SumsOverTime ==
  ASSUME NEW f \in [0..MaxTime -> Nat], NEW A \in SUBSET (0..MaxTime)
  PROVE  /\ IsFiniteSet(A) /\ (\A u \in A : f[u] \in Nat) /\ SumOver(f, A) \in Nat
         /\ \A B \in SUBSET A : SumOver(f, B) \in Nat /\ SumOver(f, B) <= SumOver(f, A)
<1>1. IsFiniteSet(0..MaxTime) BY FS_Interval
<1>2. IsFiniteSet(A) BY <1>1, FS_Subset
<1>3. \A u \in A : f[u] \in Nat OBVIOUS
<1>4. SumOver(f, A) \in Nat BY <1>2, <1>3, SumIsNat
<1>5. \A B \in SUBSET A : SumOver(f, B) \in Nat /\ SumOver(f, B) <= SumOver(f, A) BY <1>2, <1>3, SumOfPart
<1> QED BY <1>2, <1>3, <1>4, <1>5

(* Nothing was paid by a new wallet.                                           *)
LEMMA BurstInit == Init => BurstInv
<1> SUFFICES ASSUME Init PROVE BurstInv OBVIOUS
<1>1. \A A \in SUBSET (0..MaxTime) : SumOver(paidAt, A) = 0
  <2> SUFFICES ASSUME NEW A \in SUBSET (0..MaxTime) PROVE SumOver(paidAt, A) = 0 OBVIOUS
  <2>1. IsFiniteSet(0..MaxTime) BY FS_Interval
  <2>2. IsFiniteSet(A) BY <2>1, FS_Subset
  <2>3. \A u \in A : paidAt[u] = 0 BY DEF Init
  <2> QED BY <2>2, <2>3, SumOfZeros
<1>2. \A t, w : /\ Span(t) \in SUBSET (0..MaxTime) /\ From(w) \in SUBSET (0..MaxTime)
                /\ Before(t, w) \in SUBSET (0..MaxTime)
  BY DEF Span, From, Before
<1>3. /\ SumOver(paidAt, From(windowStart)) = 0
      /\ \A t \in 0..MaxTime : SumOver(paidAt, Before(t, windowStart)) = 0 /\ SumOver(paidAt, Span(t)) = 0
  BY <1>1, <1>2, Zenon
<1>4. spent = 0 /\ \A u \in 0..MaxTime : paidAt[u] = 0 BY DEF Init
<1> QED BY <1>3, <1>4, BudgetIsNat DEF BurstInv

(* execute_payment keeps the bound on bursts: a payment in an open window is   *)
(* counted in it, and one that opens a window finds nothing paid from now on   *)
(* and at most the limit of one window in the stretch before.                  *)
LEMMA PaymentKeepsBurst ==
  ASSUME TypeOK, RateInv, RateInv', BurstInv, NEW amount \in 0..MaxAmount, ExecutePayment(amount)
  PROVE  BurstInv'
<1>1. PICK f, g, w, x, b, c : /\ f = paidAt /\ g = paidAt' /\ w = windowStart /\ x = windowStart'
                              /\ b = spent /\ c = spent'
  OBVIOUS
<1>2. PICK m : m = now OBVIOUS
<1>3. /\ m \in 0..MaxTime /\ f \in [0..MaxTime -> Nat] /\ g \in [0..MaxTime -> Nat]
      /\ w \in Nat /\ x \in Nat /\ b \in Nat /\ c \in Nat /\ amount \in Nat
      /\ g[m] = f[m] + amount /\ \A u \in 0..MaxTime : u # m => g[u] = f[u]
  <2>1. TypeOK' BY TypeStep DEF Next
  <2>2. m \in 0..MaxTime /\ f \in [0..MaxTime -> Nat] /\ w \in Nat /\ b \in Nat BY <1>1, <1>2 DEF TypeOK
  <2>3. g \in [0..MaxTime -> Nat] /\ x \in Nat /\ c \in Nat BY <1>1, <2>1 DEF TypeOK
  <2>4. g = [f EXCEPT ![m] = @ + amount] BY <1>1, <1>2 DEF ExecutePayment
  <2> QED BY <2>2, <2>3, <2>4
<1>4. w <= m /\ x <= m /\ b <= Budget /\ c <= Budget BY <1>1, <1>2, <1>3 DEF RateInv, ExecutePayment, Budget
<1>5. \/ m > w + Window /\ x = m /\ c = amount
      \/ m <= w + Window /\ x = w /\ c = b + amount
  BY <1>1, <1>2, <1>3 DEF ExecutePayment, Elapsed, SpentNow
<1>6. /\ SumOver(f, From(w)) <= b
      /\ \A u \in 0..MaxTime : u > w + Window => f[u] = 0
      /\ \A t \in 0..MaxTime : t + Window >= w => SumOver(f, Before(t, w)) <= Budget
      /\ \A t \in 0..MaxTime : SumOver(f, Span(t)) <= 2 * Budget
  BY <1>1 DEF BurstInv
<1>7. \A t \in 0..MaxTime, z \in Nat : 
         /\ Span(t) \in SUBSET (0..MaxTime) /\ From(z) \in SUBSET (0..MaxTime)
         /\ Before(t, z) \in SUBSET (0..MaxTime)
  BY DEF Span, From, Before
<1>8. \A A \in SUBSET (0..MaxTime) :
         /\ m \notin A => SumOver(g, A) = SumOver(f, A)
         /\ m \in A => SumOver(g, A) = SumOver(f, A) + amount
  <2> SUFFICES ASSUME NEW A \in SUBSET (0..MaxTime)
               PROVE  /\ m \notin A => SumOver(g, A) = SumOver(f, A)
                      /\ m \in A => SumOver(g, A) = SumOver(f, A) + amount
    OBVIOUS
  <2>1. IsFiniteSet(A) /\ SumOver(f, A) \in Nat /\ SumOver(g, A) \in Nat BY <1>3, SumsOverTime
  <2>2. ASSUME m \notin A PROVE SumOver(g, A) = SumOver(f, A)
    <3>1. \A u \in A : g[u] = f[u] BY <1>3, <2>2
    <3> QED BY <2>1, <3>1, SumSame
  <2>3. ASSUME m \in A PROVE SumOver(g, A) = SumOver(f, A) + amount
    <3>1. \A u \in A : f[u] \in Nat /\ g[u] \in Nat BY <1>3
    <3>2. \A u \in A \ {m} : f[u] = g[u] BY <1>3
    <3>3. IsFiniteSet(A) /\ m \in A BY <2>1, <2>3
    <3>4. SumOver(g, A) + f[m] = SumOver(f, A) + g[m]
      <4>1. IsFiniteSet(A \ {m}) BY <3>3, FS_Subset
      <4>2. SumOver(f, A \ {m}) = SumOver(g, A \ {m}) BY <3>2, <4>1, SumSame
      <4>3. SumOver(f, A) = f[m] + SumOver(f, A \ {m}) BY <3>1, <3>3, SumByElement
      <4>4. SumOver(g, A) = g[m] + SumOver(g, A \ {m}) BY <3>1, <3>3, SumByElement, ZenonT(60)
      <4>5. SumOver(f, A \ {m}) \in Nat BY <3>1, <4>1, SumIsNat
      <4>6. f[m] \in Nat /\ g[m] \in Nat BY <3>1, <3>3
      <4> QED BY <4>2, <4>3, <4>4, <4>5, <4>6
    <3>5. f[m] \in Nat /\ g[m] = f[m] + amount /\ amount \in Nat BY <1>3, <3>1, <3>3
    <3>6. SumOver(g, A) \in Nat /\ SumOver(f, A) \in Nat BY <2>1
    <3> QED BY <3>4, <3>5, <3>6
  <2> QED BY <2>2, <2>3
<1>9. SumOver(g, From(x)) <= c
  <2>1. m \in From(x) BY <1>3, <1>4 DEF From
  <2>2. SumOver(g, From(x)) = SumOver(f, From(x)) + amount BY <1>3, <1>7, <1>8, <2>1
  <2>3. SumOver(f, From(x)) \in Nat BY <1>3, <1>7, SumsOverTime
  <2>4. CASE m > w + Window /\ x = m /\ c = amount
    <3>1. \A u \in From(x) : f[u] = 0 BY <1>3, <1>6, <2>4 DEF From
    <3>2. IsFiniteSet(From(x)) BY <1>3, <1>7, SumsOverTime
    <3>3. SumOver(f, From(x)) = 0 BY <3>1, <3>2, SumOfZeros
    <3> QED BY <1>3, <2>2, <2>4, <3>3
  <2>5. CASE m <= w + Window /\ x = w /\ c = b + amount BY <1>3, <1>6, <2>2, <2>3, <2>5
  <2> QED BY <1>5, <2>4, <2>5
<1>10. \A u \in 0..MaxTime : u > x + Window => g[u] = 0 BY <1>3, <1>4, <1>5, <1>6
<1>11. ASSUME NEW t \in 0..MaxTime, t + Window >= x PROVE SumOver(g, Before(t, x)) <= Budget
  <2>1. m \notin Before(t, x) BY <1>3, <1>4 DEF Before
  <2>2. SumOver(g, Before(t, x)) = SumOver(f, Before(t, x)) BY <1>3, <1>7, <1>8, <2>1
  <2>3. CASE m > w + Window /\ x = m /\ c = amount
    <3>1. Before(t, x) \in SUBSET From(w) BY <1>3, <1>11, <2>3 DEF Before, From
    <3>2. /\ SumOver(f, Before(t, x)) \in Nat /\ SumOver(f, From(w)) \in Nat
          /\ SumOver(f, Before(t, x)) <= SumOver(f, From(w))
      BY <1>3, <1>7, <3>1, SumsOverTime
    <3> QED BY <1>3, <1>4, <1>6, <2>2, <3>2, BudgetIsNat
  <2>4. CASE m <= w + Window /\ x = w /\ c = b + amount BY <1>6, <1>11, <2>2, <2>4
  <2> QED BY <1>5, <2>3, <2>4
<1>12. ASSUME NEW t \in 0..MaxTime PROVE SumOver(g, Span(t)) <= 2 * Budget
  <2>1. CASE m \notin Span(t) BY <1>6, <1>7, <1>8, <2>1, <1>3
  <2>2. CASE m \in Span(t)
    <3> DEFINE L == Before(t, x)
               R == {u \in Span(t) : x <= u}
    <3>1. t + Window >= x BY <1>3, <1>4, <2>2 DEF Span
    <3>2. SumOver(g, L) <= Budget BY <1>11, <3>1
    <3>3. R \in SUBSET From(x) BY DEF Span, From
    <3>4. /\ SumOver(g, R) \in Nat /\ SumOver(g, From(x)) \in Nat
          /\ SumOver(g, R) <= SumOver(g, From(x))
      BY <1>3, <1>7, <3>3, SumsOverTime
    <3>5. L \cap R = {} /\ Span(t) = L \cup R BY <1>3, <3>1 DEF Before, Span
    <3>6. IsFiniteSet(L) /\ IsFiniteSet(R) /\ SumOver(g, L) \in Nat /\ \A u \in L \cup R : g[u] \in Nat
      <4>1. L \in SUBSET (0..MaxTime) /\ R \in SUBSET (0..MaxTime) BY DEF Before, Span
      <4> HIDE DEF L, R
      <4> QED BY <1>3, <4>1, SumsOverTime
    <3> HIDE DEF L, R
    <3>7. SumOver(g, L \cup R) = SumOver(g, L) + SumOver(g, R) BY <3>5, <3>6, SumOfParts
    <3>8. SumOver(g, Span(t)) = SumOver(g, L) + SumOver(g, R) BY <3>5, <3>7, Zenon
    <3> QED BY <1>3, <1>4, <1>9, <3>2, <3>4, <3>6, <3>8, BudgetIsNat, SMTT(60)
  <2> QED BY <2>1, <2>2
<1>13. /\ SumOver(g, From(x)) <= c
       /\ \A u \in 0..MaxTime : u > x + Window => g[u] = 0
       /\ \A t \in 0..MaxTime : t + Window >= x => SumOver(g, Before(t, x)) <= Budget
       /\ \A t \in 0..MaxTime : SumOver(g, Span(t)) <= 2 * Budget
  BY <1>9, <1>10, <1>11, <1>12
<1> QED BY <1>1, <1>13 DEF BurstInv, Budget, Span, From, Before

(* Only a payment changes what was paid, and the bound does not read the clock. *)
LEMMA BurstStep == TypeOK /\ RateInv /\ RateInv' /\ BurstInv /\ [Next]_vars => BurstInv'
<1> SUFFICES ASSUME TypeOK, RateInv, RateInv', BurstInv, [Next]_vars PROVE BurstInv' OBVIOUS
<1>1. CASE \E amount \in 0..MaxAmount : ExecutePayment(amount) BY <1>1, PaymentKeepsBurst
<1>2. CASE UNCHANGED spending
  <2>1. PICK f, w, b : f = paidAt /\ w = windowStart /\ b = spent OBVIOUS
  <2>2. f = paidAt' /\ w = windowStart' /\ b = spent' BY <1>2, <2>1
  <2>3. /\ SumOver(f, From(w)) <= b
        /\ \A u \in 0..MaxTime : u > w + Window => f[u] = 0
        /\ \A t \in 0..MaxTime : t + Window >= w => SumOver(f, Before(t, w)) <= Budget
        /\ \A t \in 0..MaxTime : SumOver(f, Span(t)) <= 2 * Budget
    BY <2>1 DEF BurstInv
  <2> QED BY <2>2, <2>3 DEF BurstInv, Budget, Span, From, Before
<1> QED
  BY <1>1, <1>2, NextCases
  DEF SetTimeLock, AddGuardian, RemoveGuardian, ProposeRecovery, Countersign, TakeOver, Tick

(* A window boundary can double the limit and no more: no stretch of time as   *)
(* long as a window sees more than two limits leave the wallet, for any limit, *)
(* any window and any timing of the payments.                                  *)
THEOREM BurstsAreBounded == Spec => []BurstBound
<1>1. TypeOK /\ BurstInv => BurstBound
  <2> SUFFICES ASSUME TypeOK, BurstInv, NEW t \in 0..now
               PROVE  PaidBetween(t, IF t + Window < now THEN t + Window ELSE now) <= 2 * Budget
    BY DEF BurstBound
  <2>1. PICK e : e = IF t + Window < now THEN t + Window ELSE now OBVIOUS
  <2>2. t..e \in SUBSET Span(t) /\ Span(t) \in SUBSET (0..MaxTime) /\ t \in 0..MaxTime
    BY <2>1 DEF TypeOK, Span
  <2>3. /\ SumOver(paidAt, t..e) \in Nat /\ SumOver(paidAt, Span(t)) \in Nat
        /\ SumOver(paidAt, t..e) <= SumOver(paidAt, Span(t))
    BY <2>2, SumsOverTime DEF TypeOK
  <2>4. SumOver(paidAt, Span(t)) <= 2 * Budget BY <2>2 DEF BurstInv
  <2>5. PaidBetween(t, e) = SumOver(paidAt, t..e) BY DEF PaidBetween, SumOver
  <2> QED BY <2>1, <2>3, <2>4, <2>5, BudgetIsNat
<1> QED
  BY <1>1, TypeInit, TypeStep, RateInit, RateStep, BurstInit, BurstStep, PTL DEF Spec

-----------------------------------------------------------------------------
(* Every signature on the open proposal is backed by a consent to its number   *)
(* and to its new owner, and no proposal was carried out twice.                *)
RecoveryInv ==
  /\ \A p \in pending : \A g \in p.signatures : <<g, p.id, p.newOwner>> \in consents
  /\ lastTakeover < nextId
  /\ NoReplay
  /\ TakeoverIsBacked

(* A new wallet has no proposal.                                             *)
LEMMA RecoveryInit == Init => RecoveryInv
  BY DEF Init, RecoveryInv, NoReplay, TakeoverIsBacked, NoTakeover

(* Consents are never withdrawn, so a takeover stays backed.                   *)
LEMMA BackingIsKept ==
  ASSUME TakeoverIsBacked, consents \subseteq consents',
         UNCHANGED <<owner, threshold, lastTakeover>>
  PROVE  TakeoverIsBacked'
<1>1. Signed(lastTakeover) \subseteq Signed(lastTakeover)'
  BY DEF Signed
<1> QED
  BY <1>1 DEF TakeoverIsBacked

(* A step of the recovery keeps the takeovers backed and the proposals       *)
(* single.                                                                   *)
LEMMA RecoveryStep == TypeOK /\ RecoveryInv /\ [Next]_vars => RecoveryInv'
<1> SUFFICES ASSUME TypeOK, RecoveryInv, [Next]_vars PROVE RecoveryInv'
  OBVIOUS
<1>1. CASE UNCHANGED <<owner, threshold, recovery>>
  BY <1>1, BackingIsKept DEF RecoveryInv, NoReplay
<1>2. ASSUME NEW g \in Address, NEW n \in Address, ProposeRecovery(g, n)
      PROVE  RecoveryInv'
  <2>1. TakeoverIsBacked'
    BY <1>2, BackingIsKept DEF RecoveryInv, ProposeRecovery
  <2>2. <<g, nextId, n>> \in consents'
    BY <1>2 DEF ProposeRecovery, Consent
  <2> QED
    BY <1>2, <2>1, <2>2, SMTT(60) DEF RecoveryInv, NoReplay, ProposeRecovery, TypeOK, NoTakeover
<1>3. ASSUME NEW g \in Address, NEW p \in pending, Countersign(g, p)
      PROVE  RecoveryInv'
  <2>1. TakeoverIsBacked'
    BY <1>3, BackingIsKept DEF RecoveryInv, Countersign
  <2>2. <<g, p.id, p.newOwner>> \in consents'
    BY <1>3 DEF Countersign, MayApprove, Consent
  <2>3. \A q \in pending' : /\ q.id = p.id /\ q.newOwner = p.newOwner
                            /\ q.signatures = p.signatures \cup {g}
    BY <1>3 DEF Countersign, TypeOK, Proposal
  <2> QED
    BY <1>3, <2>1, <2>2, <2>3 DEF RecoveryInv, NoReplay, Countersign
<1>4. ASSUME NEW g \in Address, NEW p \in pending, TakeOver(g, p)
      PROVE  RecoveryInv'
  <2> DEFINE S == p.signatures \cup {g}
  <2>1. \A h \in S : h \in Address /\ <<h, p.id, owner'>> \in consents'
    BY <1>4 DEF TakeOver, MayApprove, Consent, RecoveryInv, TypeOK, Proposal
  <2>2. S \in SUBSET Signed(lastTakeover)'
    BY <1>4, <2>1 DEF Signed, TakeOver
  <2>3. Cardinality(S) >= threshold'
    BY <1>4 DEF TakeOver, Enough
  <2>4. TakeoverIsBacked'
    BY <2>2, <2>3 DEF TakeoverIsBacked
  <2> QED
    BY <1>4, <2>4 DEF RecoveryInv, NoReplay, TakeOver, TypeOK, Proposal
<1> QED
  BY <1>1, <1>2, <1>3, <1>4, NextCases
  DEF ExecutePayment, SetTimeLock, AddGuardian, RemoveGuardian, Tick

(* A recovered wallet has its threshold of guardians behind it, for any list   *)
(* of guardians, any threshold and any order of proposals and removals.        *)
THEOREM TakeoverNeedsGuardians == Spec => []TakeoverIsBacked
<1>1. RecoveryInv => TakeoverIsBacked
  BY DEF RecoveryInv
<1> QED
  BY <1>1, TypeInit, TypeStep, RecoveryInit, RecoveryStep, PTL DEF Spec

(* No proposal is carried out twice, however many owners follow one another.   *)
THEOREM ProposalsAreNotReplayed == Spec => []NoReplay
<1>1. RecoveryInv => NoReplay
  BY DEF RecoveryInv
<1> QED
  BY <1>1, TypeInit, TypeStep, RecoveryInit, RecoveryStep, PTL DEF Spec
=============================================================================
