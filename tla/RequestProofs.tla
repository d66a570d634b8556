----------------------------- MODULE RequestProofs -----------------------------
(***************************************************************************)
(* What the components behind single requests guarantee for any number of  *)
(* requests, any clock and any limits: prices, quotes and conversions, the *)
(* opening of wallets, accounts and the admission of requests, the         *)
(* screening of transfers, and the keys under which requests are repeated. *)
(***************************************************************************)
EXTENDS ForeignExchange, Wallets, VelocityRules, Accounts, Idempotency, Counting, FiniteSetTheorems,
        SequenceTheorems, TLAPS

-----------------------------------------------------------------------------
(* Prices.  Every place a price passes through adds at most its own time to  *)
(* the price's age, and only a caller of the feed lets the clock move; the   *)
(* refresher renews the cache before the entry it replaces has expired.      *)

PricerState == [at : {"idle", "matrix", "fetch", "cache", "store"}, price : Nat \cup {NoPrice}, since : Nat]

(* How old a price may be when it is cached, and when it is served.          *)
AgeCached == FetchTimeout + MemoTTL - 1
AgeServed == FetchTimeout + MemoTTL + RateTTL - 2

MemoOK ==
  memo = NoPrice \/ /\ memo \in [price : Nat, fetched : Nat]
                    /\ memo.price <= memo.fetched /\ memo.fetched <= clock
                    /\ memo.fetched <= memo.price + FetchTimeout

RateOK ==
  rate = NoPrice \/ /\ rate \in [price : Nat, until : Nat] /\ rate.price <= clock
                    /\ rate.price + RateTTL <= rate.until /\ rate.until <= rate.price + AgeCached + RateTTL

(* What may be said of a request for a price that is at position s.          *)
StateOK(s) ==
  /\ s.at = "fetch" => s.since <= clock /\ clock <= s.since + FetchTimeout
  /\ s.at = "cache" => s.price \in Nat /\ s.price <= clock /\ clock <= s.price + AgeCached
  /\ s.at = "store" => s.price \in Nat /\ s.price <= clock /\ clock <= s.price + AgeServed

(* The refresher, against the entry it is to renew.                          *)
RefreshOK ==
  LET a == pricer[Refresher].at IN
  /\ clock <= refreshed + RefreshInterval
  /\ a = "matrix" => clock = refreshed
  /\ a = "fetch" => pricer[Refresher].since = refreshed
  /\ a # "idle" => clock <= refreshed + FetchTimeout
  /\ active /\ ~feedDown => /\ rate # NoPrice
                            /\ rate.until + (IF a = "idle" THEN 0 ELSE RefreshInterval) >= refreshed + RateTTL

PriceTypes ==
  /\ clock \in 0..LastTick /\ refreshed \in 0..clock /\ active \in BOOLEAN /\ feedDown \in BOOLEAN
  /\ pricer \in [Pricer -> PricerState] /\ quote \in [QuoteId -> Quote \cup {NoQuote}]

PriceInv ==
  /\ PriceTypes /\ MemoOK /\ RateOK /\ RefreshOK
  /\ \A p \in Pricer : StateOK(pricer[p])
  /\ \A q \in QuoteId : pricer[q].at # "idle" => quote[q] = NoQuote
  /\ PriceIsFresh

(* The constants as the arithmetic needs them.                               *)
LEMMA FxNumbers ==
  /\ MemoTTL \in Nat /\ MemoTTL > 0 /\ RateTTL \in Nat /\ RateTTL > 0 /\ QuoteTTL \in Nat
  /\ RefreshInterval \in Nat /\ RefreshInterval > 0 /\ FetchTimeout \in Nat /\ LastTick \in Nat
  /\ RefreshInterval + FetchTimeout < RateTTL
  /\ AgeCached \in Nat /\ AgeServed \in Nat /\ AgeServed = AgeCached + RateTTL - 1 /\ FetchTimeout <= AgeCached
<1>1. /\ MemoTTL \in Nat /\ MemoTTL > 0 /\ RateTTL \in Nat /\ RateTTL > 0 /\ QuoteTTL \in Nat
      /\ RefreshInterval \in Nat /\ RefreshInterval > 0
  BY FxTimes
<1>2. FetchTimeout \in Nat /\ LastTick \in Nat
  BY FxBounds
<1> QED BY <1>1, <1>2, RefreshBeforeExpiry DEF AgeCached, AgeServed

(* The refresher and the viewer are no quotes.                               *)
LEMMA Pricers ==
  /\ Refresher \in Pricer /\ Viewer \in Pricer /\ Refresher # Viewer
  /\ Refresher \notin QuoteId /\ Viewer \notin QuoteId /\ QuoteId \subseteq Pricer
BY FxNames DEF Pricer, Refresher, Viewer

(* A pair in use is cached, and the bound on a quote's age.                  *)
LEMMA PriceInvTells ==
  ASSUME PriceInv
  PROVE  /\ PriceIsFresh /\ ActivePairStaysCached
         /\ memo = NoPrice \/ memo.price <= memo.fetched
         /\ rate = NoPrice \/ rate.price < rate.until
<1> USE FxNumbers
<1>1. PriceTypes /\ MemoOK /\ RateOK /\ RefreshOK /\ PriceIsFresh
  BY DEF PriceInv
<1>2. clock \in Nat /\ refreshed \in Nat
  BY <1>1 DEF PriceTypes
<1>3. rate = NoPrice \/ rate.price < rate.until
  BY <1>1 DEF RateOK
<1>4. ASSUME active, ~feedDown PROVE Live(rate)
  <2>1. rate # NoPrice /\ rate.until \in Nat
    BY <1>1, <1>4 DEF RefreshOK, RateOK
  <2>2. CASE pricer[Refresher].at = "idle"
    BY <1>1, <1>2, <1>4, <2>1, <2>2 DEF RefreshOK, Live
  <2>3. CASE pricer[Refresher].at # "idle"
    BY <1>1, <1>2, <1>4, <2>1, <2>3 DEF RefreshOK, Live
  <2> QED BY <2>2, <2>3
<1> QED BY <1>1, <1>3, <1>4 DEF ActivePairStaysCached, MemoOK

(* A price is served only while its entry lives.                             *)
LEMMA ServedPrice ==
  ASSUME PriceInv, Live(rate)
  PROVE  rate.price \in Nat /\ rate.price <= clock /\ clock <= rate.price + AgeServed
<1> USE FxNumbers
<1>1. clock \in Nat
  BY DEF PriceInv, PriceTypes
<1> QED BY <1>1 DEF PriceInv, RateOK, Live

(* One request for a price moves on while the clock stands.                  *)
LEMMA PricerMoves ==
  ASSUME PriceInv, NEW p \in Pricer, NEW s \in PricerState, pricer' = [pricer EXCEPT ![p] = s], StateOK(s),
         UNCHANGED <<clock, quote>>, p \in QuoteId /\ s.at # "idle" => quote[p] = NoQuote
  PROVE  /\ pricer' \in [Pricer -> PricerState] /\ pricer'[p] = s
         /\ (p # Refresher => pricer'[Refresher] = pricer[Refresher])
         /\ (\A r \in Pricer : StateOK(pricer[r]))'
         /\ \A q \in QuoteId : pricer'[q].at # "idle" => quote'[q] = NoQuote
         /\ PriceIsFresh'
<1>1. pricer \in [Pricer -> PricerState]
  BY DEF PriceInv, PriceTypes
<1>2. pricer' \in [Pricer -> PricerState] /\ pricer'[p] = s /\ \A r \in Pricer \ {p} : pricer'[r] = pricer[r]
  BY <1>1
<1>3. ASSUME NEW r \in Pricer PROVE StateOK(pricer[r])'
  <2>1. StateOK(pricer'[r])
    BY <1>2 DEF PriceInv
  <2> QED BY <2>1 DEF StateOK
<1>4. \A q \in QuoteId : pricer'[q].at # "idle" => quote'[q] = NoQuote
  BY <1>2, Pricers DEF PriceInv
<1>5. PriceIsFresh'
  BY DEF PriceInv, PriceIsFresh
<1> QED BY <1>2, <1>3, <1>4, <1>5, Pricers

(* The refresher has not moved and neither has what it looks at.             *)
LEMMA RefresherRests ==
  ASSUME PriceInv, pricer'[Refresher] = pricer[Refresher], UNCHANGED <<clock, refreshed, rate, active, feedDown>>
  PROVE  RefreshOK'
BY DEF PriceInv, RefreshOK

(* A request that begins, with the cached price or without one.              *)
LEMMA GetRatesOK ==
  ASSUME PriceInv, NEW p \in QuoteId \cup {Viewer}, GetRates(p)
  PROVE  PriceInv'
<1> USE FxNumbers
<1>t. PriceTypes /\ MemoOK /\ RateOK
  BY DEF PriceInv
<1>u. /\ UNCHANGED <<clock, refreshed, memo, rate, active, feedDown, quote>>
      /\ pricer[p].at = "idle" /\ (p \in QuoteId => quote[p] = NoQuote)
  BY DEF GetRates
<1>c. clock \in Nat /\ p \in Pricer /\ p # Refresher
  BY <1>t, Pricers DEF PriceTypes
<1>1. \E s \in PricerState : StateOK(s) /\ pricer' = [pricer EXCEPT ![p] = s]
  <2>1. CASE Live(rate) /\ p \in QuoteId
    <3>1. pricer' = [pricer EXCEPT ![p] = [at |-> "store", price |-> rate.price, since |-> clock]]
      BY <2>1 DEF GetRates, Priced, Moves
    <3>2. [at |-> "store", price |-> rate.price, since |-> clock] \in PricerState
      BY <1>c, <2>1, ServedPrice DEF PricerState
    <3>3. StateOK([at |-> "store", price |-> rate.price, since |-> clock])
      BY <2>1, ServedPrice DEF StateOK
    <3> QED BY <3>1, <3>2, <3>3
  <2>2. CASE Live(rate) /\ p \notin QuoteId
    <3>1. pricer' = [pricer EXCEPT ![p] = Idle]
      BY <2>2 DEF GetRates, Priced
    <3>2. Idle \in PricerState /\ StateOK(Idle)
      BY DEF Idle, PricerState, StateOK
    <3> QED BY <3>1, <3>2
  <2>3. CASE ~Live(rate)
    <3>1. pricer' = [pricer EXCEPT ![p] = [at |-> "matrix", price |-> NoPrice, since |-> clock]]
      BY <2>3 DEF GetRates, Moves
    <3>2. /\ [at |-> "matrix", price |-> NoPrice, since |-> clock] \in PricerState
          /\ StateOK([at |-> "matrix", price |-> NoPrice, since |-> clock])
      BY <1>c DEF PricerState, StateOK
    <3> QED BY <3>1, <3>2
  <2> QED BY <2>1, <2>2, <2>3
<1>2. PICK s \in PricerState : StateOK(s) /\ pricer' = [pricer EXCEPT ![p] = s]
  BY <1>1
<1>3. /\ pricer' \in [Pricer -> PricerState] /\ pricer'[Refresher] = pricer[Refresher]
      /\ (\A r \in Pricer : StateOK(pricer[r]))'
      /\ \A q \in QuoteId : pricer'[q].at # "idle" => quote'[q] = NoQuote
      /\ PriceIsFresh'
  BY <1>u, <1>c, <1>2, PricerMoves
<1>4. RefreshOK'
  BY <1>u, <1>3, RefresherRests
<1>5. PriceTypes' /\ MemoOK' /\ RateOK'
  BY <1>t, <1>u, <1>3 DEF PriceTypes, MemoOK, RateOK
<1> QED BY <1>3, <1>4, <1>5 DEF PriceInv

(* The refresh begins on time: the entry in the cache is one interval old.   *)
LEMMA BackgroundRefreshOK ==
  ASSUME PriceInv, BackgroundRefresh
  PROVE  PriceInv'
<1> USE FxNumbers
<1>t. PriceTypes /\ MemoOK /\ RateOK /\ RefreshOK
  BY DEF PriceInv
<1>u. /\ UNCHANGED <<clock, memo, rate, active, feedDown, quote>> /\ refreshed' = clock
      /\ pricer[Refresher].at = "idle" /\ clock = refreshed + RefreshInterval
  BY DEF BackgroundRefresh
<1>c. clock \in Nat /\ refreshed \in Nat
  BY <1>t DEF PriceTypes
<1>1. CASE active
  <2> DEFINE s == [at |-> "matrix", price |-> NoPrice, since |-> clock]
  <2>1. pricer' = [pricer EXCEPT ![Refresher] = s]
    BY <1>1 DEF BackgroundRefresh, Moves
  <2>2. s \in PricerState /\ StateOK(s) /\ s.at = "matrix"
    BY <1>c DEF PricerState, StateOK
  <2> HIDE DEF s
  <2>3. /\ pricer' \in [Pricer -> PricerState] /\ pricer'[Refresher] = s
        /\ (\A r \in Pricer : StateOK(pricer[r]))'
        /\ \A q \in QuoteId : pricer'[q].at # "idle" => quote'[q] = NoQuote
        /\ PriceIsFresh'
    BY <1>u, <2>1, <2>2, PricerMoves, Pricers
  <2>4. RefreshOK'
    <3>1. ~feedDown => rate # NoPrice /\ rate.until \in Nat /\ rate.until >= refreshed + RateTTL
      BY <1>1, <1>t, <1>u, <1>c DEF RefreshOK, RateOK
    <3> QED BY <1>u, <1>c, <2>2, <2>3, <3>1 DEF RefreshOK
  <2>5. PriceTypes' /\ MemoOK' /\ RateOK'
    BY <1>t, <1>u, <1>c, <2>3 DEF PriceTypes, MemoOK, RateOK
  <2> QED BY <2>3, <2>4, <2>5 DEF PriceInv
<1>2. CASE ~active
  <2>1. pricer' = pricer
    BY <1>2 DEF BackgroundRefresh
  <2>2. RefreshOK'
    BY <1>2, <1>u, <1>c, <2>1 DEF RefreshOK
  <2>3. PriceTypes' /\ MemoOK' /\ RateOK'
    BY <1>t, <1>u, <1>c, <2>1 DEF PriceTypes, MemoOK, RateOK
  <2>4. (\A r \in Pricer : StateOK(pricer[r]))' /\ PriceIsFresh'
    BY <1>u, <2>1 DEF PriceInv, StateOK, PriceIsFresh
  <2> QED BY <1>u, <2>1, <2>2, <2>3, <2>4 DEF PriceInv
<1> QED BY <1>1, <1>2

(* The provider's memory, or a call of the feed.                             *)
LEMMA PriceMatrixOK ==
  ASSUME PriceInv, NEW p \in Pricer, PriceMatrix(p)
  PROVE  PriceInv'
<1> USE FxNumbers
<1>t. PriceTypes /\ MemoOK /\ RateOK /\ RefreshOK
  BY DEF PriceInv
<1>u. UNCHANGED <<clock, refreshed, memo, rate, active, feedDown, quote>> /\ pricer[p].at = "matrix"
  BY DEF PriceMatrix
<1>c. clock \in Nat /\ refreshed \in Nat
  BY <1>t DEF PriceTypes
<1>1. \E s \in PricerState : /\ StateOK(s) /\ pricer' = [pricer EXCEPT ![p] = s]
                             /\ s.at \in {"cache", "fetch"} /\ s.since = clock
  <2>1. CASE memo # NoPrice /\ clock - memo.fetched < MemoTTL
    <3>1. pricer' = [pricer EXCEPT ![p] = [at |-> "cache", price |-> memo.price, since |-> clock]]
      BY <2>1 DEF PriceMatrix, Moves
    <3>2. memo.price \in Nat /\ memo.price <= clock /\ clock <= memo.price + AgeCached
      BY <1>t, <1>c, <2>1 DEF MemoOK, AgeCached
    <3>3. /\ [at |-> "cache", price |-> memo.price, since |-> clock] \in PricerState
          /\ StateOK([at |-> "cache", price |-> memo.price, since |-> clock])
      BY <1>c, <3>2 DEF PricerState, StateOK
    <3> QED BY <3>1, <3>3
  <2>2. CASE ~(memo # NoPrice /\ clock - memo.fetched < MemoTTL)
    <3>1. pricer' = [pricer EXCEPT ![p] = [at |-> "fetch", price |-> NoPrice, since |-> clock]]
      BY <2>2 DEF PriceMatrix, Moves
    <3>2. /\ [at |-> "fetch", price |-> NoPrice, since |-> clock] \in PricerState
          /\ StateOK([at |-> "fetch", price |-> NoPrice, since |-> clock])
      BY <1>c DEF PricerState, StateOK
    <3> QED BY <3>1, <3>2
  <2> QED BY <2>1, <2>2
<1>2. PICK s \in PricerState : /\ StateOK(s) /\ pricer' = [pricer EXCEPT ![p] = s]
                               /\ s.at \in {"cache", "fetch"} /\ s.since = clock
  BY <1>1
<1>3. p \in QuoteId => quote[p] = NoQuote
  BY <1>u DEF PriceInv
<1>4. /\ pricer' \in [Pricer -> PricerState] /\ pricer'[p] = s
      /\ (p # Refresher => pricer'[Refresher] = pricer[Refresher])
      /\ (\A r \in Pricer : StateOK(pricer[r]))'
      /\ \A q \in QuoteId : pricer'[q].at # "idle" => quote'[q] = NoQuote
      /\ PriceIsFresh'
  BY <1>u, <1>2, <1>3, PricerMoves
<1>5. RefreshOK'
  <2>1. CASE p # Refresher
    BY <1>u, <1>4, <2>1, RefresherRests
  <2>2. CASE p = Refresher
    <3>1. /\ clock = refreshed /\ pricer'[Refresher].at \in {"cache", "fetch"} /\ pricer'[Refresher].since = refreshed
          /\ pricer[Refresher].at = "matrix"
      BY <1>t, <1>u, <1>2, <1>4, <2>2 DEF RefreshOK
    <3> QED BY <1>t, <1>u, <1>c, <3>1 DEF RefreshOK
  <2> QED BY <2>1, <2>2
<1>6. PriceTypes' /\ MemoOK' /\ RateOK'
  BY <1>t, <1>u, <1>4 DEF PriceTypes, MemoOK, RateOK
<1> QED BY <1>4, <1>5, <1>6 DEF PriceInv

(* The feed answers: the price is as old as the call, at most.               *)
LEMMA FetchAnsweredOK ==
  ASSUME PriceInv, NEW p \in Pricer, FetchAnswered(p)
  PROVE  PriceInv'
<1> USE FxNumbers
<1>t. PriceTypes /\ MemoOK /\ RateOK /\ RefreshOK
  BY DEF PriceInv
<1>u. UNCHANGED <<clock, refreshed, rate, active, feedDown, quote>> /\ pricer[p].at = "fetch"
  BY DEF FetchAnswered
<1>c. /\ clock \in Nat /\ refreshed \in Nat /\ pricer[p].since \in Nat
      /\ pricer[p].since <= clock /\ clock <= pricer[p].since + FetchTimeout
  BY <1>t, <1>u DEF PriceTypes, PricerState, PriceInv, StateOK
<1>1. PICK t \in pricer[p].since..clock :
        /\ memo' = [price |-> t, fetched |-> clock]
        /\ pricer' = [pricer EXCEPT ![p] = [at |-> "cache", price |-> t, since |-> clock]]
  BY DEF FetchAnswered, Moves
<1>2. t \in Nat /\ t <= clock /\ clock <= t + FetchTimeout
  BY <1>c
<1> DEFINE s == [at |-> "cache", price |-> t, since |-> clock]
<1>3. s \in PricerState /\ StateOK(s) /\ s.at = "cache"
  BY <1>c, <1>2 DEF PricerState, StateOK
<1> HIDE DEF s
<1>4. p \in QuoteId => quote[p] = NoQuote
  BY <1>u DEF PriceInv
<1>5. /\ pricer' \in [Pricer -> PricerState] /\ pricer'[p] = s
      /\ (p # Refresher => pricer'[Refresher] = pricer[Refresher])
      /\ (\A r \in Pricer : StateOK(pricer[r]))'
      /\ \A q \in QuoteId : pricer'[q].at # "idle" => quote'[q] = NoQuote
      /\ PriceIsFresh'
  BY <1>u, <1>1, <1>3, <1>4, PricerMoves DEF s
<1>6. RefreshOK'
  <2>1. CASE p # Refresher
    BY <1>u, <1>5, <2>1, RefresherRests
  <2>2. CASE p = Refresher
    <3>1. pricer'[Refresher].at = "cache" /\ pricer[Refresher].at = "fetch"
      BY <1>u, <1>3, <1>5, <2>2
    <3> QED BY <1>t, <1>u, <3>1 DEF RefreshOK
  <2> QED BY <2>1, <2>2
<1>7. MemoOK'
  BY <1>u, <1>c, <1>1, <1>2 DEF MemoOK
<1>8. PriceTypes' /\ RateOK'
  BY <1>t, <1>u, <1>5 DEF PriceTypes, RateOK
<1> QED BY <1>5, <1>6, <1>7, <1>8 DEF PriceInv

(* The feed fails: the price of the order book, or none.                     *)
LEMMA FetchFailsOK ==
  ASSUME PriceInv, NEW p \in Pricer, FetchFails(p)
  PROVE  PriceInv'
<1> USE FxNumbers
<1>t. PriceTypes /\ MemoOK /\ RateOK /\ RefreshOK
  BY DEF PriceInv
<1>u. UNCHANGED <<clock, refreshed, memo, rate, active, quote>> /\ pricer[p].at = "fetch" /\ feedDown' = TRUE
  BY DEF FetchFails
<1>c. clock \in Nat
  BY <1>t DEF PriceTypes
<1>1. \E s \in PricerState : StateOK(s) /\ pricer' = [pricer EXCEPT ![p] = s] /\ s.at \in {"cache", "idle"}
  <2>1. CASE Moves(p, "cache", clock, clock)
    <3>1. /\ [at |-> "cache", price |-> clock, since |-> clock] \in PricerState
          /\ StateOK([at |-> "cache", price |-> clock, since |-> clock])
      BY <1>c DEF PricerState, StateOK
    <3> QED BY <2>1, <3>1 DEF Moves
  <2>2. CASE pricer' = [pricer EXCEPT ![p] = Idle]
    <3>1. Idle \in PricerState /\ StateOK(Idle) /\ Idle.at = "idle"
      BY DEF Idle, PricerState, StateOK
    <3> QED BY <2>2, <3>1
  <2> QED BY <2>1, <2>2 DEF FetchFails
<1>2. PICK s \in PricerState : StateOK(s) /\ pricer' = [pricer EXCEPT ![p] = s] /\ s.at \in {"cache", "idle"}
  BY <1>1
<1>3. p \in QuoteId => quote[p] = NoQuote
  BY <1>u DEF PriceInv
<1>4. /\ pricer' \in [Pricer -> PricerState] /\ pricer'[p] = s
      /\ (p # Refresher => pricer'[Refresher] = pricer[Refresher])
      /\ (\A r \in Pricer : StateOK(pricer[r]))'
      /\ \A q \in QuoteId : pricer'[q].at # "idle" => quote'[q] = NoQuote
      /\ PriceIsFresh'
  BY <1>u, <1>2, <1>3, PricerMoves
<1>5. RefreshOK'
  <2>1. pricer'[Refresher] = pricer[Refresher] \/ (pricer'[Refresher].at \in {"cache", "idle"} /\ pricer[Refresher].at = "fetch")
    BY <1>u, <1>2, <1>4
  <2> QED BY <1>t, <1>u, <2>1 DEF RefreshOK
<1>6. PriceTypes' /\ MemoOK' /\ RateOK'
  BY <1>t, <1>u, <1>4 DEF PriceTypes, MemoOK, RateOK
<1> QED BY <1>4, <1>5, <1>6 DEF PriceInv

(* The cache is set: whoever sets it, the entry lives a whole TTL from now.  *)
LEMMA CacheRateOK ==
  ASSUME PriceInv, NEW p \in Pricer, CacheRate(p)
  PROVE  PriceInv'
<1> USE FxNumbers
<1>t. PriceTypes /\ MemoOK /\ RateOK /\ RefreshOK
  BY DEF PriceInv
<1>u. /\ UNCHANGED <<clock, refreshed, memo, feedDown, quote>> /\ pricer[p].at = "cache"
      /\ rate' = [price |-> pricer[p].price, until |-> clock + RateTTL]
      /\ active' = (active \/ p # Refresher) /\ Priced(p, pricer[p].price)
  BY DEF CacheRate, CacheSet
<1>c. /\ clock \in Nat /\ refreshed \in Nat /\ refreshed <= clock /\ clock <= refreshed + RefreshInterval
      /\ pricer[p].price \in Nat /\ pricer[p].price <= clock /\ clock <= pricer[p].price + AgeCached
  BY <1>t, <1>u DEF PriceTypes, PriceInv, StateOK, RefreshOK
<1>1. \E s \in PricerState : StateOK(s) /\ pricer' = [pricer EXCEPT ![p] = s] /\ (p = Refresher => s.at = "idle")
  <2>1. CASE p \in QuoteId
    <3>1. /\ [at |-> "store", price |-> pricer[p].price, since |-> clock] \in PricerState
          /\ StateOK([at |-> "store", price |-> pricer[p].price, since |-> clock])
      BY <1>c DEF PricerState, StateOK
    <3> QED BY <1>u, <2>1, <3>1, Pricers DEF Priced, Moves
  <2>2. CASE p \notin QuoteId
    <3>1. Idle \in PricerState /\ StateOK(Idle) /\ Idle.at = "idle"
      BY DEF Idle, PricerState, StateOK
    <3> QED BY <1>u, <2>2, <3>1 DEF Priced
  <2> QED BY <2>1, <2>2
<1>2. PICK s \in PricerState : StateOK(s) /\ pricer' = [pricer EXCEPT ![p] = s] /\ (p = Refresher => s.at = "idle")
  BY <1>1
<1>3. p \in QuoteId => quote[p] = NoQuote
  BY <1>u DEF PriceInv
<1>4. /\ pricer' \in [Pricer -> PricerState] /\ pricer'[p] = s
      /\ (p # Refresher => pricer'[Refresher] = pricer[Refresher])
      /\ (\A r \in Pricer : StateOK(pricer[r]))'
      /\ \A q \in QuoteId : pricer'[q].at # "idle" => quote'[q] = NoQuote
      /\ PriceIsFresh'
  BY <1>u, <1>2, <1>3, PricerMoves
<1>5. /\ rate' \in [price : Nat, until : Nat] /\ rate' # NoPrice
      /\ rate'.price = pricer[p].price /\ rate'.until = clock + RateTTL
  BY <1>u, <1>c, FxNames
<1>6. RateOK'
  BY <1>u, <1>c, <1>5 DEF RateOK
<1>7. RefreshOK'
  <2>1. pricer'[Refresher] = pricer[Refresher] \/ pricer'[Refresher].at = "idle"
    BY <1>2, <1>4
  <2>2. rate'.until >= refreshed + RateTTL /\ rate'.until + RefreshInterval >= refreshed + RateTTL
    BY <1>c, <1>5
  <2>3. /\ rate'.until + 0 = rate'.until
    BY <1>c, <1>5
  <2> QED BY <1>t, <1>u, <1>5, <2>1, <2>2, <2>3 DEF RefreshOK
<1>8. active' \in BOOLEAN
  BY <1>u
<1>9. PriceTypes' /\ MemoOK'
  BY <1>t, <1>u, <1>4, <1>8 DEF PriceTypes, MemoOK
<1> QED BY <1>4, <1>6, <1>7, <1>9 DEF PriceInv

(* The quote is stored with the age its price has.                           *)
LEMMA StoreQuoteOK ==
  ASSUME PriceInv, NEW q \in QuoteId, StoreQuote(q)
  PROVE  PriceInv'
<1> USE FxNumbers
<1>t. PriceTypes /\ MemoOK /\ RateOK /\ RefreshOK
  BY DEF PriceInv
<1>u. /\ UNCHANGED <<clock, refreshed, memo, rate, active, feedDown>>
      /\ pricer[q].at = "store" /\ pricer' = [pricer EXCEPT ![q] = Idle]
  BY DEF StoreQuote
<1>1. PICK o \in Org :
        quote' = [quote EXCEPT ![q] = [org |-> o, price |-> pricer[q].price, made |-> clock,
                                       expires |-> clock + QuoteTTL, used |-> FALSE]]
  BY DEF StoreQuote
<1>c. /\ clock \in 0..LastTick /\ clock \in Nat /\ q \in Pricer /\ q # Refresher
      /\ pricer[q].price \in Nat /\ pricer[q].price <= clock /\ clock <= pricer[q].price + AgeServed
  BY <1>t, <1>u, Pricers DEF PriceTypes, PriceInv, StateOK
<1> DEFINE row == [org |-> o, price |-> pricer[q].price, made |-> clock, expires |-> clock + QuoteTTL, used |-> FALSE]
<1>2. row \in Quote /\ row.made - row.price <= AgeServed
  BY <1>c DEF Quote
<1> HIDE DEF row
<1>3. quote' \in [QuoteId -> Quote \cup {NoQuote}] /\ quote'[q] = row /\ \A r \in QuoteId \ {q} : quote'[r] = quote[r]
  BY <1>t, <1>1, <1>2 DEF row, PriceTypes
<1>4. Idle \in PricerState /\ StateOK(Idle) /\ Idle.at = "idle"
  BY DEF Idle, PricerState, StateOK
<1>5. pricer' \in [Pricer -> PricerState] /\ pricer'[q] = Idle /\ \A r \in Pricer \ {q} : pricer'[r] = pricer[r]
  BY <1>t, <1>u, <1>c, <1>4 DEF PriceTypes
<1>6. ASSUME NEW r \in Pricer PROVE StateOK(pricer[r])'
  <2>1. StateOK(pricer'[r])
    BY <1>4, <1>5 DEF PriceInv
  <2> QED BY <1>u, <2>1 DEF StateOK
<1>7. ASSUME NEW r \in QuoteId, pricer'[r].at # "idle" PROVE quote'[r] = NoQuote
  BY <1>3, <1>4, <1>5, <1>7, Pricers DEF PriceInv
<1>8. PriceIsFresh'
  <2>1. ASSUME NEW r \in QuoteId, quote'[r] # NoQuote
        PROVE  quote'[r].made - quote'[r].price <= FetchTimeout + MemoTTL + RateTTL - 2
    <3>1. CASE r = q
      BY <1>2, <1>3, <3>1 DEF AgeServed
    <3>2. CASE r # q
      BY <1>3, <2>1, <3>2 DEF PriceInv, PriceIsFresh
    <3> QED BY <3>1, <3>2
  <2> QED BY <2>1 DEF PriceIsFresh
<1>9. RefreshOK'
  BY <1>u, <1>c, <1>5, Pricers, RefresherRests
<1>10. PriceTypes' /\ MemoOK' /\ RateOK'
  BY <1>t, <1>u, <1>3, <1>5 DEF PriceTypes, MemoOK, RateOK
<1> QED BY <1>6, <1>7, <1>8, <1>9, <1>10 DEF PriceInv

(* The clock moves: only callers of the feed are under way, within their     *)
(* timeout.                                                                  *)
LEMMA FxTickOK ==
  ASSUME PriceInv, FxTick
  PROVE  PriceInv'
<1> USE FxNumbers
<1>t. PriceTypes /\ MemoOK /\ RateOK /\ RefreshOK
  BY DEF PriceInv
<1>u. /\ UNCHANGED <<refreshed, memo, rate, active, pricer, feedDown, quote>>
      /\ clock < LastTick /\ clock < refreshed + RefreshInterval /\ clock' = clock + 1
      /\ \A p \in Pricer : pricer[p].at # "idle" => (pricer[p].at = "fetch" /\ clock < pricer[p].since + FetchTimeout)
  BY DEF FxTick
<1>c. clock \in Nat /\ refreshed \in Nat /\ clock' \in 0..LastTick /\ refreshed \in 0..clock'
  BY <1>t, <1>u DEF PriceTypes
<1>1. ASSUME NEW p \in Pricer PROVE StateOK(pricer[p])'
  <2>1. pricer[p].at = "idle" \/ (pricer[p].at = "fetch" /\ clock < pricer[p].since + FetchTimeout)
    BY <1>u
  <2>2. pricer[p] \in PricerState /\ StateOK(pricer[p])
    BY <1>t DEF PriceTypes, PriceInv
  <2>3. CASE pricer[p].at = "idle"
    BY <1>u, <2>3 DEF StateOK
  <2>4. CASE pricer[p].at = "fetch" /\ clock < pricer[p].since + FetchTimeout
    <3>1. pricer[p].since \in Nat /\ pricer[p].since <= clock
      BY <2>2, <2>4 DEF PricerState, StateOK
    <3>2. pricer[p].since <= clock' /\ clock' <= pricer[p].since + FetchTimeout
      BY <1>u, <1>c, <2>4, <3>1
    <3> QED BY <1>u, <2>4, <3>2 DEF StateOK
  <2> QED BY <2>1, <2>3, <2>4
<1>2. RefreshOK'
  <2>1. pricer[Refresher].at = "idle" \/ (pricer[Refresher].at = "fetch" /\ clock < pricer[Refresher].since + FetchTimeout)
    BY <1>u, Pricers
  <2>2. CASE pricer[Refresher].at = "idle"
    BY <1>t, <1>u, <1>c, <2>2 DEF RefreshOK
  <2>3. CASE pricer[Refresher].at = "fetch" /\ clock < pricer[Refresher].since + FetchTimeout
    BY <1>t, <1>u, <1>c, <2>3 DEF RefreshOK
  <2> QED BY <2>1, <2>2, <2>3
<1>3. MemoOK' /\ RateOK'
  BY <1>t, <1>u, <1>c DEF MemoOK, RateOK
<1>4. PriceTypes'
  BY <1>t, <1>u, <1>c DEF PriceTypes
<1>5. PriceIsFresh'
  BY <1>u DEF PriceInv, PriceIsFresh
<1> QED BY <1>u, <1>1, <1>2, <1>3, <1>4, <1>5 DEF PriceInv
-----------------------------------------------------------------------------
(* Conversions.  The script that marks a quote used gives it to one request  *)
(* for good; what is done with the quote afterwards is done by that request, *)
(* once each, or never.                                                      *)

Claimed == {"check", "persist", "pay", "audit"}

Works(k, q) == cpc[k] # "idle" /\ conv[k].quote = q

(* Nothing was done with the quote; it was converted for its organisation.   *)
Untouched(q) == paid[q] = 0 /\ \A c \in conversions : c.quote # q
Recorded(q) == \E c \in conversions : c.quote = q /\ c.org = quote[q].org

ClaimOK(k, q) ==
  /\ quote[q] # NoQuote
  /\ cpc[k] \in Claimed => quote[q].used
  /\ cpc[k] \in {"check", "persist"} => Untouched(q)
  /\ cpc[k] = "persist" => conv[k].org = quote[q].org
  /\ cpc[k] = "pay" => paid[q] = 0
  /\ cpc[k] \in {"pay", "audit"} => Recorded(q)

QuoteOK(q) ==
  /\ quote[q] = NoQuote \/ ~quote[q].used => Untouched(q)
  /\ paid[q] <= 1 /\ \A c, d \in conversions : c.quote = q /\ d.quote = q => c = d
  /\ paid[q] > 0 \/ auditRow[q] = "used" => Recorded(q)

ConvertTypes ==
  /\ cpc \in [Converter -> {"idle", "claim"} \cup Claimed]
  /\ conv \in [Converter -> [quote : QuoteId, org : Org] \cup {NoConv}]
  /\ \A k \in Converter : (cpc[k] = "idle") = (conv[k] = NoConv)
  /\ conversions \subseteq Conversion /\ paid \in [QuoteId -> Nat]
  /\ auditRow \in [QuoteId -> {"none", "open", "used"}]

ConvertInv ==
  /\ ConvertTypes
  /\ \A q \in QuoteId : QuoteOK(q)
  /\ \A k \in Converter, q \in QuoteId : Works(k, q) => ClaimOK(k, q)
  /\ \A k, l \in Converter, q \in QuoteId :
       Works(k, q) /\ Works(l, q) /\ cpc[k] \in Claimed /\ cpc[l] \in Claimed => k = l

FxInv == PriceInv /\ ConvertInv

(* A request's work is a quote's.                                            *)
LEMMA WorkIsTyped ==
  ASSUME ConvertTypes, NEW k \in Converter, cpc[k] # "idle"
  PROVE  conv[k] \in [quote : QuoteId, org : Org] /\ conv[k].quote \in QuoteId /\ conv[k].org \in Org
BY DEF ConvertTypes

(* NoConv is no request.                                                     *)
LEMMA RequestIsNotNoConv ==
  ASSUME NEW r \in [quote : QuoteId, org : Org]
  PROVE  r # NoConv
<1>1. r.quote \in QuoteId /\ NoConv.quote = NoQuote
  BY DEF NoConv
<1> QED BY <1>1, FxNames

(* The invariant says all that FxSafe does.                                  *)
LEMMA FxInvIsSafe ==
  ASSUME FxInv
  PROVE  FxSafe
<1>1. PriceTypes /\ ConvertTypes /\ \A q \in QuoteId : QuoteOK(q)
  BY DEF FxInv, PriceInv, ConvertInv
<1>2. /\ PriceIsFresh /\ ActivePairStaysCached
      /\ memo = NoPrice \/ memo.price <= memo.fetched
      /\ rate = NoPrice \/ rate.price < rate.until
  BY PriceInvTells DEF FxInv
<1>3. FxTypeOK
  BY <1>1, <1>2 DEF FxTypeOK, PriceTypes, ConvertTypes
<1>4. ConvertedOnce /\ PaidIsRecorded
  BY <1>1 DEF ConvertedOnce, PaidIsRecorded, QuoteOK, Recorded
<1> QED BY <1>2, <1>3, <1>4 DEF FxSafe

(* A step of request k with quote q.  Whoever else works on q has at most    *)
(* read it, unless the step leaves q and what was done with it alone.        *)
LEMMA ConvertStep ==
  ASSUME FxInv, NEW k \in Converter, NEW q \in QuoteId, ConvertTypes', QuoteOK(q)',
         \A l \in Converter \ {k} : cpc'[l] = cpc[l] /\ conv'[l] = conv[l],
         \A r \in QuoteId \ {q} : quote'[r] = quote[r] /\ paid'[r] = paid[r] /\ auditRow'[r] = auditRow[r],
         \A c \in Conversion : c.quote # q => (c \in conversions' <=> c \in conversions),
         quote'[q] # NoQuote,
         \A r \in QuoteId : Works(k, r)' => r = q /\ ClaimOK(k, q)',
         \/ \A l \in Converter \ {k} : Works(l, q) => cpc[l] = "claim"
         \/ cpc'[k] \notin Claimed /\ quote'[q] = quote[q] /\ paid'[q] = paid[q] /\ conversions' = conversions
  PROVE  ConvertInv'
<1>t. ConvertTypes /\ ConvertTypes'
  BY DEF FxInv, ConvertInv
<1>s. conversions \subseteq Conversion /\ conversions' \subseteq Conversion
  BY <1>t DEF ConvertTypes
<1>1. ASSUME NEW r \in QuoteId, r # q
      PROVE  Untouched(r)' = Untouched(r) /\ Recorded(r)' = Recorded(r) /\ QuoteOK(r)'
  <2>1. Untouched(r)' = Untouched(r)
    BY <1>1, <1>s DEF Untouched
  <2>2. Recorded(r)' = Recorded(r)
    BY <1>1, <1>s DEF Recorded
  <2>3. QuoteOK(r)
    BY DEF FxInv, ConvertInv
  <2>4. \A c, d \in conversions' : c.quote = r /\ d.quote = r => c = d
    BY <1>1, <1>s, <2>3 DEF QuoteOK
  <2> QED BY <1>1, <2>1, <2>2, <2>3, <2>4 DEF QuoteOK
<1>2. ASSUME NEW l \in Converter, NEW r \in QuoteId, Works(l, r)', l # k
      PROVE  Works(l, r) /\ ClaimOK(l, r) /\ ClaimOK(l, r)'
  <2>1. Works(l, r) /\ ClaimOK(l, r)
    BY <1>2 DEF Works, FxInv, ConvertInv
  <2>2. CASE r # q
    BY <1>1, <1>2, <2>1, <2>2 DEF ClaimOK
  <2>3. CASE r = q /\ cpc[l] = "claim"
    BY <1>2, <2>1, <2>3 DEF ClaimOK, Claimed
  <2>4. CASE r = q /\ quote'[q] = quote[q] /\ paid'[q] = paid[q] /\ conversions' = conversions
    BY <1>2, <2>1, <2>4 DEF ClaimOK, Untouched, Recorded
  <2>5. ASSUME r = q
        PROVE  cpc[l] = "claim" \/ (quote'[q] = quote[q] /\ paid'[q] = paid[q] /\ conversions' = conversions)
    <3>1. Works(l, q)
      BY <2>1, <2>5
    <3> QED BY <1>2, <3>1
  <2>6. ClaimOK(l, r)'
    BY <2>2, <2>3, <2>4, <2>5
  <2> QED BY <2>1, <2>6
<1>3. ASSUME NEW l \in Converter, NEW r \in QuoteId, Works(l, r)' PROVE ClaimOK(l, r)'
  BY <1>2, <1>3
<1>4. ASSUME NEW l \in Converter, NEW m \in Converter, NEW r \in QuoteId, Works(l, r)', Works(m, r)',
             cpc'[l] \in Claimed, cpc'[m] \in Claimed
      PROVE  l = m
  <2>1. CASE l # k /\ m # k
    BY <1>2, <1>4, <2>1 DEF FxInv, ConvertInv
  <2>2. ASSUME NEW j \in Converter, j # k, Works(j, q)', cpc'[j] \in Claimed, cpc'[k] \in Claimed PROVE FALSE
    <3>1. Works(j, q) /\ cpc[j] \in Claimed
      BY <1>2, <2>2
    <3> QED BY <2>2, <3>1 DEF Claimed
  <2>3. CASE l = k /\ m # k
    BY <1>4, <2>2, <2>3
  <2>4. CASE m = k /\ l # k
    BY <1>4, <2>2, <2>4
  <2> QED BY <2>1, <2>3, <2>4
<1>5. \A r \in QuoteId : QuoteOK(r)'
  BY <1>1
<1> QED BY <1>t, <1>3, <1>4, <1>5 DEF ConvertInv

(* What a conversion step does to prices: at most it marks a quote used.     *)
LEMMA PricesStay ==
  ASSUME FxInv, NEW q \in QuoteId, UNCHANGED priceVars, quote[q] # NoQuote,
         quote' = quote \/ quote' = [quote EXCEPT ![q].used = TRUE]
  PROVE  /\ PriceInv' /\ quote'[q] # NoQuote /\ quote'[q].org = quote[q].org
         /\ \A r \in QuoteId \ {q} : quote'[r] = quote[r]
<1>t. PriceTypes /\ PriceInv
  BY DEF FxInv, PriceInv
<1>1. quote \in [QuoteId -> Quote \cup {NoQuote}] /\ quote[q] \in Quote
  BY <1>t DEF PriceTypes
<1>2. /\ quote' \in [QuoteId -> Quote \cup {NoQuote}] /\ quote'[q] \in Quote
      /\ quote'[q].org = quote[q].org /\ quote'[q].made = quote[q].made /\ quote'[q].price = quote[q].price
      /\ \A r \in QuoteId \ {q} : quote'[r] = quote[r]
  BY <1>1, ZenonT(60) DEF Quote
<1>3. quote'[q] # NoQuote
  BY <1>2, FxNames
<1>4. UNCHANGED <<clock, refreshed, memo, rate, active, pricer, feedDown>>
  BY DEF priceVars
<1>5. PriceTypes' /\ MemoOK' /\ RateOK' /\ RefreshOK' /\ (\A p \in Pricer : StateOK(pricer[p]))'
  BY <1>t, <1>2, <1>4 DEF PriceInv, PriceTypes, MemoOK, RateOK, RefreshOK, StateOK
<1>6. ASSUME NEW r \in QuoteId, pricer'[r].at # "idle" PROVE quote'[r] = NoQuote
  BY <1>t, <1>2, <1>4, <1>6 DEF PriceInv
<1>7. PriceIsFresh'
  <2>1. ASSUME NEW r \in QuoteId, quote'[r] # NoQuote
        PROVE  quote'[r].made - quote'[r].price <= FetchTimeout + MemoTTL + RateTTL - 2
    BY <1>t, <1>2, <2>1 DEF PriceInv, PriceIsFresh
  <2> QED BY <2>1 DEF PriceIsFresh
<1>8. PriceInv'
  BY <1>5, <1>6, <1>7 DEF PriceInv
<1> QED BY <1>2, <1>3, <1>8

(* A request that moves on, or ends.                                         *)
LEMMA GoesTypes ==
  ASSUME ConvertTypes, NEW k \in Converter, cpc[k] # "idle"
  PROVE  /\ \A at \in {"claim"} \cup Claimed : Goes(k, at) /\ UNCHANGED conv =>
              /\ cpc' \in [Converter -> {"idle", "claim"} \cup Claimed]
              /\ conv' \in [Converter -> [quote : QuoteId, org : Org] \cup {NoConv}]
              /\ \A l \in Converter : (cpc'[l] = "idle") = (conv'[l] = NoConv)
              /\ cpc'[k] = at /\ \A l \in Converter \ {k} : cpc'[l] = cpc[l] /\ conv'[l] = conv[l]
         /\ EndConversion(k) =>
              /\ cpc' \in [Converter -> {"idle", "claim"} \cup Claimed]
              /\ conv' \in [Converter -> [quote : QuoteId, org : Org] \cup {NoConv}]
              /\ \A l \in Converter : (cpc'[l] = "idle") = (conv'[l] = NoConv)
              /\ cpc'[k] = "idle" /\ \A l \in Converter \ {k} : cpc'[l] = cpc[l] /\ conv'[l] = conv[l]
<1>1. cpc \in [Converter -> {"idle", "claim"} \cup Claimed] /\ conv \in [Converter -> [quote : QuoteId, org : Org] \cup {NoConv}]
      /\ \A l \in Converter : (cpc[l] = "idle") = (conv[l] = NoConv)
  BY DEF ConvertTypes
<1>2. ASSUME NEW at \in {"claim"} \cup Claimed, Goes(k, at), UNCHANGED conv
      PROVE  /\ cpc' \in [Converter -> {"idle", "claim"} \cup Claimed]
             /\ conv' \in [Converter -> [quote : QuoteId, org : Org] \cup {NoConv}]
             /\ \A l \in Converter : (cpc'[l] = "idle") = (conv'[l] = NoConv)
             /\ cpc'[k] = at /\ \A l \in Converter \ {k} : cpc'[l] = cpc[l] /\ conv'[l] = conv[l]
  <2>1. at # "idle"
    BY DEF Claimed
  <2> QED BY <1>1, <1>2, <2>1 DEF Goes
<1>3. ASSUME EndConversion(k)
      PROVE  /\ cpc' \in [Converter -> {"idle", "claim"} \cup Claimed]
             /\ conv' \in [Converter -> [quote : QuoteId, org : Org] \cup {NoConv}]
             /\ \A l \in Converter : (cpc'[l] = "idle") = (conv'[l] = NoConv)
             /\ cpc'[k] = "idle" /\ \A l \in Converter \ {k} : cpc'[l] = cpc[l] /\ conv'[l] = conv[l]
  BY <1>1, <1>3 DEF EndConversion, Goes
<1> QED BY <1>2, <1>3

(* A claimed quote has one request.                                          *)
LEMMA OthersOnlyRead ==
  ASSUME FxInv, NEW k \in Converter, NEW q \in QuoteId, Works(k, q), cpc[k] \in Claimed
  PROVE  \A l \in Converter \ {k} : Works(l, q) => cpc[l] = "claim"
<1>1. \A l \in Converter : cpc[l] \in {"idle", "claim"} \cup Claimed
  BY DEF FxInv, ConvertInv, ConvertTypes
<1> QED BY <1>1 DEF FxInv, ConvertInv, Works

(* A request ends and changes nothing else: refused, failed or lost.         *)
LEMMA EndOK ==
  ASSUME FxInv, NEW k \in Converter, NEW q, q = conv[k].quote, cpc[k] # "idle", EndConversion(k),
         UNCHANGED <<priceVars, quote, auditRow, conversions, paid>>
  PROVE  FxInv'
<1>t. ConvertTypes /\ q \in QuoteId /\ Works(k, q) /\ QuoteOK(q)
  BY WorkIsTyped DEF FxInv, ConvertInv, Works
<1>1. quote[q] # NoQuote
  BY <1>t DEF FxInv, ConvertInv, ClaimOK
<1>2. PriceInv'
  BY <1>t, <1>1, PricesStay
<1>3. ConvertTypes' /\ cpc'[k] = "idle" /\ \A l \in Converter \ {k} : cpc'[l] = cpc[l] /\ conv'[l] = conv[l]
  BY <1>t, GoesTypes DEF ConvertTypes
<1>4. QuoteOK(q)'
  BY <1>t DEF QuoteOK, Untouched, Recorded
<1>5. \A r : ~Works(k, r)'
  BY <1>3 DEF Works
<1>6. "idle" \notin Claimed
  BY DEF Claimed
<1>7. ConvertInv'
  BY <1>t, <1>1, <1>3, <1>4, <1>5, <1>6, ConvertStep
<1> QED BY <1>2, <1>7 DEF FxInv

(* A request takes up a quote that exists.                                   *)
LEMMA ExecuteConversionOK ==
  ASSUME FxInv, NEW k \in Converter, ExecuteConversion(k)
  PROVE  FxInv'
<1>1. PICK r \in ConvertRequest : conv' = [conv EXCEPT ![k] = r]
  BY DEF ExecuteConversion
<1>2. r \in [quote : QuoteId, org : Org] /\ r.quote \in QuoteId /\ quote[r.quote] # NoQuote /\ r # NoConv
  BY RequestIsNotNoConv DEF ConvertRequest
<1>t. ConvertTypes /\ QuoteOK(r.quote)
  BY <1>2 DEF FxInv, ConvertInv
<1>u. cpc' = [cpc EXCEPT ![k] = "claim"] /\ UNCHANGED <<priceVars, quote, auditRow, conversions, paid>>
  BY DEF ExecuteConversion, Goes
<1>3. PriceInv'
  BY <1>2, <1>u, PricesStay
<1>4. /\ cpc' \in [Converter -> {"idle", "claim"} \cup Claimed]
      /\ conv' \in [Converter -> [quote : QuoteId, org : Org] \cup {NoConv}]
      /\ cpc'[k] = "claim" /\ conv'[k] = r
      /\ \A l \in Converter \ {k} : cpc'[l] = cpc[l] /\ conv'[l] = conv[l]
  BY <1>t, <1>u, <1>1, <1>2 DEF ConvertTypes
<1>5. \A l \in Converter : (cpc'[l] = "idle") = (conv'[l] = NoConv)
  BY <1>t, <1>2, <1>4 DEF ConvertTypes
<1>6. ConvertTypes'
  BY <1>t, <1>u, <1>4, <1>5 DEF ConvertTypes
<1>7. QuoteOK(r.quote)'
  BY <1>t, <1>u DEF QuoteOK, Untouched, Recorded
<1>8. "claim" \notin Claimed
  BY DEF Claimed
<1>9. ASSUME NEW s \in QuoteId, Works(k, s)' PROVE s = r.quote /\ ClaimOK(k, r.quote)'
  BY <1>2, <1>4, <1>8, <1>9, <1>u DEF Works, ClaimOK
<1>10. ConvertInv'
  BY <1>2, <1>4, <1>6, <1>7, <1>8, <1>9, <1>u, ConvertStep
<1> QED BY <1>3, <1>10 DEF FxInv

(* markUsedScript: an unused quote is nobody's yet.                          *)
LEMMA MarkUsedOK ==
  ASSUME FxInv, NEW k \in Converter, NEW q, q = conv[k].quote, MarkUsed(k)
  PROVE  FxInv'
<1>u. /\ cpc[k] = "claim" /\ UNCHANGED <<priceVars, auditRow, conversions, paid>>
      /\ IF QuoteUnused(q)
         THEN quote' = [quote EXCEPT ![q].used = TRUE] /\ Goes(k, "check") /\ UNCHANGED conv
         ELSE EndConversion(k) /\ UNCHANGED quote
  BY DEF MarkUsed
<1>1. CASE ~QuoteUnused(q)
  BY <1>u, <1>1, EndOK
<1>2. CASE QuoteUnused(q)
  <2>t. ConvertTypes /\ q \in QuoteId /\ Works(k, q) /\ QuoteOK(q) /\ ~quote[q].used
    BY <1>u, <1>2, WorkIsTyped DEF FxInv, ConvertInv, Works, QuoteUnused
  <2>1. quote[q] # NoQuote /\ quote[q] \in Quote /\ quote \in [QuoteId -> Quote \cup {NoQuote}]
    BY <2>t DEF FxInv, ConvertInv, ClaimOK, PriceInv, PriceTypes
  <2>u. quote' = [quote EXCEPT ![q].used = TRUE] /\ Goes(k, "check") /\ UNCHANGED conv
    BY <1>u, <1>2
  <2>2. PriceInv' /\ quote'[q] # NoQuote /\ quote'[q].org = quote[q].org
        /\ \A r \in QuoteId \ {q} : quote'[r] = quote[r]
    BY <1>u, <2>t, <2>u, <2>1, PricesStay
  <2>3. quote'[q].used
    BY <2>1, <2>u, <2>t DEF Quote
  <2>4. "check" \in {"claim"} \cup Claimed /\ "check" \in Claimed
    BY DEF Claimed
  <2>5. ConvertTypes' /\ cpc'[k] = "check" /\ \A l \in Converter \ {k} : cpc'[l] = cpc[l] /\ conv'[l] = conv[l]
    BY <1>u, <2>t, <2>u, <2>4, GoesTypes DEF ConvertTypes
  <2>6. Untouched(q) /\ Untouched(q)'
    BY <1>u, <2>t DEF QuoteOK, Untouched
  <2>7. QuoteOK(q)'
    BY <1>u, <2>t, <2>2, <2>3, <2>6 DEF QuoteOK, Recorded
  <2>8. ASSUME NEW r \in QuoteId, Works(k, r)' PROVE r = q /\ ClaimOK(k, q)'
    BY <2>2, <2>3, <2>5, <2>6, <2>8, <2>u DEF Works, ClaimOK
  <2>9. \A l \in Converter \ {k} : Works(l, q) => cpc[l] = "claim"
    <3>1. ASSUME NEW l \in Converter, Works(l, q) PROVE cpc[l] \notin Claimed
      BY <2>t, <3>1 DEF FxInv, ConvertInv, ClaimOK
    <3> QED BY <2>t, <3>1 DEF ConvertTypes, Works
  <2>10. ConvertInv'
    BY <1>u, <2>t, <2>2, <2>5, <2>7, <2>8, <2>9, ConvertStep
  <2> QED BY <2>2, <2>10 DEF FxInv
<1> QED BY <1>1, <1>2

(* The quote is checked after it was marked.                                 *)
LEMMA CheckQuoteOK ==
  ASSUME FxInv, NEW k \in Converter, NEW q, q = conv[k].quote, CheckQuote(k)
  PROVE  FxInv'
<1>u. /\ cpc[k] = "check" /\ UNCHANGED <<priceVars, quote, auditRow, conversions, paid>>
      /\ IF QuoteFits(k) THEN Goes(k, "persist") /\ UNCHANGED conv ELSE EndConversion(k)
  BY DEF CheckQuote
<1>1. CASE ~QuoteFits(k)
  BY <1>u, <1>1, EndOK
<1>2. CASE QuoteFits(k)
  <2>t. ConvertTypes /\ q \in QuoteId /\ Works(k, q) /\ QuoteOK(q) /\ quote[q].org = conv[k].org
    BY <1>u, <1>2, WorkIsTyped DEF FxInv, ConvertInv, Works, QuoteFits
  <2>c. ClaimOK(k, q)
    BY <2>t DEF FxInv, ConvertInv
  <2>u. Goes(k, "persist") /\ UNCHANGED conv
    BY <1>u, <1>2
  <2>2. PriceInv' /\ quote'[q] # NoQuote
    BY <1>u, <2>t, <2>c, PricesStay DEF ClaimOK
  <2>4. "persist" \in {"claim"} \cup Claimed /\ "persist" \in Claimed /\ "check" \in Claimed
    BY DEF Claimed
  <2>5. ConvertTypes' /\ cpc'[k] = "persist" /\ \A l \in Converter \ {k} : cpc'[l] = cpc[l] /\ conv'[l] = conv[l]
    BY <1>u, <2>t, <2>u, <2>4, GoesTypes DEF ConvertTypes
  <2>6. Untouched(q)'
    BY <1>u, <2>c DEF ClaimOK, Untouched
  <2>7. QuoteOK(q)'
    BY <1>u, <2>t DEF QuoteOK, Untouched, Recorded
  <2>8. ASSUME NEW r \in QuoteId, Works(k, r)' PROVE r = q /\ ClaimOK(k, q)'
    BY <1>u, <2>t, <2>c, <2>2, <2>4, <2>5, <2>6, <2>8, <2>u DEF Works, ClaimOK
  <2>9. \A l \in Converter \ {k} : Works(l, q) => cpc[l] = "claim"
    BY <1>u, <2>t, <2>4, OthersOnlyRead
  <2>10. ConvertInv'
    BY <1>u, <2>t, <2>2, <2>5, <2>7, <2>8, <2>9, ConvertStep
  <2> QED BY <2>2, <2>10 DEF FxInv
<1> QED BY <1>1, <1>2

(* The conversion is recorded before the treasury pays.                      *)
LEMMA PersistConversionOK ==
  ASSUME FxInv, NEW k \in Converter, NEW q, q = conv[k].quote, PersistConversion(k)
  PROVE  FxInv'
<1>u. cpc[k] = "persist" /\ UNCHANGED <<priceVars, quote, auditRow, paid>>
  BY DEF PersistConversion
<1>1. CASE EndConversion(k) /\ UNCHANGED conversions
  BY <1>u, <1>1, EndOK
<1>2. CASE CreateConversion(k) /\ Goes(k, "pay") /\ UNCHANGED conv
  <2> DEFINE new == [by |-> k, quote |-> q, org |-> conv[k].org]
  <2>t. ConvertTypes /\ q \in QuoteId /\ Works(k, q) /\ QuoteOK(q) /\ conv[k].org \in Org
    BY <1>u, WorkIsTyped DEF FxInv, ConvertInv, Works
  <2>c. ClaimOK(k, q)
    BY <2>t DEF FxInv, ConvertInv
  <2>n. new \in Conversion /\ new.quote = q /\ new.org = conv[k].org
    BY <2>t DEF Conversion
  <2>u. conversions' = conversions \cup {new}
    BY <1>2 DEF CreateConversion
  <2>d. Untouched(q) /\ paid[q] = 0 /\ quote[q].used /\ conv[k].org = quote[q].org /\ quote[q] # NoQuote
    BY <1>u, <2>c DEF ClaimOK, Untouched, Claimed
  <2> HIDE DEF new
  <2>2. PriceInv' /\ quote'[q] # NoQuote
    BY <1>u, <2>t, <2>d, PricesStay
  <2>4. "pay" \in {"claim"} \cup Claimed /\ "pay" \in Claimed /\ "persist" \in Claimed
    BY DEF Claimed
  <2>s. conversions' \subseteq Conversion
    BY <2>t, <2>n, <2>u DEF ConvertTypes
  <2>5. ConvertTypes' /\ cpc'[k] = "pay" /\ \A l \in Converter \ {k} : cpc'[l] = cpc[l] /\ conv'[l] = conv[l]
    BY <1>u, <1>2, <2>s, <2>t, <2>4, GoesTypes DEF ConvertTypes
  <2>6. Recorded(q)'
    BY <1>u, <2>d, <2>n, <2>u DEF Recorded
  <2>7. \A c, d \in conversions' : c.quote = q /\ d.quote = q => c = d
    BY <2>d, <2>u DEF Untouched
  <2>8. QuoteOK(q)'
    BY <1>u, <2>d, <2>6, <2>7 DEF QuoteOK
  <2>9. ASSUME NEW r \in QuoteId, Works(k, r)' PROVE r = q /\ ClaimOK(k, q)'
    BY <1>u, <1>2, <2>d, <2>2, <2>5, <2>6, <2>9 DEF Works, ClaimOK
  <2>10. \A l \in Converter \ {k} : Works(l, q) => cpc[l] = "claim"
    BY <1>u, <2>t, <2>4, OthersOnlyRead
  <2>11. \A c \in Conversion : c.quote # q => (c \in conversions' <=> c \in conversions)
    BY <2>n, <2>u
  <2>12. ConvertInv'
    BY <1>u, <2>t, <2>2, <2>5, <2>8, <2>9, <2>10, <2>11, ConvertStep
  <2> QED BY <2>2, <2>12 DEF FxInv
<1> QED BY <1>1, <1>2 DEF PersistConversion

(* The treasury pays what is recorded, or an error is passed over.           *)
LEMMA PayConversionOK ==
  ASSUME FxInv, NEW k \in Converter, NEW q, q = conv[k].quote, PayConversion(k)
  PROVE  FxInv'
<1>u. /\ cpc[k] = "pay" /\ Goes(k, "audit") /\ UNCHANGED <<conv, conversions, priceVars, quote, auditRow>>
      /\ paid' = [paid EXCEPT ![q] = @ + 1] \/ paid' = paid
  BY DEF PayConversion
<1>t. ConvertTypes /\ q \in QuoteId /\ Works(k, q) /\ QuoteOK(q)
  BY <1>u, WorkIsTyped DEF FxInv, ConvertInv, Works
<1>c. ClaimOK(k, q)
  BY <1>t DEF FxInv, ConvertInv
<1>d. Recorded(q) /\ paid[q] = 0 /\ quote[q].used /\ quote[q] # NoQuote
  BY <1>u, <1>c DEF ClaimOK, Claimed
<1>2. PriceInv' /\ quote'[q] # NoQuote
  BY <1>u, <1>t, <1>d, PricesStay
<1>3. paid' \in [QuoteId -> Nat] /\ paid'[q] <= 1 /\ \A r \in QuoteId \ {q} : paid'[r] = paid[r]
  BY <1>u, <1>t, <1>d DEF ConvertTypes
<1>4. "audit" \in {"claim"} \cup Claimed /\ "audit" \in Claimed /\ "pay" \in Claimed
  BY DEF Claimed
<1>5. ConvertTypes' /\ cpc'[k] = "audit" /\ \A l \in Converter \ {k} : cpc'[l] = cpc[l] /\ conv'[l] = conv[l]
  BY <1>u, <1>t, <1>3, <1>4, GoesTypes DEF ConvertTypes
<1>6. Recorded(q)'
  BY <1>u, <1>d DEF Recorded
<1>7. QuoteOK(q)'
  BY <1>u, <1>t, <1>d, <1>3, <1>6 DEF QuoteOK
<1>8. ASSUME NEW r \in QuoteId, Works(k, r)' PROVE r = q /\ ClaimOK(k, q)'
  BY <1>u, <1>d, <1>2, <1>5, <1>6, <1>8 DEF Works, ClaimOK
<1>9. \A l \in Converter \ {k} : Works(l, q) => cpc[l] = "claim"
  BY <1>u, <1>t, <1>4, OthersOnlyRead
<1>10. ConvertInv'
  BY <1>u, <1>t, <1>2, <1>3, <1>5, <1>7, <1>8, <1>9, ConvertStep
<1> QED BY <1>2, <1>10 DEF FxInv

(* The audit row is marked for a conversion that was recorded.               *)
LEMMA AuditConversionOK ==
  ASSUME FxInv, NEW k \in Converter, NEW q, q = conv[k].quote, AuditConversion(k)
  PROVE  FxInv'
<1>u. /\ cpc[k] = "audit" /\ EndConversion(k) /\ UNCHANGED <<conversions, priceVars, quote, paid>>
      /\ MarkQuoteUsed(q) \/ auditRow' = auditRow
  BY DEF AuditConversion
<1>t. ConvertTypes /\ q \in QuoteId /\ Works(k, q) /\ QuoteOK(q)
  BY <1>u, WorkIsTyped DEF FxInv, ConvertInv, Works
<1>c. ClaimOK(k, q)
  BY <1>t DEF FxInv, ConvertInv
<1>d. Recorded(q) /\ quote[q].used /\ quote[q] # NoQuote
  BY <1>u, <1>c DEF ClaimOK, Claimed
<1>2. PriceInv' /\ quote'[q] # NoQuote
  BY <1>u, <1>t, <1>d, PricesStay
<1>3. auditRow' \in [QuoteId -> {"none", "open", "used"}] /\ \A r \in QuoteId \ {q} : auditRow'[r] = auditRow[r]
  BY <1>u, <1>t DEF ConvertTypes, MarkQuoteUsed
<1>5. ConvertTypes' /\ cpc'[k] = "idle" /\ \A l \in Converter \ {k} : cpc'[l] = cpc[l] /\ conv'[l] = conv[l]
  BY <1>u, <1>t, <1>3, GoesTypes DEF ConvertTypes
<1>6. Recorded(q)'
  BY <1>u, <1>d DEF Recorded
<1>7. QuoteOK(q)'
  BY <1>u, <1>t, <1>d, <1>6 DEF QuoteOK
<1>8. \A r \in QuoteId : ~Works(k, r)'
  BY <1>5 DEF Works
<1>9. \A l \in Converter \ {k} : Works(l, q) => cpc[l] = "claim"
  <2>1. "audit" \in Claimed
    BY DEF Claimed
  <2> QED BY <1>u, <1>t, <2>1, OthersOnlyRead
<1>10. ConvertInv'
  BY <1>u, <1>t, <1>2, <1>3, <1>5, <1>7, <1>8, <1>9, ConvertStep
<1> QED BY <1>2, <1>10 DEF FxInv

(* Pricing leaves conversions alone; a quote that is stored was not there.   *)
LEMMA ConvertInvStays ==
  ASSUME ConvertInv, UNCHANGED <<quote, auditRow, convertVars>>
  PROVE  ConvertInv'
<1>1. UNCHANGED <<quote, auditRow, cpc, conv, conversions, paid>>
  BY DEF convertVars
<1> QED BY <1>1 DEF ConvertInv, ConvertTypes, QuoteOK, ClaimOK, Works, Untouched, Recorded

(* A quote is stored under a new name, so no conversion has used it.         *)
LEMMA StoredQuoteIsNew ==
  ASSUME FxInv, NEW q \in QuoteId, StoreQuote(q)
  PROVE  ConvertInv'
<1>t. ConvertTypes /\ PriceTypes
  BY DEF FxInv, ConvertInv, PriceInv
<1>u. UNCHANGED <<cpc, conv, conversions, paid>> /\ (CreateQuote(q) \/ auditRow' = auditRow)
  BY DEF StoreQuote, convertVars
<1>1. quote[q] = NoQuote
  BY DEF FxInv, PriceInv, StoreQuote
<1>2. PICK o \in Org :
        quote' = [quote EXCEPT ![q] = [org |-> o, price |-> pricer[q].price, made |-> clock,
                                       expires |-> clock + QuoteTTL, used |-> FALSE]]
  BY DEF StoreQuote
<1>3. quote'[q].used = FALSE /\ \A r \in QuoteId \ {q} : quote'[r] = quote[r]
  BY <1>t, <1>2 DEF PriceTypes
<1>4. QuoteOK(q) /\ Untouched(q)
  BY <1>1 DEF FxInv, ConvertInv, QuoteOK
<1>5. \A k \in Converter : ~Works(k, q)
  BY <1>1 DEF FxInv, ConvertInv, ClaimOK
<1>6. auditRow[q] # "used"
  BY <1>4 DEF QuoteOK, Recorded, Untouched
<1>7. /\ auditRow' \in [QuoteId -> {"none", "open", "used"}] /\ auditRow'[q] # "used"
      /\ \A r \in QuoteId \ {q} : auditRow'[r] = auditRow[r]
  BY <1>t, <1>u, <1>6 DEF ConvertTypes, CreateQuote
<1>8. ConvertTypes'
  BY <1>t, <1>u, <1>7 DEF ConvertTypes
<1>9. ASSUME NEW r \in QuoteId PROVE QuoteOK(r)'
  <2>1. CASE r = q
    <3>1. Untouched(q)' /\ paid'[q] = 0
      BY <1>u, <1>4 DEF Untouched
    <3> QED BY <1>u, <1>4, <1>7, <2>1, <3>1 DEF QuoteOK
  <2>2. CASE r # q
    <3>1. QuoteOK(r)
      BY DEF FxInv, ConvertInv
    <3> QED BY <1>u, <1>3, <1>7, <2>2, <3>1 DEF QuoteOK, Untouched, Recorded
  <2> QED BY <2>1, <2>2
<1>10. ASSUME NEW k \in Converter, NEW r \in QuoteId, Works(k, r)' PROVE ClaimOK(k, r)'
  <2>1. Works(k, r) /\ r # q
    BY <1>u, <1>5, <1>10 DEF Works
  <2>2. ClaimOK(k, r)
    BY <2>1 DEF FxInv, ConvertInv
  <2> QED BY <1>u, <1>3, <2>1, <2>2 DEF ClaimOK, Untouched, Recorded
<1>11. ASSUME NEW k \in Converter, NEW l \in Converter, NEW r \in QuoteId, Works(k, r)', Works(l, r)',
              cpc'[k] \in Claimed, cpc'[l] \in Claimed
       PROVE  k = l
  BY <1>u, <1>11 DEF FxInv, ConvertInv, Works
<1> QED BY <1>8, <1>9, <1>10, <1>11 DEF ConvertInv

(* No price, no quote and no conversion at first.                            *)
LEMMA FxInitOK ==
  ASSUME FxInit
  PROVE  FxInv
<1>i. /\ clock = 0 /\ refreshed = 0 /\ memo = NoPrice /\ rate = NoPrice /\ active = FALSE /\ feedDown = FALSE
      /\ pricer = [p \in Pricer |-> Idle] /\ quote = [q \in QuoteId |-> NoQuote]
      /\ cpc = [k \in Converter |-> "idle"] /\ conv = [k \in Converter |-> NoConv]
      /\ auditRow = [q \in QuoteId |-> "none"] /\ conversions = {} /\ paid = [q \in QuoteId |-> 0]
  BY DEF FxInit
<1>1. Idle \in PricerState /\ Idle.at = "idle" /\ \A p \in Pricer : pricer[p] = Idle
  BY <1>i DEF Idle, PricerState
<1>2. PriceTypes
  <2>1. clock \in 0..LastTick /\ refreshed \in 0..clock
    BY <1>i, FxNumbers
  <2>2. pricer \in [Pricer -> PricerState] /\ quote \in [QuoteId -> Quote \cup {NoQuote}]
    BY <1>i, <1>1
  <2> QED BY <1>i, <2>1, <2>2 DEF PriceTypes
<1>3. MemoOK /\ RateOK /\ \A p \in Pricer : StateOK(pricer[p])
  BY <1>i, <1>1 DEF MemoOK, RateOK, StateOK
<1>4. RefreshOK
  <2>1. pricer[Refresher].at = "idle"
    BY <1>1, Pricers
  <2> QED BY <1>i, <2>1, FxNumbers DEF RefreshOK
<1>5. PriceIsFresh /\ \A q \in QuoteId : quote[q] = NoQuote
  BY <1>i DEF PriceIsFresh
<1>6. PriceInv
  BY <1>2, <1>3, <1>4, <1>5 DEF PriceInv
<1>7. ConvertTypes
  BY <1>i DEF ConvertTypes, Claimed
<1>8. ASSUME NEW q \in QuoteId PROVE QuoteOK(q)
  <2>1. paid[q] = 0 /\ auditRow[q] = "none" /\ Untouched(q)
    BY <1>i DEF Untouched
  <2> QED BY <1>i, <2>1 DEF QuoteOK
<1>9. \A k \in Converter, q \in QuoteId : ~Works(k, q)
  BY <1>i DEF Works
<1>10. ConvertInv
  BY <1>7, <1>8, <1>9 DEF ConvertInv
<1> QED BY <1>6, <1>10 DEF FxInv

(* Pricing, and its effect on conversions.                                   *)
LEMMA PriceStepOK ==
  ASSUME FxInv,
         \/ FxTick \/ BackgroundRefresh
         \/ \E p \in QuoteId \cup {Viewer} : GetRates(p)
         \/ \E p \in Pricer : PriceMatrix(p) \/ FetchAnswered(p) \/ FetchFails(p) \/ CacheRate(p)
  PROVE  FxInv'
<1>1. UNCHANGED <<quote, auditRow, convertVars>>
  BY DEF FxTick, BackgroundRefresh, GetRates, PriceMatrix, FetchAnswered, FetchFails, CacheRate
<1>2. PriceInv'
  BY FxTickOK, BackgroundRefreshOK, GetRatesOK, PriceMatrixOK, FetchAnsweredOK, FetchFailsOK, CacheRateOK DEF FxInv
<1> QED BY <1>1, <1>2, ConvertInvStays DEF FxInv

(* A step of a conversion request.                                           *)
LEMMA ConversionStepOK ==
  ASSUME FxInv, NEW k \in Converter,
         \/ ExecuteConversion(k) \/ MarkUsed(k) \/ CheckQuote(k) \/ PersistConversion(k)
         \/ PayConversion(k) \/ AuditConversion(k) \/ LoseConversion(k)
  PROVE  FxInv'
<1>1. CASE LoseConversion(k)
  BY <1>1, EndOK DEF LoseConversion
<1> QED BY <1>1, ExecuteConversionOK, MarkUsedOK, CheckQuoteOK, PersistConversionOK, PayConversionOK, AuditConversionOK

(* Every step keeps the invariant.                                           *)
LEMMA FxInvStep == FxInv /\ [FxNext]_fxVars => FxInv'
<1> SUFFICES ASSUME FxInv, [FxNext]_fxVars PROVE FxInv'
  OBVIOUS
<1>1. CASE UNCHANGED fxVars
  <2>1. UNCHANGED <<clock, refreshed, memo, rate, active, pricer, feedDown, quote, auditRow, convertVars>>
    BY <1>1 DEF fxVars, convertVars
  <2>2. PriceInv'
    BY <2>1 DEF FxInv, PriceInv, PriceTypes, MemoOK, RateOK, RefreshOK, StateOK, PriceIsFresh
  <2> QED BY <2>1, <2>2, ConvertInvStays DEF FxInv
<1>2. ASSUME NEW q \in QuoteId, StoreQuote(q) PROVE FxInv'
  BY <1>2, StoreQuoteOK, StoredQuoteIsNew DEF FxInv
<1>3. ASSUME NEW k \in Converter,
             \/ ExecuteConversion(k) \/ MarkUsed(k) \/ CheckQuote(k) \/ PersistConversion(k)
             \/ PayConversion(k) \/ AuditConversion(k) \/ LoseConversion(k)
      PROVE  FxInv'
  BY <1>3, ConversionStepOK
<1> QED BY <1>1, <1>2, <1>3, PriceStepOK DEF FxNext

(* For any number of quotes and requests, and any clocks with which the      *)
(* refresh is early enough: a quote is converted and paid once, what the     *)
(* treasury paid is recorded for the quote's organisation, a quote's price   *)
(* is no older than the caches allow, and a pair in use stays cached while   *)
(* the feed answers (ExecuteConversion, fetchRate, backgroundRefresh).       *)
THEOREM ConversionsAreSafe == FxSpec => []FxSafe
  BY FxInitOK, FxInvStep, FxInvIsSafe, PTL DEF FxSpec

(* A quote stays a quote of its organisation, so that what is due stays due. *)
LEMMA PaymentsStayDue ==
  ASSUME FxInv, UNCHANGED conversions,
         \A q \in QuoteId : quote[q] # NoQuote => quote'[q] # NoQuote /\ quote'[q].org = quote[q].org
  PROVE  PaymentsDue' = PaymentsDue
<1>1. \A q \in QuoteId : quote[q] = NoQuote => \A c \in conversions : c.quote # q
  BY DEF FxInv, ConvertInv, QuoteOK, Untouched
<1>2. \A q \in QuoteId : q \in PaymentsDue' <=> q \in PaymentsDue BY <1>1 DEF PaymentsDue
<1>3. PaymentsDue \subseteq QuoteId /\ PaymentsDue' \subseteq QuoteId BY DEF PaymentsDue
<1> QED BY <1>2, <1>3

(* A conversion of the request that holds the quote makes its payment due.   *)
LEMMA RecordedIsDue ==
  ASSUME FxInv, NEW k \in Converter, NEW q, q = conv[k].quote, PersistConversion(k), CreateConversion(k)
  PROVE  q \in QuoteId /\ q \notin PaymentsDue /\ PaymentsDue' = PaymentsDue \cup {q}
<1>u. cpc[k] = "persist" /\ UNCHANGED quote BY DEF PersistConversion
<1>t. ConvertTypes /\ q \in QuoteId /\ Works(k, q) BY <1>u, WorkIsTyped DEF FxInv, ConvertInv, Works
<1>c. ClaimOK(k, q) BY <1>t DEF FxInv, ConvertInv
<1>d. Untouched(q) /\ conv[k].org = quote[q].org /\ quote[q] # NoQuote BY <1>u, <1>c DEF ClaimOK
<1>1. PICK new : new = [by |-> k, quote |-> q, org |-> conv[k].org] OBVIOUS
<1>2. conversions' = conversions \cup {new} /\ new.quote = q /\ new.org = quote[q].org
  BY <1>1, <1>d DEF CreateConversion
<1>3. q \notin PaymentsDue /\ q \in PaymentsDue' BY <1>u, <1>t, <1>d, <1>2 DEF PaymentsDue, Untouched
<1>4. \A r \in QuoteId : r # q => (r \in PaymentsDue' <=> r \in PaymentsDue) BY <1>u, <1>2 DEF PaymentsDue
<1>5. PaymentsDue \subseteq QuoteId /\ PaymentsDue' \subseteq QuoteId BY DEF PaymentsDue
<1> QED BY <1>t, <1>3, <1>4, <1>5

(* The treasury pays a quote whose payment is due and was not made.          *)
LEMMA PaidIsDue ==
  ASSUME FxInv, NEW k \in Converter, NEW q, q = conv[k].quote, PayConversion(k)
  PROVE  q \in PaymentsDue /\ paid[q] = 0 /\ (paid' = paid \/ paid' = [paid EXCEPT ![q] = 1])
<1>u. cpc[k] = "pay" /\ (paid' = [paid EXCEPT ![q] = @ + 1] \/ paid' = paid) BY DEF PayConversion
<1>t. ConvertTypes /\ q \in QuoteId /\ Works(k, q) BY <1>u, WorkIsTyped DEF FxInv, ConvertInv, Works
<1>c. ClaimOK(k, q) BY <1>t DEF FxInv, ConvertInv
<1>d. Recorded(q) /\ paid[q] = 0 /\ quote[q] # NoQuote BY <1>u, <1>c DEF ClaimOK
<1>1. q \in PaymentsDue BY <1>t, <1>d DEF PaymentsDue, Recorded
<1> QED BY <1>u, <1>d, <1>1

(* No step takes a quote away or gives it to another organisation.           *)
LEMMA QuotesStay ==
  ASSUME FxInv, [FxNext]_fxVars
  PROVE  \A q \in QuoteId : quote[q] # NoQuote => quote'[q] # NoQuote /\ quote'[q].org = quote[q].org
<1>0. quote \in [QuoteId -> Quote \cup {NoQuote}] BY DEF FxInv, PriceInv, PriceTypes
<1>1. CASE UNCHANGED quote BY <1>1
<1>2. ASSUME NEW q \in QuoteId, StoreQuote(q) PROVE quote[q] = NoQuote /\ \A r \in QuoteId \ {q} : quote'[r] = quote[r]
  BY <1>0, <1>2 DEF FxInv, PriceInv, StoreQuote
<1>3. ASSUME NEW k \in Converter, MarkUsed(k), ~UNCHANGED quote
      PROVE  \A q \in QuoteId : quote[q] # NoQuote => quote'[q] # NoQuote /\ quote'[q].org = quote[q].org
  <2>1. PICK q : q = conv[k].quote OBVIOUS
  <2>2. cpc[k] # "idle" /\ quote' = [quote EXCEPT ![q] = [quote[q] EXCEPT !.used = TRUE]] BY <1>3, <2>1 DEF MarkUsed
  <2>3. q \in QuoteId /\ Works(k, q) BY <2>1, <2>2, WorkIsTyped DEF FxInv, ConvertInv, Works
  <2>4. quote[q] \in Quote BY <1>0, <2>3 DEF FxInv, ConvertInv, ClaimOK
  <2>5. [quote[q] EXCEPT !.used = TRUE] \in Quote /\ [quote[q] EXCEPT !.used = TRUE].org = quote[q].org
    BY <2>4 DEF Quote
  <2> QED BY <1>0, <2>2, <2>3, <2>5, FxNames
<1> QED
  BY <1>1, <1>2, <1>3
     DEF FxNext, FxTick, BackgroundRefresh, GetRates, PriceMatrix, FetchAnswered, FetchFails, CacheRate, ExecuteConversion,
         CheckQuote, PersistConversion, PayConversion, AuditConversion, LoseConversion, fxVars

(* Only recording a conversion and paying it touch the promise.              *)
LEMMA ConversionPromiseStep ==
  ASSUME FxInv, [FxNext]_fxVars
  PROVE  \/ PaymentsDue' = PaymentsDue /\ paid' = paid
         \/ \E q \in QuoteId : q \notin PaymentsDue /\ PaymentsDue' = PaymentsDue \cup {q} /\ paid' = paid
         \/ \E q \in QuoteId : q \in PaymentsDue /\ paid[q] = 0 /\ paid' = [paid EXCEPT ![q] = 1] /\ PaymentsDue' = PaymentsDue
<1>1. CASE UNCHANGED <<conversions, paid>> BY <1>1, PaymentsStayDue, QuotesStay
<1>2. ASSUME NEW k \in Converter, PersistConversion(k), CreateConversion(k)
      PROVE  \E q \in QuoteId : q \notin PaymentsDue /\ PaymentsDue' = PaymentsDue \cup {q} /\ paid' = paid
  BY <1>2, RecordedIsDue DEF PersistConversion
<1>3. ASSUME NEW k \in Converter, PayConversion(k)
      PROVE  \/ PaymentsDue' = PaymentsDue /\ paid' = paid
             \/ \E q \in QuoteId : q \in PaymentsDue /\ paid[q] = 0 /\ paid' = [paid EXCEPT ![q] = 1] /\ PaymentsDue' = PaymentsDue
  <2>1. PaymentsDue' = PaymentsDue /\ PaymentsDue \subseteq QuoteId
    BY <1>3, PaymentsStayDue, QuotesStay DEF PayConversion, PaymentsDue
  <2> QED BY <1>3, <2>1, PaidIsDue
<1>4. \/ UNCHANGED <<conversions, paid>>
      \/ \E k \in Converter : (PersistConversion(k) /\ CreateConversion(k)) \/ PayConversion(k)
  BY DEF FxNext, FxTick, BackgroundRefresh, GetRates, PriceMatrix, FetchAnswered, FetchFails, CacheRate, StoreQuote, ExecuteConversion,
         MarkUsed, CheckQuote, PersistConversion, AuditConversion, LoseConversion, fxVars, convertVars
<1> QED BY <1>1, <1>2, <1>3, <1>4

(* For any number of quotes and of requests that race for them, stop and     *)
(* fail, the payments of conversions implement OnceOnly: the treasury pays   *)
(* a quote only once its conversion by the quote's organisation is recorded, *)
(* and once (MarkUsed, ExecuteConversion).                                   *)
THEOREM ConversionsImplementOnce == FxSpec => ConversionsKeepPromise
<1>1. FxInit => ConversionPromise!OnceInit
  BY DEF FxInit, ConversionPromise!OnceInit, PaymentsDue
<1>2. FxInv /\ [FxNext]_fxVars => [ConversionPromise!OnceNext]_(ConversionPromise!onceVars)
  BY ConversionPromiseStep
     DEF ConversionPromise!OnceNext, ConversionPromise!FallDue, ConversionPromise!Give, ConversionPromise!onceVars
<1> QED BY <1>1, <1>2, FxInitOK, FxInvStep, PTL DEF FxSpec, ConversionsKeepPromise, ConversionPromise!OnceSpec

-----------------------------------------------------------------------------
(* Wallets.  A request that counted the tenant's wallets and has not yet      *)
(* inserted its own is in flight.  Rows and requests in flight together stay *)
(* below the limit, but for the largest crowd there was and the counts that  *)
(* failed: the insert of a row takes its request out of flight.              *)

OpenState == {"idle", "count", "prepare", "deploy", "persist", "fund", "send", "done"}
Between == {"prepare", "deploy", "persist"}
InFlight == {d \in Opener : opc[d] \in Between}

WalletTypes ==
  /\ build \in [signer : WalletSigner, backend : {"custodial", "xdc"}]
  /\ opc \in [Opener -> OpenState]
  /\ opening \in [Opener -> [custody : Custody \cup {"none"}, owner : Owner \cup {NoOwner}]]
  /\ walletRow \subseteq WalletRow /\ contract \in [Opener -> {"none", "sent", "live", "lost"}]
  /\ funded \subseteq Opener /\ openErrors \subseteq Opener /\ crowd \in Nat

OpenerOK(c) ==
  /\ opening[c] = NotOpening <=> opc[c] = "idle"
  /\ opc[c] # "idle" => /\ opening[c].custody \in Custody
                        /\ opening[c].custody = "contract" => opening[c].owner \in Owner
  /\ opc[c] \in {"idle", "count"} => c \notin openErrors
  /\ opc[c] \in {"fund", "send"} => opening[c].custody = "xdc"
  /\ opc[c] = "persist" /\ opening[c].custody = "contract" => contract[c] # "none"
  /\ c \in funded => opening[c].custody = "xdc" /\ opc[c] = "done"

CrowdOK == IsFiniteSet(InFlight) /\ Cardinality(InFlight) <= crowd /\ crowd >= 1
FundsOK == IsFiniteSet(funded) /\ fundNonce = Cardinality(funded)
LimitOK ==
  /\ IsFiniteSet(walletRow) /\ IsFiniteSet(openErrors)
  /\ Cardinality(walletRow) + Cardinality(InFlight) + 1 <= WalletLimit + crowd + Cardinality(openErrors)

WalletInv ==
  /\ WalletTypes /\ CrowdOK /\ FundsOK /\ LimitOK /\ RowsHaveContracts
  /\ \A c \in Opener : OpenerOK(c)

(* The invariant says all that WalletSafe does.                              *)
LEMMA WalletInvIsSafe ==
  ASSUME WalletInv
  PROVE  WalletSafe
<1>1. WalletTypes /\ CrowdOK /\ FundsOK /\ LimitOK /\ RowsHaveContracts /\ \A c \in Opener : OpenerOK(c)
  BY DEF WalletInv
<1>2. Cardinality(funded) \in Nat /\ Cardinality(walletRow) \in Nat /\ Cardinality(InFlight) \in Nat /\ Cardinality(openErrors) \in Nat
  BY <1>1, FS_CardinalityType DEF CrowdOK, FundsOK, LimitOK
<1>3. WalletTypeOK
  BY <1>1, <1>2 DEF WalletTypes, WalletTypeOK, OpenerOK, FundsOK, OpenState
<1>4. OverrunIsBounded
  BY <1>1, <1>2, OpenBounds DEF WalletTypes, LimitOK, OverrunIsBounded
<1>5. ASSUME NEW c \in funded PROVE opening[c].custody = "xdc" /\ opc[c] \notin {"count", "persist"}
  BY <1>1 DEF OpenerOK, WalletTypes
<1> QED BY <1>1, <1>3, <1>4, <1>5 DEF WalletSafe, FundedOnce, FundsOK

(* A request moves: who is in flight, and the crowd.                         *)
LEMMA FlightMoves ==
  ASSUME WalletInv, NEW c \in Opener, NEW at \in OpenState, OpenGoes(c, at)
  PROVE  /\ opc' \in [Opener -> OpenState] /\ opc'[c] = at /\ \A d \in Opener \ {c} : opc'[d] = opc[d]
         /\ CrowdOK' /\ crowd' \in Nat /\ crowd' >= crowd
         /\ Cardinality(InFlight') \in Nat /\ Cardinality(InFlight) \in Nat
         /\ Cardinality(InFlight') <= Cardinality(InFlight) + 1
         /\ at \notin Between \/ opc[c] \in Between => Cardinality(InFlight') <= Cardinality(InFlight)
         /\ at \notin Between /\ opc[c] \in Between => Cardinality(InFlight') + 1 <= Cardinality(InFlight)
<1>1. opc \in [Opener -> OpenState] /\ crowd \in Nat /\ crowd >= 1 /\ IsFiniteSet(InFlight)
  BY DEF WalletInv, WalletTypes, CrowdOK
<1>2. opc' = [opc EXCEPT ![c] = at]
  BY DEF OpenGoes
<1>3. opc' \in [Opener -> OpenState] /\ opc'[c] = at /\ \A d \in Opener \ {c} : opc'[d] = opc[d]
  BY <1>1, <1>2
<1>4. /\ at \in Between => InFlight' = InFlight \cup {c}
      /\ at \notin Between => InFlight' = InFlight \ {c}
      /\ c \in InFlight <=> opc[c] \in Between
  BY <1>3 DEF InFlight
<1>5. /\ IsFiniteSet(InFlight \cup {c}) /\ IsFiniteSet(InFlight \ {c})
      /\ Cardinality(InFlight \cup {c}) = IF c \in InFlight THEN Cardinality(InFlight) ELSE Cardinality(InFlight) + 1
      /\ Cardinality(InFlight \ {c}) = IF c \in InFlight THEN Cardinality(InFlight) - 1 ELSE Cardinality(InFlight)
  BY <1>1, FS_AddElement, FS_RemoveElement
<1>6. IsFiniteSet(InFlight')
  BY <1>4, <1>5
<1>7. Cardinality(InFlight') \in Nat /\ Cardinality(InFlight) \in Nat
  BY <1>1, <1>6, FS_CardinalityType
<1>8. crowd' = IF Cardinality(InFlight') > crowd THEN Cardinality(InFlight') ELSE crowd
  BY DEF OpenGoes, InFlight, Between
<1>9. crowd' \in Nat /\ crowd' >= crowd /\ crowd' >= 1 /\ Cardinality(InFlight') <= crowd'
  BY <1>1, <1>7, <1>8
<1>10. CrowdOK'
  BY <1>6, <1>9 DEF CrowdOK
<1>11. /\ Cardinality(InFlight') <= Cardinality(InFlight) + 1
       /\ at \notin Between \/ opc[c] \in Between => Cardinality(InFlight') <= Cardinality(InFlight)
       /\ at \notin Between /\ opc[c] \in Between => Cardinality(InFlight') + 1 <= Cardinality(InFlight)
  <2>1. CASE at \in Between
    BY <1>4, <1>5, <1>7, <2>1
  <2>2. CASE at \notin Between
    BY <1>4, <1>5, <1>7, <2>2
  <2> QED BY <2>1, <2>2
<1> QED BY <1>3, <1>7, <1>9, <1>10, <1>11

(* Calls that fail, or not: the errors grow, by one for a request's first.   *)
LEMMA ErrorsGrow ==
  ASSUME WalletInv, NEW c \in Opener, OpenFault(c) \/ NoOpenFault
  PROVE  /\ openErrors' \subseteq openErrors \cup {c} /\ openErrors \subseteq openErrors' /\ IsFiniteSet(openErrors')
         /\ Cardinality(openErrors) \in Nat /\ Cardinality(openErrors') \in Nat
         /\ Cardinality(openErrors') >= Cardinality(openErrors)
         /\ OpenFault(c) /\ c \notin openErrors => Cardinality(openErrors') = Cardinality(openErrors) + 1
<1>1. IsFiniteSet(openErrors)
  BY DEF WalletInv, LimitOK
<1>2. openErrors' = openErrors \cup {c} \/ openErrors' = openErrors
  BY DEF OpenFault, NoOpenFault
<1>3. OpenFault(c) => openErrors' = openErrors \cup {c}
  BY DEF OpenFault
<1>4. IsFiniteSet(openErrors \cup {c})
      /\ Cardinality(openErrors \cup {c}) = IF c \in openErrors THEN Cardinality(openErrors) ELSE Cardinality(openErrors) + 1
  BY <1>1, FS_AddElement
<1>5. Cardinality(openErrors) \in Nat /\ IsFiniteSet(openErrors')
  BY <1>1, <1>2, <1>4, FS_CardinalityType
<1> QED BY <1>2, <1>3, <1>4, <1>5

(* A step of request c leaves what is known of the others.                   *)
LEMMA OneOpener ==
  ASSUME WalletInv, NEW c \in Opener, OpenerOK(c)', openErrors' \subseteq openErrors \cup {c}, funded' \subseteq funded \cup {c},
         \A d \in Opener \ {c} : opc'[d] = opc[d] /\ opening'[d] = opening[d] /\ contract'[d] = contract[d]
  PROVE  \A d \in Opener : OpenerOK(d)'
<1>1. ASSUME NEW d \in Opener, d # c PROVE OpenerOK(d)'
  <2>1. OpenerOK(d)
    BY DEF WalletInv
  <2>2. d \in openErrors' => d \in openErrors
    BY <1>1
  <2>3. d \in funded' => d \in funded
    BY <1>1
  <2>4. opc'[d] = opc[d] /\ opening'[d] = opening[d] /\ contract'[d] = contract[d]
    BY <1>1
  <2> QED BY <2>1, <2>2, <2>3, <2>4 DEF OpenerOK
<1> QED BY <1>1

(* A step that writes no row, of a request that does not get in flight or    *)
(* is allowed to.                                                            *)
LEMMA RowlessStep ==
  ASSUME WalletInv, NEW c \in Opener, NEW at \in OpenState, OpenGoes(c, at), OpenFault(c) \/ NoOpenFault,
         UNCHANGED <<build, walletRow>>, OpenerOK(c)', FundsOK', funded' \subseteq funded \cup {c},
         opening' \in [Opener -> [custody : Custody \cup {"none"}, owner : Owner \cup {NoOwner}]],
         contract' \in [Opener -> {"none", "sent", "live", "lost"}],
         \A d \in Opener : contract[d] # "none" => contract'[d] # "none",
         \A d \in Opener \ {c} : opening'[d] = opening[d] /\ contract'[d] = contract[d],
         \/ at \notin Between \/ opc[c] \in Between
         \/ ~LimitReached
         \/ OpenFault(c) /\ c \notin openErrors
  PROVE  WalletInv'
<1>t. WalletTypes /\ CrowdOK /\ LimitOK /\ RowsHaveContracts
  BY DEF WalletInv
<1>f. /\ opc' \in [Opener -> OpenState] /\ opc'[c] = at /\ \A d \in Opener \ {c} : opc'[d] = opc[d]
      /\ CrowdOK' /\ crowd' \in Nat /\ crowd' >= crowd
      /\ Cardinality(InFlight') \in Nat /\ Cardinality(InFlight) \in Nat
      /\ Cardinality(InFlight') <= Cardinality(InFlight) + 1
      /\ at \notin Between \/ opc[c] \in Between => Cardinality(InFlight') <= Cardinality(InFlight)
  BY FlightMoves
<1>e. /\ openErrors' \subseteq openErrors \cup {c} /\ IsFiniteSet(openErrors')
      /\ Cardinality(openErrors) \in Nat /\ Cardinality(openErrors') \in Nat
      /\ Cardinality(openErrors') >= Cardinality(openErrors)
      /\ OpenFault(c) /\ c \notin openErrors => Cardinality(openErrors') = Cardinality(openErrors) + 1
  BY ErrorsGrow
<1>1. WalletTypes'
  BY <1>t, <1>f, <1>e DEF WalletTypes
<1>2. \A d \in Opener : OpenerOK(d)'
  BY <1>f, <1>e, OneOpener
<1>3. RowsHaveContracts'
  <2>1. \A w \in walletRow : w.by \in Opener
    BY <1>t DEF WalletTypes, WalletRow
  <2> QED BY <1>t, <2>1 DEF RowsHaveContracts
<1>4. Cardinality(walletRow) \in Nat /\ IsFiniteSet(walletRow) /\ crowd \in Nat /\ WalletLimit \in Nat
  BY <1>t, FS_CardinalityType, OpenBounds DEF LimitOK, WalletTypes
<1>5. Cardinality(walletRow) + Cardinality(InFlight) + 1 <= WalletLimit + crowd + Cardinality(openErrors)
  BY <1>t DEF LimitOK
<1>6. Cardinality(InFlight') <= crowd'
  BY <1>f DEF CrowdOK
<1>7. Cardinality(walletRow) + Cardinality(InFlight') + 1 <= WalletLimit + crowd' + Cardinality(openErrors')
  <2>1. CASE at \notin Between \/ opc[c] \in Between
    BY <1>f, <1>e, <1>4, <1>5, <2>1
  <2>2. CASE ~LimitReached
    <3>1. Cardinality(walletRow) + 1 <= WalletLimit
      BY <1>4, <2>2 DEF LimitReached
    <3> QED BY <1>f, <1>e, <1>4, <1>6, <3>1
  <2>3. CASE OpenFault(c) /\ c \notin openErrors
    BY <1>f, <1>e, <1>4, <1>5, <2>3
  <2> QED BY <2>1, <2>2, <2>3
<1>8. LimitOK'
  BY <1>e, <1>4, <1>7 DEF LimitOK
<1> QED BY <1>f, <1>1, <1>2, <1>3, <1>8 DEF WalletInv

(* createWallet begins a request.                                            *)
LEMMA CreateWalletRequestOK ==
  ASSUME WalletInv, NEW c \in Opener, CreateWalletRequest(c)
  PROVE  WalletInv'
<1>u. /\ opc[c] = "idle" /\ OpenGoes(c, "count") /\ NoOpenFault /\ UNCHANGED <<build, walletRow, contract, fundNonce, funded>>
      /\ openErrors' = openErrors
  BY DEF CreateWalletRequest, NoOpenFault, chainSide
<1>t. WalletTypes /\ FundsOK /\ OpenerOK(c)
  BY DEF WalletInv
<1>1. PICK o \in [custody : Custody, owner : Owner \cup {NoOwner}] :
        /\ opening' = [opening EXCEPT ![c] = o]
        /\ o.custody = "contract" => o.owner \in Owner
  <2>1. CASE opening' = [opening EXCEPT ![c] = [custody |-> build.backend, owner |-> NoOwner]]
    <3>1. build.backend \in {"custodial", "xdc"}
      BY <1>t DEF WalletTypes
    <3> DEFINE o == [custody |-> build.backend, owner |-> NoOwner]
    <3>2. o \in [custody : Custody, owner : Owner \cup {NoOwner}] /\ o.custody # "contract" /\ opening' = [opening EXCEPT ![c] = o]
      BY <2>1, <3>1 DEF Custody
    <3> HIDE DEF o
    <3> QED BY <3>2
  <2>2. ASSUME NEW p \in Owner, opening' = [opening EXCEPT ![c] = [custody |-> "contract", owner |-> p]]
        PROVE  \E o \in [custody : Custody, owner : Owner \cup {NoOwner}] :
                 /\ opening' = [opening EXCEPT ![c] = o]
                 /\ o.custody = "contract" => o.owner \in Owner
    <3> DEFINE o == [custody |-> "contract", owner |-> p]
    <3>2. o \in [custody : Custody, owner : Owner \cup {NoOwner}] /\ o.owner \in Owner /\ opening' = [opening EXCEPT ![c] = o]
      BY <2>2 DEF Custody
    <3> HIDE DEF o
    <3> QED BY <3>2
  <2> QED BY <2>1, <2>2 DEF CreateWalletRequest
<1>2. /\ opening'[c] = o /\ \A d \in Opener \ {c} : opening'[d] = opening[d]
      /\ opening' \in [Opener -> [custody : Custody \cup {"none"}, owner : Owner \cup {NoOwner}]]
  BY <1>t, <1>1 DEF WalletTypes
<1>3. o # NotOpening /\ o.custody \in Custody
  <2>1. o.custody # NotOpening.custody
    BY DEF NotOpening, Custody
  <2> QED BY <2>1
<1>4. opc'[c] = "count" /\ "count" \in OpenState /\ "count" \notin Between
  BY <1>u, <1>t DEF OpenGoes, WalletTypes, OpenState, Between
<1>5. c \notin openErrors /\ c \notin funded
  BY <1>u, <1>t DEF OpenerOK
<1>6. OpenerOK(c)'
  BY <1>u, <1>1, <1>2, <1>3, <1>4, <1>5 DEF OpenerOK
<1>7. FundsOK' /\ contract \in [Opener -> {"none", "sent", "live", "lost"}]
  BY <1>t, <1>u DEF FundsOK, WalletTypes
<1> QED BY <1>u, <1>2, <1>4, <1>6, <1>7, RowlessStep

(* The request goes from one place to another and touches nothing else.      *)
LEMMA OpenerMoves ==
  ASSUME WalletInv, NEW c \in Opener, NEW at \in OpenState \ {"idle", "count"}, opc[c] \notin {"idle", "done"}, OpenGoes(c, at),
         OpenFault(c) \/ NoOpenFault,
         UNCHANGED <<build, opening, walletRow, contract, fundNonce, funded>>,
         at \in {"fund", "send"} => opening[c].custody = "xdc",
         at = "persist" => opening[c].custody # "contract",
         \/ at \notin Between \/ opc[c] \in Between
         \/ ~LimitReached
         \/ OpenFault(c) /\ c \notin openErrors
  PROVE  WalletInv'
<1>t. WalletTypes /\ FundsOK /\ OpenerOK(c)
  BY DEF WalletInv
<1>1. opc'[c] = at /\ at # "idle" /\ at # "count" /\ at \in OpenState
  BY <1>t DEF OpenGoes, WalletTypes, OpenState
<1>2. c \notin funded
  BY <1>t DEF OpenerOK
<1>3. OpenerOK(c)'
  BY <1>t, <1>1, <1>2 DEF OpenerOK
<1>4. FundsOK' /\ contract' \in [Opener -> {"none", "sent", "live", "lost"}]
      /\ opening' \in [Opener -> [custody : Custody \cup {"none"}, owner : Owner \cup {NoOwner}]]
  BY <1>t DEF FundsOK, WalletTypes
<1> QED BY <1>1, <1>3, <1>4, RowlessStep

(* The count lets a request in flight below the limit, or when it fails.     *)
LEMMA CountByTenantOK ==
  ASSUME WalletInv, NEW c \in Opener, CountByTenant(c)
  PROVE  WalletInv'
<1> DEFINE next == IF opening[c].custody = "contract" THEN "prepare" ELSE "persist"
<1>u. /\ opc[c] = "count" /\ UNCHANGED <<build, opening, walletRow, contract, fundNonce, funded>>
      /\ \/ OpenGoes(c, IF LimitReached THEN "done" ELSE next) /\ NoOpenFault
         \/ OpenFault(c) /\ OpenGoes(c, next)
  BY DEF CountByTenant, chainSide
<1>1. /\ next \in OpenState \ {"idle", "count"} /\ "done" \in OpenState \ {"idle", "count"} /\ "done" \notin Between
      /\ next \notin {"fund", "send"} /\ (next = "persist" => opening[c].custody # "contract")
  BY DEF OpenState, Between
<1>2. c \notin openErrors
  BY <1>u DEF WalletInv, OpenerOK
<1> HIDE DEF next
<1>3. CASE LimitReached /\ OpenGoes(c, "done") /\ NoOpenFault
  BY <1>u, <1>1, <1>3, OpenerMoves
<1>4. CASE ~LimitReached /\ OpenGoes(c, next) /\ NoOpenFault
  BY <1>u, <1>1, <1>4, OpenerMoves
<1>5. CASE OpenFault(c) /\ OpenGoes(c, next)
  BY <1>u, <1>1, <1>2, <1>5, OpenerMoves
<1> QED BY <1>u, <1>3, <1>4, <1>5

(* Deploy is simulated and signed.                                           *)
LEMMA PrepareDeploymentOK ==
  ASSUME WalletInv, NEW c \in Opener, PrepareDeployment(c)
  PROVE  WalletInv'
<1>u. /\ opc[c] = "prepare" /\ UNCHANGED <<build, opening, walletRow, contract, fundNonce, funded>>
      /\ OpenFault(c) \/ NoOpenFault
      /\ OpenGoes(c, "deploy") \/ OpenGoes(c, "done")
  BY DEF PrepareDeployment, chainSide
<1>1. {"deploy", "done"} \subseteq OpenState \ {"idle", "count"} /\ "done" \notin Between /\ "prepare" \in Between
  BY DEF OpenState, Between
<1> QED BY <1>u, <1>1, OpenerMoves

(* The deployment is sent before its row is written.                         *)
LEMMA SubmitDeploymentOK ==
  ASSUME WalletInv, NEW c \in Opener, SubmitDeployment(c)
  PROVE  WalletInv'
<1>u. /\ opc[c] = "deploy" /\ UNCHANGED <<build, opening, walletRow, fundNonce, funded>>
      /\ OpenFault(c) \/ NoOpenFault
      /\ \/ OpenGoes(c, "persist") /\ contract' = [contract EXCEPT ![c] = "sent"]
         \/ OpenGoes(c, "done") /\ contract' \in {contract, [contract EXCEPT ![c] = "sent"]}
  BY DEF SubmitDeployment
<1>t. WalletTypes /\ FundsOK /\ OpenerOK(c)
  BY DEF WalletInv
<1>1. {"persist", "done"} \subseteq OpenState /\ "deploy" \in Between
  BY DEF OpenState, Between
<1>2. /\ contract' \in [Opener -> {"none", "sent", "live", "lost"}] /\ \A d \in Opener \ {c} : contract'[d] = contract[d]
      /\ \A d \in Opener : contract[d] # "none" => contract'[d] # "none"
      /\ OpenGoes(c, "persist") /\ contract' = [contract EXCEPT ![c] = "sent"] => contract'[c] # "none"
  BY <1>u, <1>t DEF WalletTypes
<1>3. /\ FundsOK' /\ opening' \in [Opener -> [custody : Custody \cup {"none"}, owner : Owner \cup {NoOwner}]]
      /\ c \notin funded
  BY <1>u, <1>t DEF FundsOK, WalletTypes, OpenerOK
<1>4. \A at : OpenGoes(c, at) => opc'[c] = at
  BY <1>t DEF OpenGoes, WalletTypes
<1>5. OpenerOK(c)'
  BY <1>u, <1>t, <1>2, <1>3, <1>4 DEF OpenerOK
<1> QED BY <1>u, <1>1, <1>2, <1>3, <1>5, RowlessStep

(* The network takes the deployment, or loses it.                            *)
LEMMA DeploymentLandsOK ==
  ASSUME WalletInv, NEW c \in Opener, DeploymentLands(c)
  PROVE  WalletInv'
<1>t. WalletTypes /\ RowsHaveContracts /\ \A d \in Opener : OpenerOK(d)
  BY DEF WalletInv
<1>1. PICK s \in {"live", "lost"} : contract' = [contract EXCEPT ![c] = s]
  BY DEF DeploymentLands
<1>2. /\ contract' \in [Opener -> {"none", "sent", "live", "lost"}]
      /\ \A d \in Opener : contract[d] # "none" => contract'[d] # "none"
  BY <1>t, <1>1 DEF WalletTypes
<1>u. UNCHANGED <<build, opc, crowd, opening, walletRow, fundNonce, txNonce, funded, openFaults, openErrors>>
  BY DEF DeploymentLands
<1>3. WalletTypes'
  BY <1>t, <1>u, <1>2 DEF WalletTypes
<1>4. CrowdOK' /\ FundsOK' /\ LimitOK'
  BY <1>u DEF WalletInv, CrowdOK, FundsOK, LimitOK, InFlight
<1>5. ASSUME NEW d \in Opener PROVE OpenerOK(d)'
  BY <1>t, <1>u, <1>2 DEF OpenerOK
<1>6. RowsHaveContracts'
  <2>1. \A w \in walletRow : w.by \in Opener
    BY <1>t DEF WalletTypes, WalletRow
  <2> QED BY <1>t, <1>u, <1>2, <2>1 DEF RowsHaveContracts
<1> QED BY <1>3, <1>4, <1>5, <1>6 DEF WalletInv

(* The row is written: its request leaves the crowd.                         *)
LEMMA RowCreated ==
  ASSUME WalletInv, NEW c \in Opener, opc[c] = "persist", KeyFree(c), NoOpenFault, CreateRow(c),
         OpenGoes(c, IF opening[c].custody = "xdc" THEN "fund" ELSE "done"),
         UNCHANGED <<build, opening, chainSide>>
  PROVE  WalletInv'
<1> DEFINE at == IF opening[c].custody = "xdc" THEN "fund" ELSE "done"
           new == [by |-> c, custody |-> opening[c].custody, key |-> KeyOf(c)]
<1>t. WalletTypes /\ CrowdOK /\ LimitOK /\ RowsHaveContracts /\ OpenerOK(c)
  BY DEF WalletInv
<1>u. OpenGoes(c, at) /\ UNCHANGED <<build, opening, contract, fundNonce, funded>> /\ openErrors' = openErrors
      /\ walletRow' = walletRow \cup {new}
  BY DEF chainSide, CreateRow, NoOpenFault
<1>1. at \in OpenState /\ at \notin Between /\ opc[c] \in Between /\ at # "idle" /\ at # "count" /\ at # "persist"
      /\ (at \in {"fund", "send"} => opening[c].custody = "xdc")
  BY DEF OpenState, Between
<1>2. new \in WalletRow /\ new.by = c /\ new.custody = opening[c].custody /\ new.key = KeyOf(c)
  BY <1>t DEF OpenerOK, KeyOf, WalletRow
<1> HIDE DEF at, new
<1>f. /\ opc' \in [Opener -> OpenState] /\ opc'[c] = at /\ \A d \in Opener \ {c} : opc'[d] = opc[d]
      /\ CrowdOK' /\ crowd' \in Nat /\ crowd' >= crowd
      /\ Cardinality(InFlight') \in Nat /\ Cardinality(InFlight) \in Nat
      /\ Cardinality(InFlight') + 1 <= Cardinality(InFlight)
  BY <1>u, <1>1, FlightMoves
<1>3. WalletTypes'
  BY <1>t, <1>u, <1>2, <1>f DEF WalletTypes
<1>4. c \notin funded
  BY <1>t DEF OpenerOK
<1>5. OpenerOK(c)'
  BY <1>t, <1>u, <1>1, <1>4, <1>f DEF OpenerOK
<1>6. \A d \in Opener : OpenerOK(d)'
  BY <1>u, <1>f, <1>5, OneOpener
<1>7. RowsHaveContracts'
  <2>1. new.custody = "contract" => contract[c] # "none"
    BY <1>t, <1>2 DEF OpenerOK
  <2>2. \A w \in walletRow : w.key # new.key
    BY <1>2 DEF KeyFree
  <2> QED BY <1>t, <1>u, <1>2, <2>1, <2>2 DEF RowsHaveContracts
<1>8. LimitOK'
  <2>1. /\ IsFiniteSet(walletRow') /\ Cardinality(walletRow') <= Cardinality(walletRow) + 1
        /\ Cardinality(walletRow) \in Nat /\ Cardinality(walletRow') \in Nat /\ Cardinality(openErrors) \in Nat
    <3>1. IsFiniteSet(walletRow') /\ Cardinality(walletRow') = IF new \in walletRow THEN Cardinality(walletRow) ELSE Cardinality(walletRow) + 1
      BY <1>t, <1>u, FS_AddElement DEF LimitOK
    <3>2. Cardinality(walletRow) \in Nat /\ Cardinality(openErrors) \in Nat
      BY <1>t, FS_CardinalityType DEF LimitOK
    <3> QED BY <3>1, <3>2
  <2>2. Cardinality(walletRow') + Cardinality(InFlight') + 1 <= WalletLimit + crowd' + Cardinality(openErrors)
    BY <1>t, <1>f, <2>1, OpenBounds DEF LimitOK, WalletTypes
  <2> QED BY <1>t, <1>u, <2>1, <2>2 DEF LimitOK
<1>9. FundsOK'
  BY <1>u DEF WalletInv, FundsOK
<1> QED BY <1>f, <1>3, <1>6, <1>7, <1>8, <1>9 DEF WalletInv

(* Create, as a whole.                                                       *)
LEMMA PersistWalletOK ==
  ASSUME WalletInv, NEW c \in Opener, PersistWallet(c)
  PROVE  WalletInv'
<1>1. CASE OpenGoes(c, "done") /\ (OpenFault(c) \/ NoOpenFault) /\ UNCHANGED walletRow
  <2>1. "done" \in OpenState \ {"idle", "count"} /\ "done" \notin Between
    BY DEF OpenState, Between
  <2>2. opc[c] = "persist" /\ UNCHANGED <<build, opening, contract, fundNonce, funded>>
    BY DEF PersistWallet, chainSide
  <2> QED BY <1>1, <2>1, <2>2, OpenerMoves
<1> QED BY <1>1, RowCreated DEF PersistWallet

(* The treasury's nonce is read.                                             *)
LEMMA FundNonceReadOK ==
  ASSUME WalletInv, NEW c \in Opener, FundNonceRead(c)
  PROVE  WalletInv'
<1>u. /\ opc[c] = "fund" /\ OpenGoes(c, "send") /\ NoOpenFault
      /\ UNCHANGED <<build, opening, walletRow, contract, fundNonce, funded>>
  BY DEF FundNonceRead, NoOpenFault
<1>1. "send" \in OpenState \ {"idle", "count"} /\ "send" \notin Between
  BY DEF OpenState, Between
<1>2. opening[c].custody = "xdc"
  BY <1>u DEF WalletInv, OpenerOK
<1> QED BY <1>u, <1>1, <1>2, OpenerMoves

(* A request that is about to pay has not paid: it ends with its payment.    *)
LEMMA FundFromTreasuryOK ==
  ASSUME WalletInv, NEW c \in Opener, FundFromTreasury(c)
  PROVE  WalletInv'
<1>u. /\ opc[c] = "send" /\ OpenGoes(c, "done") /\ (OpenFault(c) \/ NoOpenFault)
      /\ UNCHANGED <<build, opening, walletRow, contract>>
      /\ \/ funded' = funded \cup {c} /\ fundNonce' = fundNonce + 1
         \/ UNCHANGED <<funded, fundNonce>>
  BY DEF FundFromTreasury
<1>t. WalletTypes /\ FundsOK /\ OpenerOK(c)
  BY DEF WalletInv
<1>1. "done" \in OpenState \ {"idle", "count"} /\ "done" \notin Between
  BY DEF OpenState, Between
<1>2. c \notin funded /\ opening[c].custody = "xdc"
  BY <1>u, <1>t DEF OpenerOK
<1>3. CASE UNCHANGED <<funded, fundNonce>>
  BY <1>u, <1>1, <1>3, OpenerMoves
<1>4. CASE funded' = funded \cup {c} /\ fundNonce' = fundNonce + 1
  <2>1. FundsOK'
    BY <1>t, <1>2, <1>4, FS_AddElement DEF FundsOK
  <2>2. opc'[c] = "done"
    BY <1>u, <1>t DEF OpenGoes, WalletTypes
  <2>3. OpenerOK(c)'
    BY <1>u, <1>t, <1>2, <1>4, <2>2 DEF OpenerOK
  <2>4. opening' \in [Opener -> [custody : Custody \cup {"none"}, owner : Owner \cup {NoOwner}]]
        /\ contract' \in [Opener -> {"none", "sent", "live", "lost"}]
    BY <1>u, <1>t DEF WalletTypes
  <2> QED BY <1>u, <1>1, <1>4, <2>1, <2>3, <2>4, RowlessStep
<1> QED BY <1>u, <1>3, <1>4

(* The request dies.                                                         *)
LEMMA LoseOpenerOK ==
  ASSUME WalletInv, NEW c \in Opener, LoseOpener(c)
  PROVE  WalletInv'
<1>u. /\ opc[c] \notin {"idle", "done"} /\ OpenFault(c) /\ OpenGoes(c, "done")
      /\ UNCHANGED <<build, opening, walletRow, contract, fundNonce, funded>>
  BY DEF LoseOpener, chainSide
<1>1. "done" \in OpenState \ {"idle", "count"} /\ "done" \notin Between
  BY DEF OpenState, Between
<1> QED BY <1>u, <1>1, OpenerMoves

(* A row is deleted.                                                         *)
LEMMA DeleteWalletOK ==
  ASSUME WalletInv, DeleteWallet
  PROVE  WalletInv'
<1>t. WalletTypes /\ RowsHaveContracts /\ CrowdOK /\ LimitOK /\ \A d \in Opener : OpenerOK(d)
  BY DEF WalletInv
<1>u. UNCHANGED <<build, opc, crowd, opening, contract, fundNonce, funded, openErrors>>
  BY DEF DeleteWallet, chainSide
<1>1. PICK w \in walletRow : walletRow' = walletRow \ {w}
  BY DEF DeleteWallet
<1>2. WalletTypes' /\ RowsHaveContracts'
  BY <1>t, <1>u, <1>1 DEF WalletTypes, RowsHaveContracts
<1>3. CrowdOK' /\ FundsOK'
  BY <1>u DEF WalletInv, CrowdOK, FundsOK, InFlight
<1>4. ASSUME NEW d \in Opener PROVE OpenerOK(d)'
  BY <1>t, <1>u DEF OpenerOK
<1>5. IsFiniteSet(walletRow') /\ Cardinality(walletRow') = Cardinality(walletRow) - 1 /\ Cardinality(walletRow) \in Nat
      /\ Cardinality(openErrors) \in Nat /\ Cardinality(InFlight) \in Nat
  BY <1>t, <1>1, FS_RemoveElement, FS_CardinalityType DEF LimitOK, CrowdOK
<1>6. LimitOK'
  BY <1>t, <1>u, <1>5, OpenBounds DEF LimitOK, InFlight, WalletTypes
<1> QED BY <1>2, <1>3, <1>4, <1>6 DEF WalletInv

(* For any number of requests, any limit and any failures: a tenant's limit  *)
(* is overrun by no more than the requests that counted at the same time and *)
(* the counts that failed, a row of a contract wallet has its deployment and *)
(* its key alone, and the treasury funds a wallet at most once (CreateWallet,*)
(* fundFromTreasury).                                                        *)
THEOREM WalletsAreSafe == WalletSpec => []WalletSafe
<1>1. WalletInit => WalletInv
  <2> SUFFICES ASSUME WalletInit PROVE WalletInv
    OBVIOUS
  <2>i. /\ build \in [signer : WalletSigner, backend : {"custodial", "xdc"}]
        /\ opc = [c \in Opener |-> "idle"] /\ opening = [c \in Opener |-> NotOpening]
        /\ walletRow = {} /\ contract = [c \in Opener |-> "none"]
        /\ fundNonce = 0 /\ funded = {} /\ openErrors = {} /\ crowd = 1
    BY DEF WalletInit
  <2>1. NotOpening \in [custody : Custody \cup {"none"}, owner : Owner \cup {NoOwner}]
    BY DEF NotOpening
  <2>2. WalletTypes
    BY <2>i, <2>1 DEF WalletTypes, OpenState
  <2>3. InFlight = {}
    BY <2>i DEF InFlight, Between
  <2>4. CrowdOK /\ FundsOK /\ LimitOK
    BY <2>i, <2>3, FS_EmptySet, OpenBounds DEF CrowdOK, FundsOK, LimitOK
  <2>5. RowsHaveContracts
    BY <2>i DEF RowsHaveContracts
  <2>6. ASSUME NEW c \in Opener PROVE OpenerOK(c)
    BY <2>i DEF OpenerOK
  <2> QED BY <2>2, <2>4, <2>5, <2>6 DEF WalletInv
<1>2. WalletInv /\ [WalletNext]_walletVars => WalletInv'
  <2> SUFFICES ASSUME WalletInv, [WalletNext]_walletVars PROVE WalletInv'
    OBVIOUS
  <2>1. CASE UNCHANGED walletVars
    BY <2>1 DEF walletVars, WalletInv, WalletTypes, CrowdOK, FundsOK, LimitOK, InFlight, RowsHaveContracts, OpenerOK
  <2>2. ASSUME NEW c \in Opener,
               \/ CreateWalletRequest(c) \/ CountByTenant(c) \/ PrepareDeployment(c) \/ SubmitDeployment(c)
               \/ DeploymentLands(c) \/ PersistWallet(c) \/ FundNonceRead(c) \/ FundFromTreasury(c) \/ LoseOpener(c)
        PROVE  WalletInv'
    BY <2>2, CreateWalletRequestOK, CountByTenantOK, PrepareDeploymentOK, SubmitDeploymentOK, DeploymentLandsOK,
       PersistWalletOK, FundNonceReadOK, FundFromTreasuryOK, LoseOpenerOK
  <2> QED BY <2>1, <2>2, DeleteWalletOK DEF WalletNext
<1>3. WalletInv => WalletSafe
  BY WalletInvIsSafe
<1> QED BY <1>1, <1>2, <1>3, PTL DEF WalletSpec

-----------------------------------------------------------------------------
(***************************************************************************)
(* Accounts.  A registration founds a tenant in three statements, so a     *)
(* tenant counts as founded only once its owner is added: until then no    *)
(* row refers to it, which is why the owner's pair is new.  The uses of an *)
(* invitation are counted together with the requests that may still use    *)
(* it; while it is unmarked each use belongs to a request that is about to *)
(* mark it, or to a fault.                                                 *)
(***************************************************************************)
AccountPosition == {"idle", "user", "tenant", "owner", "account", "new", "join", "spend", "act"}
Founding == {"tenant", "owner"}
Deciding == {"account", "new", "join"}

(* A tenant that exists and whose registration is over.                      *)
Founded(t) == t \in tenants /\ \A c \in Caller : ~(acpc[c] = "owner" /\ req[c].person = t)

(* What a request has read, by where it is.                                  *)
Registering(r) == r \in [person : Person]
Accepting(r) == /\ r \in [invite : Invite, person : Person, tenant : Person, role : Roles]
                /\ Founded(r.tenant) /\ invites[r.invite] # Absent
Acting(r) == /\ r \in [tenant : Person, user : Person \cup {Absent}, key : ApiKey \cup {Absent}]
             /\ Founded(r.tenant) /\ (r.key # Absent => keys[r.key] # Absent)
CallerAt(spot, r) ==
  /\ spot \in Founding \cup {"user"} => Registering(r)
  /\ spot \in Founding => r.person \in users
  /\ spot = "owner" => r.person \in tenants
  /\ spot \in Deciding \cup {"spend"} => Accepting(r)
  /\ spot \in {"join", "spend"} => r.person \in users
  /\ spot = "act" => Acting(r)

AccountFlat ==
  /\ users \subseteq Person /\ tenants \subseteq users /\ tokens \subseteq Membership
  /\ members \in Seq(Membership)
  /\ invites \in [Invite -> InviteRow \cup {Absent}] /\ keys \in [ApiKey -> KeyRow \cup {Absent}]
  /\ acpc \in [Caller -> AccountPosition] /\ req = [c \in Caller |-> req[c]]
  /\ current \in [Caller -> BOOLEAN] /\ removed \subseteq Person
  /\ uses \in [Invite -> Nat] /\ accountFaults \in 0..MaxAccountFaults

(* The rows refer to users and tenants that exist, and a pair of them has    *)
(* one membership.                                                           *)
OnePerPair == \A a, b \in DOMAIN members : (members[a].tenant = members[b].tenant /\ members[a].user = members[b].user) => a = b
RowsRefer ==
  /\ \A n \in DOMAIN members : members[n].user \in users /\ Founded(members[n].tenant)
  /\ \A i \in Invite : invites[i] # Absent => Founded(invites[i].tenant)
  /\ \A k \in ApiKey : keys[k] # Absent => Founded(keys[k].tenant)

(* A user and its tenant are created by one request.                         *)
OneFounder ==
  \A c, d \in Caller : (acpc[c] \in Founding /\ acpc[d] \in Founding /\ req[c].person = req[d].person) => c = d

(* The requests that may still use an invitation, and those that have used   *)
(* it and not yet marked it.                                                 *)
MayUse(i) == {c \in Caller : acpc[c] \in Deciding /\ req[c].invite = i}
ToMark(i) == {c \in Caller : acpc[c] = "spend" /\ req[c].invite = i}
Unmarked(i) == invites[i] = Absent \/ invites[i].status = "pending"
UsesOK(i) ==
  /\ uses[i] + Cardinality(MayUse(i)) <= Cardinality(Caller) + accountFaults
  /\ Unmarked(i) => uses[i] <= Cardinality(ToMark(i)) + accountFaults

AccountInv ==
  /\ AccountFlat /\ OnePerPair /\ RowsRefer /\ OneFounder
  /\ \A c \in Caller : CallerAt(acpc[c], req[c])
  /\ \A i \in Invite : UsesOK(i)
  /\ AdmittedIsCurrent
  /\ EveryUserBelongs

(* Two disjoint sets of requests.                                            *)
LEMMA DisjointCallers ==
  ASSUME NEW U \in SUBSET Caller, NEW V \in SUBSET Caller, U \cap V = {}
  PROVE  /\ IsFiniteSet(U) /\ IsFiniteSet(V)
         /\ Cardinality(U) \in Nat /\ Cardinality(V) \in Nat /\ Cardinality(Caller) \in Nat
         /\ Cardinality(U) + Cardinality(V) <= Cardinality(Caller)
<1>1. IsFiniteSet(U) /\ IsFiniteSet(V) /\ IsFiniteSet(Caller) BY AccountBounds, FS_Subset
<1>2. Cardinality(U) \in Nat /\ Cardinality(V) \in Nat /\ Cardinality(Caller) \in Nat BY <1>1, FS_CardinalityType
<1>3. Cardinality(U \cup V) = Cardinality(U) + Cardinality(V) - Cardinality(U \cap V) BY <1>1, FS_Union
<1>4. Cardinality(U \cap V) = 0 BY FS_EmptySet
<1>5. Cardinality(U \cup V) <= Cardinality(Caller) BY <1>1, FS_Subset
<1> QED BY <1>1, <1>2, <1>3, <1>4, <1>5

(* The two kinds of requests that hold an invitation are apart.              *)
LEMMA HoldersAreFinite ==
  ASSUME NEW i
  PROVE  /\ IsFiniteSet(MayUse(i)) /\ IsFiniteSet(ToMark(i))
         /\ Cardinality(MayUse(i)) \in Nat /\ Cardinality(ToMark(i)) \in Nat /\ Cardinality(Caller) \in Nat
         /\ Cardinality(MayUse(i)) + Cardinality(ToMark(i)) <= Cardinality(Caller)
<1>1. MayUse(i) \in SUBSET Caller /\ ToMark(i) \in SUBSET Caller /\ MayUse(i) \cap ToMark(i) = {}
  BY DEF MayUse, ToMark, Deciding
<1> QED BY <1>1, DisjointCallers

(* How the bound on an invitation's uses fares when a request moves.         *)
LEMMA UsesKept ==
  ASSUME AccountInv, NEW i \in Invite, uses'[i] = uses[i],
         accountFaults' \in Nat, accountFaults' >= accountFaults,
         MayUse(i)' \subseteq MayUse(i),
         Unmarked(i)' => Unmarked(i),
         Unmarked(i)' => (ToMark(i) \subseteq ToMark(i)' \/ (accountFaults' = accountFaults + 1 /\ \E c : ToMark(i) \ {c} \subseteq ToMark(i)')),
         ToMark(i)' \subseteq Caller
  PROVE  UsesOK(i)'
<1>1. /\ IsFiniteSet(MayUse(i)) /\ IsFiniteSet(ToMark(i))
      /\ Cardinality(MayUse(i)) \in Nat /\ Cardinality(ToMark(i)) \in Nat /\ Cardinality(Caller) \in Nat
  BY HoldersAreFinite
<1>2. IsFiniteSet(MayUse(i)') /\ Cardinality(MayUse(i)') <= Cardinality(MayUse(i)) /\ Cardinality(MayUse(i)') \in Nat
  BY <1>1, FS_Subset, FS_CardinalityType
<1>3. IsFiniteSet(ToMark(i)') /\ Cardinality(ToMark(i)') \in Nat BY AccountBounds, FS_Subset, FS_CardinalityType
<1>4. UsesOK(i) /\ uses[i] \in Nat /\ accountFaults \in Nat BY AccountBounds DEF AccountInv, AccountFlat
<1>5. uses'[i] + Cardinality(MayUse(i)') <= Cardinality(Caller) + accountFaults' BY <1>1, <1>2, <1>4 DEF UsesOK
<1>6. ASSUME Unmarked(i)' PROVE uses'[i] <= Cardinality(ToMark(i)') + accountFaults'
  <2>1. uses[i] <= Cardinality(ToMark(i)) + accountFaults BY <1>4, <1>6 DEF UsesOK
  <2>2. CASE ToMark(i) \subseteq ToMark(i)'
    <3>1. Cardinality(ToMark(i)) <= Cardinality(ToMark(i)') BY <2>2, <1>3, FS_Subset
    <3> QED BY <2>1, <3>1, <1>1, <1>3, <1>4
  <2>3. CASE accountFaults' = accountFaults + 1 /\ \E c : ToMark(i) \ {c} \subseteq ToMark(i)'
    <3>1. PICK c : ToMark(i) \ {c} \subseteq ToMark(i)' BY <2>3
    <3> DEFINE V == ToMark(i) \ {c}
    <3>2. IsFiniteSet(V) /\ Cardinality(V) = IF c \in ToMark(i) THEN Cardinality(ToMark(i)) - 1 ELSE Cardinality(ToMark(i))
      BY <1>1, FS_RemoveElement
    <3>3. Cardinality(V) <= Cardinality(ToMark(i)') BY <3>1, <1>3, FS_Subset
    <3>4. Cardinality(V) \in Nat BY <3>2, FS_CardinalityType
    <3> HIDE DEF V
    <3> QED BY <2>1, <2>3, <3>2, <3>3, <3>4, <1>1, <1>3, <1>4
  <2> QED BY <1>6, <2>2, <2>3
<1> QED BY <1>5, <1>6 DEF UsesOK

(* A tenant once founded stays so, unless some request is about to add the   *)
(* owner of it.                                                              *)
LEMMA FoundedStays ==
  ASSUME NEW t, Founded(t), tenants \subseteq tenants',
         \A c \in Caller : acpc'[c] = "owner" =>
           (acpc[c] = "owner" /\ req'[c] = req[c]) \/ req'[c].person # t
  PROVE  Founded(t)'
  BY DEF Founded

(* The request that a step does not concern.                                 *)
LEMMA CallerRests ==
  ASSUME NEW spot, NEW r, CallerAt(spot, r), users \subseteq users', tenants \subseteq tenants',
         \A t : Founded(t) => Founded(t)',
         \A i \in Invite : invites[i] # Absent => invites'[i] # Absent,
         \A k \in ApiKey : keys[k] # Absent => keys'[k] # Absent
  PROVE  /\ spot \in Founding \cup {"user"} => Registering(r)'
         /\ spot \in Founding => r.person \in users'
         /\ spot = "owner" => r.person \in tenants'
         /\ spot \in Deciding \cup {"spend"} => Accepting(r)'
         /\ spot \in {"join", "spend"} => r.person \in users'
         /\ spot = "act" => Acting(r)'
<1>1. Accepting(r) => Accepting(r)' BY DEF Accepting
<1>2. Acting(r) => Acting(r)' BY DEF Acting
<1>3. Registering(r) => Registering(r)' BY DEF Registering
<1> QED BY <1>1, <1>2, <1>3 DEF CallerAt

(* The requests after a step of c, from what holds of c.                     *)
LEMMA CallersAfter ==
  ASSUME AccountInv, NEW c \in Caller, NEW spot \in AccountPosition, NEW r,
         acpc' = [acpc EXCEPT ![c] = spot], req' = [req EXCEPT ![c] = r],
         users \subseteq users', tenants \subseteq tenants', \A t : Founded(t) => Founded(t)',
         \A i \in Invite : invites[i] # Absent => invites'[i] # Absent,
         \A k \in ApiKey : keys[k] # Absent => keys'[k] # Absent,
         CallerAt(spot, r)'
  PROVE  /\ acpc' \in [Caller -> AccountPosition] /\ req' = [d \in Caller |-> req'[d]]
         /\ acpc'[c] = spot /\ req'[c] = r /\ \A d \in Caller \ {c} : acpc'[d] = acpc[d] /\ req'[d] = req[d]
         /\ \A d \in Caller : CallerAt(acpc[d], req[d])'
<1>1. AccountFlat BY DEF AccountInv
<1>2. acpc' \in [Caller -> AccountPosition] /\ req' = [d \in Caller |-> req'[d]] BY <1>1 DEF AccountFlat
<1>3. acpc'[c] = spot /\ req'[c] = r /\ \A d \in Caller \ {c} : acpc'[d] = acpc[d] /\ req'[d] = req[d] BY <1>1 DEF AccountFlat
<1>4. \A d \in Caller : CallerAt(acpc[d], req[d])'
  <2> SUFFICES ASSUME NEW d \in Caller PROVE CallerAt(acpc[d], req[d])' OBVIOUS
  <2>1. CASE d = c BY <2>1, <1>3 DEF CallerAt, Registering, Accepting, Acting
  <2>2. CASE d # c
    <3>1. acpc'[d] = acpc[d] /\ req'[d] = req[d] /\ CallerAt(acpc[d], req[d]) BY <2>2, <1>3 DEF AccountInv
    <3> DEFINE p == acpc[d]
               s == req[d]
    <3>2. CallerAt(p, s) /\ acpc'[d] = p /\ req'[d] = s BY <3>1
    <3>3. \A q, u : (q = p /\ u = s) => 
         /\ q \in Founding \cup {"user"} => Registering(u)'
         /\ q \in Founding => u.person \in users'
         /\ q = "owner" => u.person \in tenants'
         /\ q \in Deciding \cup {"spend"} => Accepting(u)'
         /\ q \in {"join", "spend"} => u.person \in users'
         /\ q = "act" => Acting(u)'
      <4> HIDE DEF p, s
      <4> SUFFICES ASSUME NEW q, NEW u, q = p /\ u = s
          PROVE /\ q \in Founding \cup {"user"} => Registering(u)'
                /\ q \in Founding => u.person \in users'
                /\ q = "owner" => u.person \in tenants'
                /\ q \in Deciding \cup {"spend"} => Accepting(u)'
                /\ q \in {"join", "spend"} => u.person \in users'
                /\ q = "act" => Acting(u)'
        OBVIOUS
      <4>1. CallerAt(q, u) BY <3>2
      <4> QED BY <4>1, CallerRests
    <3> QED BY <3>2, <3>3 DEF CallerAt, Registering, Accepting, Acting
  <2> QED BY <2>1, <2>2
<1> QED BY <1>2, <1>3, <1>4

(* A request moves and no row is written.                                    *)
LEMMA CallerMoves ==
  ASSUME AccountInv, NEW c \in Caller, NEW spot \in AccountPosition \ Founding, NEW r,
         acpc' = [acpc EXCEPT ![c] = spot], req' = [req EXCEPT ![c] = r],
         UNCHANGED <<users, tenants, members, invites, keys, uses, removed>>,
         tokens' \subseteq Membership, current' \in [Caller -> BOOLEAN], \A d \in Caller \ {c} : current'[d] = current[d],
         accountFaults' = accountFaults \/ (accountFaults < MaxAccountFaults /\ accountFaults' = accountFaults + 1),
         CallerAt(spot, r),
         \A i \in Invite : UsesOK(i)',
         spot = "act" => IF r.key = Absent THEN RequireRole(r.tenant, r.user) ELSE ~keys[r.key].revoked,
         (accountFaults' = 0 /\ acpc[c] \in {"tenant", "owner", "join"}) => Belongs(req[c].person)
  PROVE  AccountInv'
<1>1. AccountFlat BY DEF AccountInv
<1>2. accountFaults \in Nat /\ accountFaults' \in 0..MaxAccountFaults /\ (accountFaults' = 0 => accountFaults = 0)
  BY <1>1, AccountBounds DEF AccountFlat
<1>3. /\ acpc'[c] = spot /\ req'[c] = r /\ \A d \in Caller \ {c} : acpc'[d] = acpc[d] /\ req'[d] = req[d] BY <1>1 DEF AccountFlat
<1>4. spot # "owner" /\ spot \notin Founding BY DEF Founding
<1>5. \A t : Founded(t) => Founded(t)'
  <2> SUFFICES ASSUME NEW t, Founded(t) PROVE Founded(t)' OBVIOUS
  <2>1. \A d \in Caller : acpc'[d] = "owner" => acpc[d] = "owner" /\ req'[d] = req[d] BY <1>3, <1>4
  <2> QED BY <2>1, FoundedStays
<1>6. CallerAt(spot, r)'
  <2>1. Accepting(r) => Accepting(r)' BY <1>5 DEF Accepting
  <2>2. Acting(r) => Acting(r)' BY <1>5 DEF Acting
  <2>3. Registering(r) => Registering(r)' BY DEF Registering
  <2> QED BY <2>1, <2>2, <2>3 DEF CallerAt
<1>7. /\ acpc' \in [Caller -> AccountPosition] /\ req' = [d \in Caller |-> req'[d]]
      /\ \A d \in Caller : CallerAt(acpc[d], req[d])'
  BY <1>5, <1>6, CallersAfter
<1>8. AccountFlat' BY <1>1, <1>2, <1>7 DEF AccountFlat
<1>9. OnePerPair' BY DEF AccountInv, OnePerPair
<1>10. RowsRefer' BY <1>5 DEF AccountInv, RowsRefer
<1>11. OneFounder' BY <1>3, <1>4 DEF AccountInv, OneFounder
<1>12. \A t, u : RequireRole(t, u)' <=> RequireRole(t, u) BY DEF RequireRole, GetMember
<1>13. AdmittedIsCurrent'
  <2> SUFFICES ASSUME NEW d \in Caller, acpc'[d] = "act", current'[d]
               PROVE  IF req'[d].key = Absent THEN RequireRole(req[d].tenant, req[d].user)' ELSE ~keys'[req'[d].key].revoked
    BY DEF AdmittedIsCurrent
  <2>1. CASE d = c
    <3>1. req'[d] = r /\ spot = "act" BY <2>1, <1>3
    <3> QED BY <3>1 DEF RequireRole, GetMember
  <2>2. CASE d # c
    <3>1. req'[d] = req[d] /\ acpc[d] = "act" /\ current[d] BY <2>2, <1>3
    <3>2. IF req[d].key = Absent THEN RequireRole(req[d].tenant, req[d].user) ELSE ~keys[req[d].key].revoked
      BY <3>1 DEF AccountInv, AdmittedIsCurrent
    <3> QED BY <3>1, <3>2 DEF RequireRole, GetMember
  <2> QED BY <2>1, <2>2
<1>14. EveryUserBelongs'
  <2> SUFFICES ASSUME accountFaults' = 0, NEW p \in users \ removed
               PROVE  Belongs(p)' \/ \E d \in Caller : acpc'[d] \in {"tenant", "owner", "join"} /\ req'[d].person = p
    BY DEF EveryUserBelongs
  <2>1. \A u : Belongs(u) => Belongs(u)' BY DEF Belongs
  <2>2. Belongs(p) \/ \E d \in Caller : acpc[d] \in {"tenant", "owner", "join"} /\ req[d].person = p
    BY <1>2 DEF AccountInv, EveryUserBelongs
  <2> QED BY <2>1, <2>2, <1>3
<1> QED BY <1>7, <1>8, <1>9, <1>10, <1>11, <1>13, <1>14 DEF AccountInv

(* The bound on the uses when a request moves and no use is counted: it does *)
(* not begin to accept an invitation, and leaves one unmarked only by a      *)
(* fault.                                                                    *)
LEMMA UsesAsCallerMoves ==
  ASSUME AccountInv, NEW c \in Caller, NEW spot, NEW r,
         acpc' = [acpc EXCEPT ![c] = spot], req' = [req EXCEPT ![c] = r], uses' = uses,
         accountFaults' = accountFaults \/ accountFaults' = accountFaults + 1,
         \A i \in Invite : Unmarked(i)' => Unmarked(i),
         spot \in Deciding => acpc[c] \in Deciding /\ r.invite = req[c].invite,
         acpc[c] = "spend" => (accountFaults' = accountFaults + 1 \/ \A i \in Invite : req[c].invite = i => ~Unmarked(i)')
  PROVE  \A i \in Invite : UsesOK(i)'
<1>1. AccountFlat BY DEF AccountInv
<1>2. acpc'[c] = spot /\ req'[c] = r /\ \A d \in Caller \ {c} : acpc'[d] = acpc[d] /\ req'[d] = req[d] BY <1>1 DEF AccountFlat
<1>3. accountFaults \in Nat /\ accountFaults' \in Nat /\ accountFaults' >= accountFaults BY <1>1, AccountBounds DEF AccountFlat
<1> SUFFICES ASSUME NEW i \in Invite PROVE UsesOK(i)' OBVIOUS
<1>4. MayUse(i)' \subseteq MayUse(i) BY <1>2 DEF MayUse
<1>5. ToMark(i) \ {c} \subseteq ToMark(i)' /\ ToMark(i)' \subseteq Caller BY <1>2 DEF ToMark
<1>6. c \notin ToMark(i) => ToMark(i) \subseteq ToMark(i)' BY <1>5
<1>7. c \in ToMark(i) => acpc[c] = "spend" /\ req[c].invite = i BY DEF ToMark
<1>8. Unmarked(i)' => ToMark(i) \subseteq ToMark(i)' \/ (accountFaults' = accountFaults + 1 /\ \E d : ToMark(i) \ {d} \subseteq ToMark(i)')
  <2> SUFFICES ASSUME Unmarked(i)', c \in ToMark(i) PROVE accountFaults' = accountFaults + 1
    BY <1>5, <1>6
  <2>1. acpc[c] = "spend" /\ req[c].invite = i BY <1>7
  <2> QED BY <2>1
<1> QED BY <1>3, <1>4, <1>5, <1>8, UsesKept

(* A request is answered and no row is written.                              *)
LEMMA ReplyOK ==
  ASSUME AccountInv, NEW c \in Caller, Reply(c),
         UNCHANGED <<users, tenants, members, invites, keys, uses, removed, current>>, tokens' \subseteq Membership,
         (accountFaults' = accountFaults /\ acpc[c] # "spend") \/ AccountFault,
         (accountFaults' = 0 /\ acpc[c] \in {"tenant", "owner", "join"}) => Belongs(req[c].person)
  PROVE  AccountInv'
<1>1. AccountFlat BY DEF AccountInv
<1>2. acpc' = [acpc EXCEPT ![c] = "idle"] /\ req' = [req EXCEPT ![c] = Absent] BY DEF Reply, Keep
<1>3. accountFaults' = accountFaults \/ (accountFaults < MaxAccountFaults /\ accountFaults' = accountFaults + 1) BY DEF AccountFault
<1>4. "idle" \in AccountPosition \ Founding /\ "idle" \notin Deciding BY DEF AccountPosition, Founding, Deciding
<1>5. \A i \in Invite : Unmarked(i)' => Unmarked(i) BY DEF Unmarked
<1>6. acpc[c] = "spend" => accountFaults' = accountFaults + 1 BY DEF AccountFault
<1>7. \A i \in Invite : UsesOK(i)' BY <1>2, <1>3, <1>4, <1>5, <1>6, UsesAsCallerMoves
<1>8. CallerAt("idle", Absent) BY DEF CallerAt, Founding, Deciding
<1>9. current' \in [Caller -> BOOLEAN] /\ \A d \in Caller \ {c} : current'[d] = current[d] BY <1>1 DEF AccountFlat
<1> QED BY <1>2, <1>3, <1>4, <1>7, <1>8, <1>9, CallerMoves

(* A request goes on to a position from which it writes, no row is written.  *)
LEMMA GoesOn ==
  ASSUME AccountInv, NEW c \in Caller, NEW spot \in AccountPosition \ Founding, NEW r, Keep(c, spot, r),
         UNCHANGED <<users, tenants, members, invites, keys, uses, removed, tokens>>,
         current' = current \/ current' = [current EXCEPT ![c] = TRUE],
         accountFaults' = accountFaults \/ AccountFault,
         CallerAt(spot, r),
         acpc[c] \in {"idle", "account"},
         spot \in Deciding => acpc[c] \in Deciding /\ r.invite = req[c].invite,
         spot = "act" => IF r.key = Absent THEN RequireRole(r.tenant, r.user) ELSE ~keys[r.key].revoked
  PROVE  AccountInv'
<1>1. AccountFlat BY DEF AccountInv
<1>2. acpc' = [acpc EXCEPT ![c] = spot] /\ req' = [req EXCEPT ![c] = r] BY DEF Keep
<1>3. accountFaults' = accountFaults \/ (accountFaults < MaxAccountFaults /\ accountFaults' = accountFaults + 1) BY DEF AccountFault
<1>5. \A i \in Invite : Unmarked(i)' => Unmarked(i) BY DEF Unmarked
<1>7. \A i \in Invite : UsesOK(i)' BY <1>2, <1>3, <1>5, UsesAsCallerMoves
<1>9. current' \in [Caller -> BOOLEAN] /\ \A d \in Caller \ {c} : current'[d] = current[d] BY <1>1 DEF AccountFlat
<1>10. tokens' \subseteq Membership BY <1>1 DEF AccountFlat
<1> QED BY <1>2, <1>3, <1>7, <1>9, <1>10, CallerMoves

(* The lookup of an email writes nothing: a user found later is refused by   *)
(* the table.                                                                *)
LEMMA CheckEmailOK == ASSUME AccountInv, NEW c \in Caller, NEW p \in Person, CheckEmail(c, p) PROVE AccountInv'
<1>1. "user" \in AccountPosition \ Founding /\ "user" \notin Deciding BY DEF AccountPosition, Founding, Deciding
<1>2. CallerAt("user", [person |-> p]) BY DEF CallerAt, Founding, Deciding, Registering
<1>3. Keep(c, "user", [person |-> p]) /\ acpc[c] = "idle" /\ (accountFaults' = accountFaults \/ AccountFault) BY DEF CheckEmail
<1>4. UNCHANGED <<users, tenants, members, invites, keys, uses, removed, tokens, current>> BY DEF CheckEmail, accountRows
<1> QED BY <1>1, <1>2, <1>3, <1>4, GoesOn

(* The invited person is looked up; an answer without a membership is for    *)
(* nobody new.                                                               *)
LEMMA FindInvitedOK == ASSUME AccountInv, NEW c \in Caller, FindInvited(c) PROVE AccountInv'
<1>1. AccountFlat /\ CallerAt("account", req[c]) /\ acpc[c] = "account" BY DEF AccountInv, FindInvited
<1>2. UNCHANGED <<users, tenants, members, invites, keys, uses, removed, tokens, current>> BY DEF FindInvited, accountRows
<1>3. Accepting(req[c]) BY <1>1 DEF CallerAt, Deciding
<1>4. tokens' \subseteq Membership BY <1>1, <1>2 DEF AccountFlat
<1>5. accountFaults' = accountFaults \/ AccountFault BY DEF FindInvited
<1>6. CASE Reply(c) BY <1>6, <1>1, <1>2, <1>4, <1>5, ReplyOK
<1>7. \A spot : Proceed(c, spot) => Keep(c, spot, req[c])
  <2> SUFFICES ASSUME NEW spot, Proceed(c, spot) PROVE Keep(c, spot, req[c]) OBVIOUS
  <2>1. req = [d \in Caller |-> req[d]] BY <1>1 DEF AccountFlat
  <2> DEFINE f == req
  <2>2. f = [d \in Caller |-> f[d]] BY <2>1
  <2>3. [f EXCEPT ![c] = f[c]] = f BY <2>2, Zenon
  <2>4. [req EXCEPT ![c] = req[c]] = req BY <2>3
  <2>5. req' = req /\ acpc' = [acpc EXCEPT ![c] = spot] BY DEF Proceed
  <2> QED BY <2>4, <2>5 DEF Keep
<1>8. "join" \in AccountPosition \ Founding /\ "new" \in AccountPosition \ Founding /\ "account" \in Deciding
  BY DEF AccountPosition, Founding, Deciding
<1>9. CASE Proceed(c, "join")
  <2>1. req[c].person \in users BY <1>1, <1>9 DEF FindInvited, GetByEmail, Proceed, Reply, Keep, AccountFlat
  <2>2. CallerAt("join", req[c]) BY <1>3, <2>1 DEF CallerAt, Founding, Deciding
  <2> QED BY <1>1, <1>2, <1>5, <1>7, <1>8, <1>9, <2>2, GoesOn
<1>10. CASE Proceed(c, "new")
  <2>2. CallerAt("new", req[c]) BY <1>3 DEF CallerAt, Founding, Deciding
  <2> QED BY <1>1, <1>2, <1>5, <1>7, <1>8, <1>10, <2>2, GoesOn
<1> QED BY <1>6, <1>9, <1>10 DEF FindInvited

(* A request that dies is a fault, except one that manages a tenant.         *)
LEMMA LoseRequestOK == ASSUME AccountInv, NEW c \in Caller, LoseRequest(c) PROVE AccountInv'
<1>1. UNCHANGED <<users, tenants, members, invites, keys, uses, removed, tokens, current>> BY DEF LoseRequest, accountRows
<1>2. tokens' \subseteq Membership /\ accountFaults \in Nat BY <1>1, AccountBounds DEF AccountInv, AccountFlat
<1>3. (accountFaults' = accountFaults /\ acpc[c] = "act") \/ AccountFault BY DEF LoseRequest
<1>4. accountFaults' = 0 => acpc[c] = "act" BY <1>2, <1>3 DEF AccountFault
<1> QED BY <1>1, <1>2, <1>3, <1>4, ReplyOK DEF LoseRequest

(* The member rows by number and as a set.                                   *)
LEMMA MembersByNumber ==
  ASSUME AccountFlat
  PROVE  /\ DOMAIN members = 1..Len(members) /\ Len(members) \in Nat
         /\ \A n \in DOMAIN members : members[n] \in Membership /\ members[n] \in ToSet(members)
         /\ \A m \in ToSet(members) : m \in Membership /\ \E n \in DOMAIN members : members[n] = m
<1>1. members \in Seq(Membership) BY DEF AccountFlat
<1>2. DOMAIN members = 1..Len(members) /\ Len(members) \in Nat /\ \A n \in DOMAIN members : members[n] \in Membership BY <1>1
<1> QED BY <1>2 DEF ToSet

(* A token is admitted by the membership of now, whose tenant is founded.    *)
LEMMA AdmitTokenOK == ASSUME AccountInv, NEW c \in Caller, NEW k \in tokens, AdmitToken(c, k) PROVE AccountInv'
<1> DEFINE r == [tenant |-> k.tenant, user |-> k.user, key |-> Absent]
<1>1. AccountFlat /\ RowsRefer BY DEF AccountInv
<1>2. k \in Membership BY <1>1 DEF AccountFlat
<1>3. PICK m \in ToSet(members) : m.tenant = k.tenant BY DEF AdmitToken, RequireRole, GetMember
<1>4. Founded(k.tenant)
  <2>1. PICK n \in DOMAIN members : members[n] = m BY <1>1, <1>3, MembersByNumber
  <2>2. Founded(members[n].tenant) BY <1>1, <2>1 DEF RowsRefer
  <2> QED BY <2>1, <2>2, <1>3
<1>5. r.tenant = k.tenant /\ r.user = k.user /\ r.key = Absent OBVIOUS
<1>6. r \in [tenant : Person, user : Person \cup {Absent}, key : ApiKey \cup {Absent}] BY <1>2 DEF Membership
<1> HIDE DEF r
<1>7. Acting(r) BY <1>4, <1>5, <1>6 DEF Acting
<1>8. CallerAt("act", r) BY <1>7 DEF CallerAt, Founding, Deciding
<1>9. "act" \in AccountPosition \ Founding /\ "act" \notin Deciding BY DEF AccountPosition, Founding, Deciding
<1>10. Keep(c, "act", r) /\ acpc[c] = "idle" /\ RequireRole(k.tenant, k.user) BY DEF AdmitToken, r
<1>11. UNCHANGED <<users, tenants, members, invites, keys, uses, removed, tokens, accountFaults>> /\ current' = [current EXCEPT ![c] = TRUE]
  BY DEF AdmitToken, accountRows
<1>12. RequireRole(r.tenant, r.user) BY <1>5, <1>10
<1> QED BY <1>5, <1>8, <1>9, <1>10, <1>11, <1>12, GoesOn

(* A key is admitted by its row of now.                                      *)
LEMMA AdmitKeyOK == ASSUME AccountInv, NEW c \in Caller, NEW k \in ApiKey, AdmitKey(c, k) PROVE AccountInv'
<1> DEFINE r == [tenant |-> keys[k].tenant, user |-> Absent, key |-> k]
<1>1. AccountFlat /\ RowsRefer BY DEF AccountInv
<1>2. keys[k] \in KeyRow /\ ~keys[k].revoked /\ keys[k] # Absent BY <1>1 DEF AccountFlat, AdmitKey, GetByHash
<1>4. Founded(keys[k].tenant) BY <1>1, <1>2 DEF RowsRefer
<1>5. r.tenant = keys[k].tenant /\ r.user = Absent /\ r.key = k /\ k # Absent BY AbsentIsNothing
<1>6. r \in [tenant : Person, user : Person \cup {Absent}, key : ApiKey \cup {Absent}] BY <1>2 DEF KeyRow
<1>10. Keep(c, "act", r) /\ acpc[c] = "idle" BY DEF AdmitKey
<1> HIDE DEF r
<1>7. Acting(r) BY <1>2, <1>4, <1>5, <1>6 DEF Acting
<1>8. CallerAt("act", r) BY <1>7 DEF CallerAt, Founding, Deciding
<1>9. "act" \in AccountPosition \ Founding /\ "act" \notin Deciding BY DEF AccountPosition, Founding, Deciding
<1>11. UNCHANGED <<users, tenants, members, invites, keys, uses, removed, tokens, accountFaults>> /\ current' = [current EXCEPT ![c] = TRUE]
  BY DEF AdmitKey, accountRows
<1>12. r.key # Absent /\ ~keys[r.key].revoked BY <1>2, <1>5
<1> QED BY <1>8, <1>9, <1>10, <1>11, <1>12, GoesOn

(* A request begins to accept an invitation: it is unmarked, so each of its  *)
(* uses has its own request about to mark it, or a fault.                    *)
LEMMA ReadInviteOK == ASSUME AccountInv, NEW c \in Caller, NEW i \in Invite, ReadInvite(c, i) PROVE AccountInv'
<1> DEFINE r == [invite |-> i, person |-> invites[i].person, tenant |-> invites[i].tenant, role |-> invites[i].role]
<1>1. AccountFlat /\ RowsRefer BY DEF AccountInv
<1>2. invites[i] \in InviteRow /\ invites[i] # Absent /\ invites[i].status = "pending" /\ acpc[c] = "idle"
  BY <1>1 DEF AccountFlat, ReadInvite, Usable, GetInviteByToken
<1>3. Founded(invites[i].tenant) BY <1>1, <1>2 DEF RowsRefer
<1>4. r.invite = i /\ r.tenant = invites[i].tenant OBVIOUS
<1>5. r \in [invite : Invite, person : Person, tenant : Person, role : Roles] BY <1>2 DEF InviteRow
<1>6. acpc' = [acpc EXCEPT ![c] = "account"] /\ req' = [req EXCEPT ![c] = r] BY DEF ReadInvite, Keep
<1> HIDE DEF r
<1>7. Accepting(r) BY <1>2, <1>3, <1>4, <1>5 DEF Accepting
<1>8. CallerAt("account", r) BY <1>7 DEF CallerAt, Founding, Deciding
<1>9. "account" \in AccountPosition \ Founding /\ "account" \in Deciding BY DEF AccountPosition, Founding, Deciding
<1>10. UNCHANGED <<users, tenants, members, invites, keys, uses, removed, tokens, accountFaults, current>>
  BY DEF ReadInvite, accountRows
<1>11. acpc'[c] = "account" /\ req'[c] = r /\ \A d \in Caller \ {c} : acpc'[d] = acpc[d] /\ req'[d] = req[d] BY <1>1, <1>6 DEF AccountFlat
<1>12. \A j \in Invite : UsesOK(j)'
  <2> SUFFICES ASSUME NEW j \in Invite PROVE UsesOK(j)' OBVIOUS
  <2>1. UsesOK(j) /\ uses[j] \in Nat /\ accountFaults \in Nat BY <1>1, AccountBounds DEF AccountInv, AccountFlat
  <2>2. ToMark(j)' = ToMark(j) BY <1>2, <1>11 DEF ToMark
  <2>3. (Unmarked(j)' <=> Unmarked(j)) BY <1>10 DEF Unmarked
  <2>4. /\ IsFiniteSet(MayUse(j)) /\ Cardinality(MayUse(j)) \in Nat /\ Cardinality(ToMark(j)) \in Nat /\ Cardinality(Caller) \in Nat
        /\ Cardinality(MayUse(j)) + Cardinality(ToMark(j)) <= Cardinality(Caller) BY HoldersAreFinite
  <2>5. CASE j # i
    <3>1. MayUse(j)' = MayUse(j) BY <1>2, <1>4, <1>11, <2>5 DEF MayUse, Deciding
    <3> QED BY <2>1, <2>2, <2>3, <2>4, <3>1, <1>10 DEF UsesOK
  <2>6. CASE j = i
    <3>1. MayUse(j)' \in SUBSET Caller /\ ToMark(j)' \in SUBSET Caller /\ MayUse(j)' \cap ToMark(j)' = {}
      BY DEF MayUse, ToMark, Deciding
    <3>3. Unmarked(j) BY <1>2, <2>6 DEF Unmarked
    <3>4. uses[j] <= Cardinality(ToMark(j)) + accountFaults BY <2>1, <3>3 DEF UsesOK
    <3>5. /\ Cardinality(MayUse(j)') \in Nat
          /\ Cardinality(MayUse(j)') + Cardinality(ToMark(j)') <= Cardinality(Caller)
      BY <3>1, DisjointCallers
    <3> QED BY <2>1, <2>2, <2>3, <2>4, <3>3, <3>4, <3>5, <1>10 DEF UsesOK
  <2> QED BY <2>5, <2>6
<1>13. tokens' \subseteq Membership /\ current' \in [Caller -> BOOLEAN] /\ \A d \in Caller \ {c} : current'[d] = current[d]
  BY <1>1, <1>10 DEF AccountFlat
<1> QED BY <1>2, <1>6, <1>8, <1>9, <1>10, <1>12, <1>13, CallerMoves

(* A request that moves and keeps what it has read.                          *)
LEMMA ReqKept ==
  ASSUME AccountFlat, NEW c \in Caller, UNCHANGED req
  PROVE  req' = [req EXCEPT ![c] = req[c]]
<1> DEFINE f == req
<1>1. f = [d \in Caller |-> f[d]] BY DEF AccountFlat
<1>2. [f EXCEPT ![c] = f[c]] = f BY <1>1, Zenon
<1> QED BY <1>2

(* A user row is written.                                                    *)
LEMMA UserWritten ==
  ASSUME AccountInv, NEW c \in Caller, NEW spot,
         \/ acpc[c] = "user" /\ spot = "tenant"
         \/ acpc[c] = "new" /\ spot = "join",
         req[c].person \notin users, InsertUser(req[c].person), Proceed(c, spot),
         UNCHANGED <<tenants, members, invites, keys, tokens, current, uses, removed, accountFaults>>
  PROVE  AccountInv'
<1>1. AccountFlat BY DEF AccountInv
<1> DEFINE p == req[c].person
           r == req[c]
<1>2. users' = users \cup {p} /\ users \subseteq users' BY DEF InsertUser
<1>3. acpc' = [acpc EXCEPT ![c] = spot] /\ req' = [req EXCEPT ![c] = r] /\ req' = req BY <1>1, ReqKept DEF Proceed
<1>4. spot \in AccountPosition /\ spot # "owner" /\ spot # "act" BY DEF AccountPosition
<1>5. acpc'[c] = spot /\ \A d \in Caller \ {c} : acpc'[d] = acpc[d] BY <1>1, <1>3 DEF AccountFlat
<1>6. CallerAt(acpc[c], r) BY DEF AccountInv
<1>7. p \in Person BY <1>6 DEF CallerAt, Registering, Accepting, Founding, Deciding
<1>8. \A t : Founded(t) => Founded(t)'
  <2> SUFFICES ASSUME NEW t, Founded(t) PROVE Founded(t)' OBVIOUS
  <2>1. \A d \in Caller : acpc'[d] = "owner" => acpc[d] = "owner" /\ req'[d] = req[d] BY <1>3, <1>4, <1>5
  <2> QED BY <2>1, FoundedStays
<1>9. CallerAt(spot, r)'
  <2>1. Accepting(r) => Accepting(r)' BY <1>3, <1>8 DEF Accepting
  <2>2. Registering(r) => Registering(r)' BY <1>3 DEF Registering
  <2> QED BY <2>1, <2>2, <1>2, <1>3, <1>4, <1>6 DEF CallerAt, Founding, Deciding
<1>10. CallerAt(spot, r)' /\ req'[c] = r BY <1>9, <1>3
<1>11. /\ acpc' \in [Caller -> AccountPosition] /\ req' = [d \in Caller |-> req'[d]]
      /\ \A d \in Caller : CallerAt(acpc[d], req[d])'
  <2>1. acpc' \in [Caller -> AccountPosition] /\ req' = [d \in Caller |-> req'[d]] BY <1>1, <1>3, <1>4 DEF AccountFlat
  <2>2. ASSUME NEW d \in Caller PROVE CallerAt(acpc[d], req[d])'
    <3>1. CASE d = c BY <3>1, <1>5, <1>9
    <3>2. CASE d # c
      <4>1. acpc'[d] = acpc[d] /\ req'[d] = req[d] /\ CallerAt(acpc[d], req[d]) BY <3>2, <1>3, <1>5 DEF AccountInv
      <4>2. Accepting(req[d]) => Accepting(req[d])' BY <1>3, <1>8 DEF Accepting
      <4>3. Acting(req[d]) => Acting(req[d])' BY <1>3, <1>8 DEF Acting
      <4>4. Registering(req[d]) => Registering(req[d])' BY <1>3 DEF Registering
      <4> QED BY <4>1, <4>2, <4>3, <4>4, <1>2 DEF CallerAt
    <3> QED BY <3>1, <3>2
  <2> QED BY <2>1, <2>2
<1>12. AccountFlat' BY <1>1, <1>2, <1>7, <1>11 DEF AccountFlat
<1>13. OnePerPair' BY DEF AccountInv, OnePerPair
<1>14. RowsRefer' BY <1>2, <1>8 DEF AccountInv, RowsRefer
<1>15. OneFounder'
  <2> SUFFICES ASSUME NEW d \in Caller, NEW e \in Caller, acpc'[d] \in Founding, acpc'[e] \in Founding, req[d].person = req[e].person, d # e
               PROVE  FALSE
    BY <1>3 DEF OneFounder
  <2>1. \A x \in Caller : acpc[x] \in Founding => req[x].person \in users BY DEF AccountInv, CallerAt
  <2> QED BY <2>1, <1>5 DEF AccountInv, OneFounder
<1>16. \A i \in Invite : UsesOK(i)'
  <2>1. spot \in Deciding => acpc[c] \in Deciding BY DEF Deciding
  <2>2. \A i \in Invite : Unmarked(i)' => Unmarked(i) BY DEF Unmarked
  <2>3. acpc[c] # "spend" OBVIOUS
  <2> HIDE DEF r, p
  <2>4. spot \in Deciding => acpc[c] \in Deciding /\ r.invite = req[c].invite BY <2>1 DEF r
  <2> QED BY <1>3, <2>2, <2>3, <2>4, UsesAsCallerMoves
<1>17. AdmittedIsCurrent' BY <1>3, <1>4, <1>5 DEF AccountInv, AdmittedIsCurrent, RequireRole, GetMember
<1>18. EveryUserBelongs'
  <2> SUFFICES ASSUME accountFaults = 0, NEW q \in users' \ removed
               PROVE  Belongs(q)' \/ \E d \in Caller : acpc'[d] \in {"tenant", "owner", "join"} /\ req[d].person = q
    BY <1>3 DEF EveryUserBelongs
  <2>1. CASE q = p BY <2>1, <1>5
  <2>2. CASE q \in users
    <3>1. Belongs(q) \/ \E d \in Caller : acpc[d] \in {"tenant", "owner", "join"} /\ req[d].person = q
      BY <2>2 DEF AccountInv, EveryUserBelongs
    <3>2. Belongs(q) => Belongs(q)' BY DEF Belongs
    <3> QED BY <3>1, <3>2, <1>5
  <2> QED BY <2>1, <2>2, <1>2
<1> QED BY <1>11, <1>12, <1>13, <1>14, <1>15, <1>16, <1>17, <1>18 DEF AccountInv

(* A user is created by a registration or for an invitation, or refused.     *)
LEMMA CreateUserOK ==
  ASSUME AccountInv, NEW c \in Caller, NEW pos, NEW spot,
         (pos = "user" /\ spot = "tenant") \/ (pos = "new" /\ spot = "join"), CreateUser(c, pos, spot)
  PROVE  AccountInv'
<1>1. UNCHANGED <<tenants, members, invites, keys, tokens, current, uses, removed>> /\ acpc[c] = pos BY DEF CreateUser
<1>2. tokens' \subseteq Membership BY <1>1 DEF AccountInv, AccountFlat
<1>3. CASE req[c].person \notin users /\ InsertUser(req[c].person) /\ Proceed(c, spot) /\ UNCHANGED accountFaults
  BY <1>1, <1>3, UserWritten
<1>4. CASE Reply(c) /\ UNCHANGED users /\ (UNCHANGED accountFaults \/ AccountFault)
  BY <1>1, <1>2, <1>4, ReplyOK
<1> QED BY <1>3, <1>4 DEF CreateUser

(* A tenant row is written: it is founded when its owner is added.           *)
LEMMA TenantWritten ==
  ASSUME AccountInv, NEW c \in Caller, acpc[c] = "tenant",
         req[c].person \notin tenants, InsertTenant(req[c].person), Proceed(c, "owner"),
         UNCHANGED <<users, members, invites, keys, tokens, current, uses, removed, accountFaults>>
  PROVE  AccountInv'
<1>1. AccountFlat BY DEF AccountInv
<1> DEFINE p == req[c].person
           r == req[c]
<1>2. tenants' = tenants \cup {p} /\ tenants \subseteq tenants' BY DEF InsertTenant
<1>3. acpc' = [acpc EXCEPT ![c] = "owner"] /\ req' = [req EXCEPT ![c] = r] /\ req' = req BY <1>1, ReqKept DEF Proceed
<1>5. acpc'[c] = "owner" /\ \A d \in Caller \ {c} : acpc'[d] = acpc[d] BY <1>1, <1>3 DEF AccountFlat
<1>6. CallerAt(acpc[c], r) BY DEF AccountInv
<1>7. Registering(r) /\ p \in users BY <1>6 DEF CallerAt, Founding
<1>8. \A t : Founded(t) => Founded(t)'
  <2> SUFFICES ASSUME NEW t, Founded(t) PROVE Founded(t)' OBVIOUS
  <2>1. t # p BY DEF Founded
  <2>2. \A d \in Caller : acpc'[d] = "owner" => (acpc[d] = "owner" /\ req'[d] = req[d]) \/ req'[d].person # t
    BY <2>1, <1>3, <1>5
  <2> QED BY <2>2, <1>2, FoundedStays
<1>11. /\ acpc' \in [Caller -> AccountPosition] /\ req' = [d \in Caller |-> req'[d]]
      /\ \A d \in Caller : CallerAt(acpc[d], req[d])'
  <2>1. acpc' \in [Caller -> AccountPosition] /\ req' = [d \in Caller |-> req'[d]] BY <1>1, <1>3 DEF AccountFlat, AccountPosition
  <2>2. ASSUME NEW d \in Caller PROVE CallerAt(acpc[d], req[d])'
    <3>1. CASE d = c BY <3>1, <1>2, <1>3, <1>5, <1>7 DEF CallerAt, Registering, Founding, Deciding
    <3>2. CASE d # c
      <4>1. acpc'[d] = acpc[d] /\ req'[d] = req[d] /\ CallerAt(acpc[d], req[d]) BY <3>2, <1>3, <1>5 DEF AccountInv
      <4>2. Accepting(req[d]) => Accepting(req[d])' BY <1>3, <1>8 DEF Accepting
      <4>3. Acting(req[d]) => Acting(req[d])' BY <1>3, <1>8 DEF Acting
      <4>4. Registering(req[d]) => Registering(req[d])' BY <1>3 DEF Registering
      <4> QED BY <4>1, <4>2, <4>3, <4>4, <1>2 DEF CallerAt
    <3> QED BY <3>1, <3>2
  <2> QED BY <2>1, <2>2
<1>12. AccountFlat' BY <1>1, <1>2, <1>7, <1>11 DEF AccountFlat
<1>13. OnePerPair' BY DEF AccountInv, OnePerPair
<1>14. RowsRefer' BY <1>8 DEF AccountInv, RowsRefer
<1>15. OneFounder' BY <1>3, <1>5 DEF AccountInv, OneFounder, Founding
<1>16. \A i \in Invite : UsesOK(i)'
  <2>1. "owner" \notin Deciding BY DEF Deciding
  <2>2. \A i \in Invite : Unmarked(i)' => Unmarked(i) BY DEF Unmarked
  <2>3. acpc[c] # "spend" OBVIOUS
  <2> HIDE DEF r, p
  <2> QED BY <1>3, <2>1, <2>2, <2>3, UsesAsCallerMoves
<1>17. AdmittedIsCurrent' BY <1>3, <1>5 DEF AccountInv, AdmittedIsCurrent, RequireRole, GetMember
<1>18. EveryUserBelongs'
  <2> SUFFICES ASSUME accountFaults = 0, NEW q \in users \ removed
               PROVE  Belongs(q)' \/ \E d \in Caller : acpc'[d] \in {"tenant", "owner", "join"} /\ req[d].person = q
    BY <1>3 DEF EveryUserBelongs
  <2>1. Belongs(q) \/ \E d \in Caller : acpc[d] \in {"tenant", "owner", "join"} /\ req[d].person = q
    BY DEF AccountInv, EveryUserBelongs
  <2>2. Belongs(q) => Belongs(q)' BY DEF Belongs
  <2> QED BY <2>1, <2>2, <1>5
<1> QED BY <1>11, <1>12, <1>13, <1>14, <1>15, <1>16, <1>17, <1>18 DEF AccountInv

(* The tenant of a registration is created, or the request fails.            *)
LEMMA CreateTenantOK == ASSUME AccountInv, NEW c \in Caller, CreateTenant(c) PROVE AccountInv'
<1>1. UNCHANGED <<users, members, invites, keys, tokens, current, uses, removed>> /\ acpc[c] = "tenant" BY DEF CreateTenant
<1>2. tokens' \subseteq Membership /\ accountFaults \in Nat BY <1>1, AccountBounds DEF AccountInv, AccountFlat
<1>3. CASE req[c].person \notin tenants /\ InsertTenant(req[c].person) /\ Proceed(c, "owner") /\ UNCHANGED accountFaults
  BY <1>1, <1>3, TenantWritten
<1>4. CASE Reply(c) /\ UNCHANGED tenants /\ AccountFault
  <2>1. accountFaults' # 0 BY <1>2, <1>4 DEF AccountFault
  <2> QED BY <1>1, <1>2, <1>4, <2>1, ReplyOK
<1> QED BY <1>3, <1>4 DEF CreateTenant

(* What a step that changes the members keeps, when no membership the        *)
(* requests in flight were admitted by is touched.                           *)
LEMMA NewMember ==
  ASSUME AccountInv, NEW m \in Membership, members' \in Seq(Membership),
         \A x : x \in ToSet(members') <=> (x \in ToSet(members) \/ x = m)
  PROVE  /\ \A t, u : RequireRole(t, u) => RequireRole(t, u)'
         /\ \A u : Belongs(u)' <=> (Belongs(u) \/ u = m.user)
<1>1. \A u : Belongs(u)' <=> (Belongs(u) \/ u = m.user) BY DEF Belongs
<1>2. \A t, u : RequireRole(t, u) => RequireRole(t, u)' BY DEF RequireRole, GetMember
<1> QED BY <1>1, <1>2

(* The rows q are the rows s and one more, the row m at position z.          *)
AddedAt(s, m, q, z) ==
  /\ q[z] = m
  /\ \E shift \in {0, 1} : \A n \in DOMAIN q \ {z} : \E k \in DOMAIN s : q[n] = s[k] /\ n = k + shift

(* A sequence of rows with one more row at either end.                       *)
LEMMA RowAdded ==
  ASSUME NEW s \in Seq(Membership), NEW m \in Membership, NEW q, q = <<m>> \o s \/ q = Append(s, m)
  PROVE  /\ q \in Seq(Membership) /\ DOMAIN q = 1..Len(s) + 1
         /\ \A x : x \in ToSet(q) <=> (x \in ToSet(s) \/ x = m)
         /\ \E z \in DOMAIN q : AddedAt(s, m, q, z)
<1>1. DOMAIN s = 1..Len(s) /\ Len(s) \in Nat OBVIOUS
<1>2. CASE q = Append(s, m)
  <2>1. q \in Seq(Membership) /\ Len(q) = Len(s) + 1 /\ DOMAIN q = 1..Len(s) + 1 BY <1>2
  <2>2. q[Len(s) + 1] = m /\ \A n \in 1..Len(s) : q[n] = s[n] BY <1>2, <1>1
  <2>3. \A x : x \in ToSet(q) <=> (x \in ToSet(s) \/ x = m) BY <2>1, <2>2, <1>1 DEF ToSet
  <2>4. \A n \in DOMAIN q \ {Len(s) + 1} : n \in DOMAIN s BY <2>1, <1>1
  <2>5. Len(s) + 1 \in DOMAIN q BY <2>1, <1>1
  <2>6. ASSUME NEW n \in DOMAIN q \ {Len(s) + 1} PROVE \E k \in DOMAIN s : q[n] = s[k] /\ n = k + 0 BY <1>1, <2>2, <2>4
  <2>7. AddedAt(s, m, q, Len(s) + 1) BY <2>2, <2>6 DEF AddedAt
  <2> QED BY <2>1, <2>3, <2>5, <2>7
<1>3. CASE q # Append(s, m)
  <2>1. q = <<m>> \o s /\ <<m>> \in Seq(Membership) /\ Len(<<m>>) = 1 BY <1>3
  <2>2. q \in Seq(Membership) /\ Len(q) = Len(s) + 1 /\ DOMAIN q = 1..Len(s) + 1 BY <2>1
  <2>3. q[1] = m /\ \A n \in 2..Len(s) + 1 : q[n] = s[n - 1] BY <2>1, <1>1
  <2>4. \A x : x \in ToSet(q) <=> (x \in ToSet(s) \/ x = m)
    <3>1. ASSUME NEW x, x \in ToSet(q) PROVE x \in ToSet(s) \/ x = m
      <4>1. PICK n \in 1..Len(s) + 1 : q[n] = x BY <3>1, <2>2 DEF ToSet
      <4>2. CASE n = 1 BY <4>1, <4>2, <2>3
      <4>3. CASE n # 1
        <5>1. n \in 2..Len(s) + 1 /\ n - 1 \in DOMAIN s BY <4>3, <1>1
        <5>2. s[n - 1] = x BY <5>1, <4>1, <2>3
        <5> QED BY <5>1, <5>2 DEF ToSet
      <4> QED BY <4>2, <4>3
    <3>2. ASSUME NEW x, x \in ToSet(s) PROVE x \in ToSet(q)
      <4>1. PICK k \in 1..Len(s) : s[k] = x BY <3>2, <1>1 DEF ToSet
      <4>2. k + 1 \in 2..Len(s) + 1 /\ (k + 1) - 1 = k /\ k + 1 \in DOMAIN q BY <1>1, <2>2
      <4>3. q[k + 1] = x BY <4>1, <4>2, <2>3
      <4> QED BY <4>2, <4>3 DEF ToSet
    <3>3. m \in ToSet(q)
      <4>1. 1 \in DOMAIN q BY <1>1, <2>2
      <4> QED BY <4>1, <2>3 DEF ToSet
    <3> QED BY <3>1, <3>2, <3>3
  <2>5. 1 \in DOMAIN q BY <1>1, <2>2
  <2>6. ASSUME NEW n \in DOMAIN q \ {1} PROVE \E k \in DOMAIN s : q[n] = s[k] /\ n = k + 1
    <3>1. n \in 2..Len(s) + 1 /\ n - 1 \in DOMAIN s /\ n = (n - 1) + 1 BY <2>2, <1>1
    <3> QED BY <3>1, <2>3
  <2>7. AddedAt(s, m, q, 1) BY <2>3, <2>6 DEF AddedAt
  <2> QED BY <2>2, <2>4, <2>5, <2>7
<1> QED BY <1>2, <1>3

(* A membership is added to a pair that had none.                            *)
LEMMA MembersAfter ==
  ASSUME AccountInv, NEW m \in Membership, members' = <<m>> \o members \/ members' = Append(members, m),
         GetMember(m.tenant, m.user) = {}, users' = users, m.user \in users,
         \A t : Founded(t) => Founded(t)', Founded(m.tenant)', invites' = invites, keys' = keys
  PROVE  /\ members' \in Seq(Membership) /\ OnePerPair' /\ RowsRefer'
         /\ \A t, u : RequireRole(t, u) => RequireRole(t, u)'
         /\ \A u : Belongs(u)' <=> (Belongs(u) \/ u = m.user)
<1>1. AccountFlat /\ OnePerPair /\ RowsRefer BY DEF AccountInv
<1>0. PICK s, q : s = members /\ q = members' OBVIOUS
<1>2. s \in Seq(Membership) /\ (q = <<m>> \o s \/ q = Append(s, m)) BY <1>0, <1>1 DEF AccountFlat
<1>3. \A n \in DOMAIN s : s[n] \in ToSet(s) BY DEF ToSet
<1>4. \A n \in DOMAIN s : ~(s[n].tenant = m.tenant /\ s[n].user = m.user) BY <1>0, <1>3 DEF GetMember
<1>5. /\ q \in Seq(Membership)
      /\ \A x : x \in ToSet(q) <=> (x \in ToSet(s) \/ x = m)
      /\ \E z \in DOMAIN q : AddedAt(s, m, q, z)
  BY <1>2, RowAdded
<1>6. PICK z \in DOMAIN q : AddedAt(s, m, q, z) BY <1>5
<1>6a. PICK shift \in {0, 1} : \A n \in DOMAIN q \ {z} : \E k \in DOMAIN s : q[n] = s[k] /\ n = k + shift BY <1>6 DEF AddedAt
<1>6b. q[z] = m BY <1>6 DEF AddedAt
<1>7. ASSUME NEW a \in DOMAIN q, NEW b \in DOMAIN q, q[a].tenant = q[b].tenant, q[a].user = q[b].user PROVE a = b
  <2>1. \A k, l \in DOMAIN s : (s[k].tenant = s[l].tenant /\ s[k].user = s[l].user) => k = l BY <1>0, <1>1 DEF OnePerPair
  <2>2. CASE a # z /\ b # z
    <3>1. PICK k \in DOMAIN s : q[a] = s[k] /\ a = k + shift BY <2>2, <1>6a
    <3>2. PICK l \in DOMAIN s : q[b] = s[l] /\ b = l + shift BY <2>2, <1>6a
    <3>3. k = l BY <3>1, <3>2, <1>7, <2>1
    <3> QED BY <3>1, <3>2, <3>3
  <2>3. CASE a = z /\ b # z BY <2>3, <1>4, <1>6a, <1>6b, <1>7
  <2>4. CASE b = z /\ a # z BY <2>4, <1>4, <1>6a, <1>6b, <1>7
  <2> QED BY <2>2, <2>3, <2>4
<1>8. OnePerPair' BY <1>0, <1>7 DEF OnePerPair
<1>9. ASSUME NEW n \in DOMAIN q PROVE q[n].user \in users /\ Founded(q[n].tenant)'
  <2>1. CASE n = z
    <3>1. q[n] = m BY <2>1, <1>6b
    <3> QED BY <3>1
  <2>2. CASE n # z
    <3>1. PICK k \in DOMAIN s : q[n] = s[k] BY <2>2, <1>6a
    <3>2. s[k].user \in users /\ Founded(s[k].tenant) BY <1>0, <1>1 DEF RowsRefer
    <3> QED BY <3>1, <3>2
  <2> QED BY <2>1, <2>2
<1>10. RowsRefer'
  <2>1. \A i \in Invite : invites'[i] # Absent => Founded(invites[i].tenant)'
    <3> SUFFICES ASSUME NEW i \in Invite, invites[i] # Absent PROVE Founded(invites[i].tenant)' OBVIOUS
    <3>1. Founded(invites[i].tenant) BY <1>1 DEF RowsRefer
    <3> QED BY <3>1 DEF Founded
  <2>2. \A k \in ApiKey : keys'[k] # Absent => Founded(keys[k].tenant)'
    <3> SUFFICES ASSUME NEW k \in ApiKey, keys[k] # Absent PROVE Founded(keys[k].tenant)' OBVIOUS
    <3>1. Founded(keys[k].tenant) BY <1>1 DEF RowsRefer
    <3> QED BY <3>1 DEF Founded
  <2> QED BY <1>0, <1>9, <2>1, <2>2 DEF RowsRefer, Founded
<1>11. /\ \A t, u : RequireRole(t, u) => RequireRole(t, u)'
       /\ \A u : Belongs(u)' <=> (Belongs(u) \/ u = m.user)
  BY <1>0, <1>5, NewMember
<1> QED BY <1>0, <1>5, <1>8, <1>10, <1>11

(* The founder of a tenant becomes its owner, and the tenant is founded.     *)
LEMMA OwnerAdded ==
  ASSUME AccountInv, NEW c \in Caller, NEW m, m = [tenant |-> req[c].person, user |-> req[c].person, role |-> "owner"],
         acpc[c] = "owner", Reply(c), members' = <<m>> \o members, GenerateToken(m),
         UNCHANGED <<users, tenants, invites, keys, current, uses, removed, accountFaults>>
  PROVE  AccountInv'
<1>1. AccountFlat BY DEF AccountInv
<1> DEFINE p == req[c].person
<1>2. acpc' = [acpc EXCEPT ![c] = "idle"] /\ req' = [req EXCEPT ![c] = Absent] BY DEF Reply, Keep
<1>3. /\ acpc'[c] = "idle" /\ req'[c] = Absent /\ \A d \in Caller \ {c} : acpc'[d] = acpc[d] /\ req'[d] = req[d]
  BY <1>1, <1>2 DEF AccountFlat
<1>4. CallerAt("owner", req[c]) BY DEF AccountInv
<1>5. p \in users /\ p \in tenants /\ p \in Person BY <1>4 DEF CallerAt, Founding, Registering
<1>6. m \in Membership /\ m.tenant = p /\ m.user = p BY <1>5 DEF Membership, Roles
<1>7. \A t : Founded(t) => Founded(t)'
  <2> SUFFICES ASSUME NEW t, Founded(t) PROVE Founded(t)' OBVIOUS
  <2>1. \A d \in Caller : acpc'[d] = "owner" => (acpc[d] = "owner" /\ req'[d] = req[d]) BY <1>3
  <2> QED BY <2>1, FoundedStays
<1>8. ASSUME NEW t, t = p PROVE Founded(t)'
  <2>1. \A d \in Caller \ {c} : ~(acpc[d] = "owner" /\ req[d].person = p) BY DEF AccountInv, OneFounder, Founding
  <2> QED BY <2>1, <1>3, <1>5, <1>8 DEF Founded
<1>9. Founded(m.tenant)' BY <1>6, <1>8 DEF Founded
<1>10. GetMember(m.tenant, m.user) = {}
  <2> SUFFICES ASSUME NEW x \in ToSet(members), x.tenant = p PROVE FALSE BY <1>6 DEF GetMember
  <2>1. PICK n \in DOMAIN members : members[n] = x BY <1>1, MembersByNumber
  <2>2. Founded(members[n].tenant) BY DEF AccountInv, RowsRefer
  <2>3. Founded(p) BY <2>1, <2>2
  <2> QED BY <2>3 DEF Founded
<1>11. /\ members' \in Seq(Membership) /\ OnePerPair' /\ RowsRefer'
       /\ \A t, u : RequireRole(t, u) => RequireRole(t, u)'
       /\ \A u : Belongs(u)' <=> (Belongs(u) \/ u = m.user)
  BY <1>5, <1>6, <1>7, <1>9, <1>10, MembersAfter
<1>12. "idle" \in AccountPosition /\ "idle" \notin Founding /\ "idle" \notin Deciding BY DEF AccountPosition, Founding, Deciding
<1>13. CallerAt("idle", Absent)' BY DEF CallerAt, Founding, Deciding
<1>14. /\ acpc' \in [Caller -> AccountPosition] /\ req' = [d \in Caller |-> req'[d]]
       /\ \A d \in Caller : CallerAt(acpc[d], req[d])'
  BY <1>2, <1>7, <1>12, <1>13, CallersAfter
<1>15. tokens' \subseteq Membership BY <1>1, <1>6 DEF GenerateToken, AccountFlat
<1>16. AccountFlat' BY <1>1, <1>11, <1>14, <1>15 DEF AccountFlat
<1>17. OneFounder' BY <1>3, <1>12 DEF AccountInv, OneFounder
<1>18. \A i \in Invite : UsesOK(i)'
  <2>1. \A i \in Invite : Unmarked(i)' => Unmarked(i) BY DEF Unmarked
  <2> QED BY <1>2, <1>12, <2>1, UsesAsCallerMoves
<1>19. AdmittedIsCurrent'
  <2> SUFFICES ASSUME NEW d \in Caller, acpc'[d] = "act", current'[d]
               PROVE  IF req'[d].key = Absent THEN RequireRole(req[d].tenant, req[d].user)' ELSE ~keys'[req'[d].key].revoked
    BY DEF AdmittedIsCurrent
  <2>1. d # c /\ req'[d] = req[d] /\ acpc[d] = "act" /\ current[d] BY <1>3
  <2>2. IF req[d].key = Absent THEN RequireRole(req[d].tenant, req[d].user) ELSE ~keys[req[d].key].revoked
    BY <2>1 DEF AccountInv, AdmittedIsCurrent
  <2> DEFINE t == req[d].tenant
             u == req[d].user
  <2>3. RequireRole(t, u) => (\A v, w : (v = t /\ w = u) => RequireRole(v, w)')
    <3> HIDE DEF t, u
    <3> SUFFICES ASSUME RequireRole(t, u), NEW v, NEW w, v = t, w = u PROVE RequireRole(v, w)' OBVIOUS
    <3>1. RequireRole(v, w) OBVIOUS
    <3> QED BY <3>1, <1>11
  <2> QED BY <2>1, <2>2, <2>3 DEF RequireRole, GetMember
<1>20. EveryUserBelongs'
  <2> SUFFICES ASSUME accountFaults = 0, NEW q \in users \ removed
               PROVE  Belongs(q)' \/ \E d \in Caller : acpc'[d] \in {"tenant", "owner", "join"} /\ req'[d].person = q
    BY DEF EveryUserBelongs
  <2>1. Belongs(q) \/ \E d \in Caller : acpc[d] \in {"tenant", "owner", "join"} /\ req[d].person = q
    BY DEF AccountInv, EveryUserBelongs
  <2>2. Belongs(q) => Belongs(q)' BY <1>11
  <2>3. q = p => Belongs(q)' BY <1>6, <1>11
  <2> QED BY <2>1, <2>2, <2>3, <1>3
<1> QED BY <1>11, <1>14, <1>16, <1>17, <1>18, <1>19, <1>20 DEF AccountInv

(* The owner is added, or the request fails and leaves a user without        *)
(* membership.                                                               *)
LEMMA AddOwnerOK == ASSUME AccountInv, NEW c \in Caller, AddOwner(c) PROVE AccountInv'
<1> DEFINE m == [tenant |-> req[c].person, user |-> req[c].person, role |-> "owner"]
<1>1. UNCHANGED <<users, tenants, invites, keys, current, uses, removed>> /\ acpc[c] = "owner" /\ Reply(c) BY DEF AddOwner
<1>2. tokens \subseteq Membership /\ accountFaults \in Nat BY AccountBounds DEF AccountInv, AccountFlat
<1>3. CASE members' = <<m>> \o members /\ GenerateToken(m) /\ UNCHANGED accountFaults
  <2> HIDE DEF m
  <2>1. m = [tenant |-> req[c].person, user |-> req[c].person, role |-> "owner"] BY DEF m
  <2> QED BY <1>1, <1>3, <2>1, OwnerAdded
<1>4. CASE AccountFault /\ UNCHANGED <<members, tokens>>
  <2>1. accountFaults' # 0 BY <1>2, <1>4 DEF AccountFault
  <2> QED BY <1>1, <1>2, <1>4, <2>1, ReplyOK
<1> QED BY <1>3, <1>4 DEF AddOwner

(* An acceptance adds its membership: a use of the invitation is counted,    *)
(* one request less may use it, one more has to mark it.                     *)
LEMMA InvitedAdded ==
  ASSUME AccountInv, NEW c \in Caller, acpc[c] = "join", GetMember(req[c].tenant, req[c].person) = {},
         AddMember(Invited(c)), uses' = [uses EXCEPT ![req[c].invite] = @ + 1], Proceed(c, "spend"),
         UNCHANGED <<users, tenants, invites, keys, tokens, current, removed, accountFaults>>
  PROVE  AccountInv'
<1>1. AccountFlat BY DEF AccountInv
<1>2. PICK m, r : m = Invited(c) /\ r = req[c] OBVIOUS
<1>3. CallerAt("join", r) BY <1>2 DEF AccountInv
<1>4. Accepting(r) /\ r.person \in users BY <1>3 DEF CallerAt, Deciding
<1>5. r.invite \in Invite /\ r.person \in Person /\ r.tenant \in Person /\ r.role \in Roles /\ Founded(r.tenant)
  BY <1>4 DEF Accepting
<1>6. m \in Membership /\ m.tenant = r.tenant /\ m.user = r.person BY <1>2, <1>5 DEF Invited, Membership
<1>7. acpc' = [acpc EXCEPT ![c] = "spend"] /\ req' = [req EXCEPT ![c] = r] /\ req' = req BY <1>1, <1>2, ReqKept DEF Proceed
<1>8. acpc'[c] = "spend" /\ \A d \in Caller \ {c} : acpc'[d] = acpc[d] BY <1>1, <1>7 DEF AccountFlat
<1>9. \A t : Founded(t) => Founded(t)'
  <2> SUFFICES ASSUME NEW t, Founded(t) PROVE Founded(t)' OBVIOUS
  <2>1. \A d \in Caller : acpc'[d] = "owner" => (acpc[d] = "owner" /\ req'[d] = req[d]) BY <1>7, <1>8
  <2> QED BY <2>1, FoundedStays
<1>10. /\ members' \in Seq(Membership) /\ OnePerPair' /\ RowsRefer'
       /\ \A t, u : RequireRole(t, u) => RequireRole(t, u)'
       /\ \A u : Belongs(u)' <=> (Belongs(u) \/ u = m.user)
  <2>1. members' = Append(members, m) BY <1>2 DEF AddMember
  <2>2. GetMember(m.tenant, m.user) = {} BY <1>2, <1>6
  <2>3. Founded(m.tenant)' BY <1>5, <1>6, <1>9
  <2> QED BY <1>4, <1>6, <1>9, <2>1, <2>2, <2>3, MembersAfter
<1>11. "spend" \in AccountPosition /\ "spend" \notin Founding /\ "spend" \notin Deciding BY DEF AccountPosition, Founding, Deciding
<1>12. CallerAt("spend", r)'
  <2>1. Accepting(r)' BY <1>4, <1>9 DEF Accepting
  <2> QED BY <2>1, <1>4, <1>11 DEF CallerAt
<1>13. /\ acpc' \in [Caller -> AccountPosition] /\ req' = [d \in Caller |-> req'[d]]
       /\ \A d \in Caller : CallerAt(acpc[d], req[d])'
  BY <1>7, <1>9, <1>11, <1>12, CallersAfter
<1>14. uses' \in [Invite -> Nat] BY <1>1, <1>2, <1>5 DEF AccountFlat
<1>15. AccountFlat' BY <1>1, <1>10, <1>13, <1>14 DEF AccountFlat
<1>16. OneFounder' BY <1>7, <1>8, <1>11 DEF AccountInv, OneFounder
<1>17. \A i \in Invite : UsesOK(i)'
  <2> SUFFICES ASSUME NEW i \in Invite PROVE UsesOK(i)' OBVIOUS
  <2>1. UsesOK(i) /\ uses[i] \in Nat /\ accountFaults \in Nat BY <1>1, AccountBounds DEF AccountInv, AccountFlat
  <2>2. (Unmarked(i)' <=> Unmarked(i)) BY DEF Unmarked
  <2>3. /\ IsFiniteSet(MayUse(i)) /\ Cardinality(MayUse(i)) \in Nat /\ IsFiniteSet(ToMark(i)) /\ Cardinality(ToMark(i)) \in Nat
        /\ Cardinality(Caller) \in Nat BY HoldersAreFinite
  <2>4. CASE r.invite # i
    <3>1. MayUse(i)' = MayUse(i) /\ ToMark(i)' = ToMark(i) BY <1>2, <1>7, <1>8, <2>4 DEF MayUse, ToMark
    <3>2. uses'[i] = uses[i] BY <1>1, <1>2, <2>4 DEF AccountFlat
    <3> QED BY <2>1, <2>2, <3>1, <3>2 DEF UsesOK
  <2>5. CASE r.invite = i
    <3>1. MayUse(i)' = MayUse(i) \ {c} /\ c \in MayUse(i) BY <1>2, <1>7, <1>8, <1>11, <2>5 DEF MayUse, Deciding
    <3>2. ToMark(i)' = ToMark(i) \cup {c} /\ c \notin ToMark(i) BY <1>2, <1>7, <1>8, <2>5 DEF ToMark
    <3>3. uses'[i] = uses[i] + 1 BY <1>1, <1>2, <2>5 DEF AccountFlat
    <3>4. Cardinality(MayUse(i)') = Cardinality(MayUse(i)) - 1 BY <2>3, <3>1, FS_RemoveElement
    <3>5. Cardinality(ToMark(i)') = Cardinality(ToMark(i)) + 1 BY <2>3, <3>2, FS_AddElement
    <3> QED BY <2>1, <2>2, <2>3, <3>3, <3>4, <3>5 DEF UsesOK
  <2> QED BY <2>4, <2>5
<1>18. AdmittedIsCurrent'
  <2> SUFFICES ASSUME NEW d \in Caller, acpc'[d] = "act", current'[d]
               PROVE  IF req'[d].key = Absent THEN RequireRole(req[d].tenant, req[d].user)' ELSE ~keys'[req'[d].key].revoked
    BY DEF AdmittedIsCurrent
  <2>1. d # c /\ req'[d] = req[d] /\ acpc[d] = "act" /\ current[d] BY <1>7, <1>8
  <2>2. IF req[d].key = Absent THEN RequireRole(req[d].tenant, req[d].user) ELSE ~keys[req[d].key].revoked
    BY <2>1 DEF AccountInv, AdmittedIsCurrent
  <2>3. PICK t, u : t = req[d].tenant /\ u = req[d].user OBVIOUS
  <2>4. RequireRole(t, u) => RequireRole(t, u)' BY <1>10
  <2> QED BY <2>1, <2>2, <2>3, <2>4 DEF RequireRole, GetMember
<1>19. EveryUserBelongs'
  <2> SUFFICES ASSUME accountFaults = 0, NEW q \in users \ removed
               PROVE  Belongs(q)' \/ \E d \in Caller : acpc'[d] \in {"tenant", "owner", "join"} /\ req'[d].person = q
    BY DEF EveryUserBelongs
  <2>1. Belongs(q) \/ \E d \in Caller : acpc[d] \in {"tenant", "owner", "join"} /\ req[d].person = q
    BY DEF AccountInv, EveryUserBelongs
  <2>2. Belongs(q) => Belongs(q)' BY <1>10
  <2>3. q = r.person => Belongs(q)' BY <1>6, <1>10
  <2> QED BY <2>1, <2>2, <2>3, <1>2, <1>7, <1>8
<1> QED BY <1>10, <1>13, <1>15, <1>16, <1>17, <1>18, <1>19 DEF AccountInv

(* The invited person becomes a member, is one already, or the request       *)
(* fails.                                                                    *)
LEMMA JoinOK == ASSUME AccountInv, NEW c \in Caller, Join(c) PROVE AccountInv'
<1>1. UNCHANGED <<users, tenants, invites, keys, tokens, current, removed>> /\ acpc[c] = "join" BY DEF Join
<1>2. tokens' \subseteq Membership /\ accountFaults \in Nat BY <1>1, AccountBounds DEF AccountInv, AccountFlat
<1>3. CASE /\ GetMember(req[c].tenant, req[c].person) = {} /\ AddMember(Invited(c))
           /\ uses' = [uses EXCEPT ![req[c].invite] = @ + 1] /\ Proceed(c, "spend") /\ UNCHANGED accountFaults
  BY <1>1, <1>3, InvitedAdded
<1>4. CASE GetMember(req[c].tenant, req[c].person) # {} /\ Reply(c) /\ UNCHANGED <<members, uses, accountFaults>>
  <2>1. Belongs(req[c].person) BY <1>4 DEF Belongs, GetMember
  <2> QED BY <1>1, <1>2, <1>4, <2>1, ReplyOK
<1>5. CASE AccountFault /\ Reply(c) /\ UNCHANGED <<members, uses>>
  <2>1. accountFaults' # 0 BY <1>2, <1>5 DEF AccountFault
  <2> QED BY <1>1, <1>2, <1>5, <2>1, ReplyOK
<1> QED BY <1>3, <1>4, <1>5 DEF Join

(* The answered request, and what the others may still read, when rows of    *)
(* invitations, keys or members are written.                                 *)
LEMMA ReplyAfter ==
  ASSUME AccountInv, NEW c \in Caller, Reply(c), UNCHANGED <<users, tenants, uses>>,
         accountFaults' = accountFaults, acpc[c] \in {"act", "spend"},
         \A i \in Invite : invites[i] # Absent => invites'[i] # Absent,
         \A k \in ApiKey : keys[k] # Absent => keys'[k] # Absent,
         \A i \in Invite : Unmarked(i)' => Unmarked(i),
         acpc[c] = "spend" => \A i \in Invite : req[c].invite = i => ~Unmarked(i)'
  PROVE  /\ \A t : Founded(t) => Founded(t)'
         /\ acpc' \in [Caller -> AccountPosition] /\ req' = [d \in Caller |-> req'[d]]
         /\ \A d \in Caller : CallerAt(acpc[d], req[d])'
         /\ acpc'[c] = "idle" /\ \A d \in Caller \ {c} : acpc'[d] = acpc[d] /\ req'[d] = req[d]
         /\ OneFounder'
         /\ \A i \in Invite : UsesOK(i)'
<1>1. AccountFlat BY DEF AccountInv
<1>2. acpc' = [acpc EXCEPT ![c] = "idle"] /\ req' = [req EXCEPT ![c] = Absent] BY DEF Reply, Keep
<1>3. /\ acpc'[c] = "idle" /\ req'[c] = Absent /\ \A d \in Caller \ {c} : acpc'[d] = acpc[d] /\ req'[d] = req[d]
  BY <1>1, <1>2 DEF AccountFlat
<1>4. \A t : Founded(t) => Founded(t)'
  <2> SUFFICES ASSUME NEW t, Founded(t) PROVE Founded(t)' OBVIOUS
  <2>1. \A d \in Caller : acpc'[d] = "owner" => (acpc[d] = "owner" /\ req'[d] = req[d]) BY <1>3
  <2> QED BY <2>1, FoundedStays
<1>5. "idle" \in AccountPosition /\ "idle" \notin Founding /\ "idle" \notin Deciding BY DEF AccountPosition, Founding, Deciding
<1>6. CallerAt("idle", Absent)' BY DEF CallerAt, Founding, Deciding
<1>7. /\ acpc' \in [Caller -> AccountPosition] /\ req' = [d \in Caller |-> req'[d]]
      /\ \A d \in Caller : CallerAt(acpc[d], req[d])'
  BY <1>2, <1>4, <1>5, <1>6, CallersAfter
<1>8. OneFounder' BY <1>3, <1>5 DEF AccountInv, OneFounder
<1>9. \A i \in Invite : UsesOK(i)' BY <1>2, <1>5, UsesAsCallerMoves
<1> QED BY <1>3, <1>4, <1>7, <1>8, <1>9

(* The invitation is marked, or stays pending by a fault.                    *)
LEMMA SpendInviteOK == ASSUME AccountInv, NEW c \in Caller, SpendInvite(c) PROVE AccountInv'
<1>1. AccountFlat /\ acpc[c] = "spend" /\ Reply(c) BY DEF AccountInv, SpendInvite
<1>2. UNCHANGED <<users, tenants, members, keys, current, uses, removed>> BY DEF SpendInvite
<1>3. PICK r, m : r = req[c] /\ m = Invited(c) OBVIOUS
<1>4. Accepting(r) /\ r.person \in users BY <1>1, <1>3 DEF AccountInv, CallerAt, Deciding
<1>5. m \in Membership BY <1>3, <1>4 DEF Accepting, Invited, Membership
<1>6. tokens' \subseteq Membership BY <1>1, <1>3, <1>5 DEF SpendInvite, GenerateToken, AccountFlat
<1>7. CASE AccountFault /\ UNCHANGED invites BY <1>1, <1>2, <1>6, <1>7, ReplyOK
<1>8. CASE UpdateInviteStatus(req[c].invite, "accepted") /\ UNCHANGED accountFaults
  <2>1. PICK j \in Invite : j = r.invite /\ invites[j] # Absent BY <1>4 DEF Accepting
  <2>2. invites' = [invites EXCEPT ![j].status = "accepted"] BY <1>3, <1>8, <2>1 DEF UpdateInviteStatus
  <2>3. invites[j] \in InviteRow BY <1>1, <2>1 DEF AccountFlat
  <2>4. invites'[j] = [invites[j] EXCEPT !.status = "accepted"] /\ \A i \in Invite \ {j} : invites'[i] = invites[i]
    BY <1>1, <2>2 DEF AccountFlat
  <2>5. invites'[j] \in InviteRow /\ invites'[j].status = "accepted" /\ invites'[j].tenant = invites[j].tenant
    BY <2>3, <2>4 DEF InviteRow
  <2>6. invites' \in [Invite -> InviteRow \cup {Absent}] /\ invites'[j] # Absent
    <3>1. DOMAIN invites' = Invite /\ invites' = [i \in Invite |-> invites'[i]] BY <1>1, <2>2 DEF AccountFlat
    <3>2. \A i \in Invite : invites'[i] \in InviteRow \cup {Absent} BY <1>1, <2>4, <2>5 DEF AccountFlat
    <3> QED BY <3>1, <3>2, <2>5, AbsentIsNothing
  <2>7. \A i \in Invite : invites[i] # Absent => invites'[i] # Absent BY <2>4, <2>6
  <2>8. \A i \in Invite : Unmarked(i)' => Unmarked(i) BY <2>4, <2>5, <2>6 DEF Unmarked
  <2>9. \A i \in Invite : req[c].invite = i => ~Unmarked(i)' BY <1>3, <2>1, <2>5, <2>6 DEF Unmarked
  <2>10. /\ \A t : Founded(t) => Founded(t)'
         /\ acpc' \in [Caller -> AccountPosition] /\ req' = [d \in Caller |-> req'[d]]
         /\ \A d \in Caller : CallerAt(acpc[d], req[d])'
         /\ acpc'[c] = "idle" /\ \A d \in Caller \ {c} : acpc'[d] = acpc[d] /\ req'[d] = req[d]
         /\ OneFounder'
         /\ \A i \in Invite : UsesOK(i)'
    BY <1>1, <1>2, <1>8, <2>7, <2>8, <2>9, ReplyAfter
  <2>11. AccountFlat' BY <1>1, <1>2, <1>6, <1>8, <2>6, <2>10 DEF AccountFlat
  <2>12. OnePerPair' BY <1>2 DEF AccountInv, OnePerPair
  <2>13. RowsRefer'
    <3>1. \A i \in Invite : invites'[i] # Absent => invites[i] # Absent /\ invites'[i].tenant = invites[i].tenant BY <2>1, <2>4, <2>5
    <3> QED BY <3>1, <1>2, <2>10 DEF AccountInv, RowsRefer
  <2>14. AdmittedIsCurrent' BY <1>2, <2>10 DEF AccountInv, AdmittedIsCurrent, RequireRole, GetMember
  <2>15. EveryUserBelongs' BY <1>1, <1>2, <1>8, <2>10 DEF AccountInv, EveryUserBelongs, Belongs
  <2> QED BY <2>10, <2>11, <2>12, <2>13, <2>14, <2>15 DEF AccountInv
<1> QED BY <1>7, <1>8 DEF SpendInvite

(* A managing request writes rows: what is left to show is about the rows    *)
(* and about the principals the other requests were admitted with.           *)
LEMMA ManagedOK ==
  ASSUME AccountInv, NEW c \in Caller, acpc[c] = "act", Reply(c), UNCHANGED <<users, tenants, tokens, uses, accountFaults>>,
         \A i \in Invite : invites[i] # Absent => invites'[i] # Absent,
         \A k \in ApiKey : keys[k] # Absent => keys'[k] # Absent,
         \A i \in Invite : Unmarked(i)' => Unmarked(i),
         members' \in Seq(Membership), invites' \in [Invite -> InviteRow \cup {Absent}], keys' \in [ApiKey -> KeyRow \cup {Absent}],
         current' \in [Caller -> BOOLEAN], removed \subseteq removed', removed' \subseteq Person,
         OnePerPair', (\A t : Founded(t) => Founded(t)') => RowsRefer',
         \A u \in users \ removed' : Belongs(u) => Belongs(u)',
         \A d \in Caller : (acpc[d] = "act" /\ current'[d]) =>
           /\ current[d]
           /\ req[d].key # Absent /\ ~keys[req[d].key].revoked => ~keys'[req[d].key].revoked
           /\ \A t, u : (req[d].key = Absent /\ t = req[d].tenant /\ u = req[d].user /\ RequireRole(t, u)) => RequireRole(t, u)'
  PROVE  AccountInv'
<1>1. AccountFlat BY DEF AccountInv
<1>2. /\ \A t : Founded(t) => Founded(t)'
      /\ acpc' \in [Caller -> AccountPosition] /\ req' = [d \in Caller |-> req'[d]]
      /\ \A d \in Caller : CallerAt(acpc[d], req[d])'
      /\ acpc'[c] = "idle" /\ \A d \in Caller \ {c} : acpc'[d] = acpc[d] /\ req'[d] = req[d]
      /\ OneFounder'
      /\ \A i \in Invite : UsesOK(i)'
  BY ReplyAfter
<1>3. AccountFlat' BY <1>1, <1>2 DEF AccountFlat
<1>4. RowsRefer' BY <1>2
<1>5. AdmittedIsCurrent'
  <2> SUFFICES ASSUME NEW d \in Caller, acpc'[d] = "act", current'[d]
               PROVE  IF req'[d].key = Absent THEN RequireRole(req[d].tenant, req[d].user)' ELSE ~keys'[req'[d].key].revoked
    BY DEF AdmittedIsCurrent
  <2>1. d # c /\ req'[d] = req[d] /\ acpc[d] = "act" /\ current[d] BY <1>2
  <2>2. IF req[d].key = Absent THEN RequireRole(req[d].tenant, req[d].user) ELSE ~keys[req[d].key].revoked
    BY <2>1 DEF AccountInv, AdmittedIsCurrent
  <2>3. PICK t, u : t = req[d].tenant /\ u = req[d].user OBVIOUS
  <2>4. req[d].key = Absent /\ RequireRole(t, u) => RequireRole(t, u)' BY <2>1, <2>3
  <2> QED BY <2>1, <2>2, <2>3, <2>4 DEF RequireRole, GetMember
<1>6. EveryUserBelongs'
  <2> SUFFICES ASSUME accountFaults = 0, NEW q \in users \ removed'
               PROVE  Belongs(q)' \/ \E d \in Caller : acpc'[d] \in {"tenant", "owner", "join"} /\ req'[d].person = q
    BY DEF EveryUserBelongs
  <2>1. Belongs(q) \/ \E d \in Caller : acpc[d] \in {"tenant", "owner", "join"} /\ req[d].person = q
    BY DEF AccountInv, EveryUserBelongs
  <2> QED BY <2>1, <1>2
<1> QED BY <1>2, <1>3, <1>4, <1>5, <1>6 DEF AccountInv

(* A new invitation refers to the tenant of a request that was admitted.     *)
LEMMA InviteMemberOK ==
  ASSUME AccountInv, NEW c \in Caller, NEW i \in Invite, NEW p \in Person, NEW role \in OfferedRole, InviteMember(c, i, p, role)
  PROVE  AccountInv'
<1>1. AccountFlat /\ acpc[c] = "act" /\ Reply(c) /\ invites[i] = Absent BY DEF AccountInv, InviteMember
<1>2. UNCHANGED <<users, tenants, members, keys, tokens, current, uses, removed, accountFaults>> BY DEF InviteMember
<1>3. PICK t, row : t = req[c].tenant /\ row = [tenant |-> t, person |-> p, role |-> role, status |-> "pending", live |-> TRUE] OBVIOUS
<1>4. Acting(req[c]) BY <1>1 DEF AccountInv, CallerAt
<1>5. t \in Person /\ Founded(t) BY <1>3, <1>4 DEF Acting
<1>6. row \in InviteRow /\ row.tenant = t /\ row.status = "pending" /\ row # Absent
  <2>1. row \in InviteRow /\ row.tenant = t /\ row.status = "pending" BY <1>3, <1>5, AccountBounds DEF InviteRow
  <2> QED BY <2>1, AbsentIsNothing
<1>7. invites' = [invites EXCEPT ![i] = row] BY <1>3 DEF InviteMember, CreateInvite
<1>8. invites'[i] = row /\ (\A j \in Invite \ {i} : invites'[j] = invites[j]) /\ invites' \in [Invite -> InviteRow \cup {Absent}]
  BY <1>1, <1>6, <1>7 DEF AccountFlat
<1>9. \A j \in Invite : invites[j] # Absent => invites'[j] # Absent BY <1>1, <1>8
<1>10. \A j \in Invite : Unmarked(j)' => Unmarked(j) BY <1>1, <1>8 DEF Unmarked
<1>11. ASSUME \A v : Founded(v) => Founded(v)' PROVE RowsRefer'
  <2>1. \A j \in Invite : invites'[j] # Absent => Founded(invites'[j].tenant)
    <3>1. Founded(invites'[i].tenant) BY <1>5, <1>6, <1>8
    <3> QED BY <3>1, <1>8 DEF AccountInv, RowsRefer
  <2>2. ASSUME NEW j \in Invite, invites'[j] # Absent PROVE Founded(invites[j].tenant)'
    <3>1. PICK v : v = invites'[j].tenant OBVIOUS
    <3>2. Founded(v)' BY <2>1, <2>2, <3>1, <1>11
    <3> QED BY <3>1, <3>2 DEF Founded
  <2>3. \A n \in DOMAIN members' : members'[n].user \in users' /\ Founded(members[n].tenant)' BY <1>2, <1>11 DEF AccountInv, RowsRefer
  <2>4. \A k \in ApiKey : keys'[k] # Absent => Founded(keys[k].tenant)' BY <1>2, <1>11 DEF AccountInv, RowsRefer
  <2> QED BY <2>2, <2>3, <2>4 DEF RowsRefer
<1>12. OnePerPair' BY <1>2 DEF AccountInv, OnePerPair
<1>13. /\ \A u : Belongs(u) => Belongs(u)'
       /\ \A v, u : RequireRole(v, u) => RequireRole(v, u)' BY <1>2 DEF Belongs, RequireRole, GetMember
<1>14. members' \in Seq(Membership) /\ keys' \in [ApiKey -> KeyRow \cup {Absent}] /\ current' \in [Caller -> BOOLEAN] /\ removed' \subseteq Person
  BY <1>1, <1>2 DEF AccountFlat
<1> QED BY <1>1, <1>2, <1>8, <1>9, <1>10, <1>11, <1>12, <1>13, <1>14, ManagedOK

(* A new key refers to the tenant of a request that was admitted.            *)
LEMMA CreateKeyOK == ASSUME AccountInv, NEW c \in Caller, NEW k \in ApiKey, CreateKey(c, k) PROVE AccountInv'
<1>1. AccountFlat /\ acpc[c] = "act" /\ Reply(c) /\ keys[k] = Absent BY DEF AccountInv, CreateKey
<1>2. UNCHANGED <<users, tenants, members, invites, tokens, current, uses, removed, accountFaults>> BY DEF CreateKey
<1>3. PICK t, row : t = req[c].tenant /\ row = [tenant |-> t, revoked |-> FALSE] OBVIOUS
<1>4. Acting(req[c]) BY <1>1 DEF AccountInv, CallerAt
<1>5. t \in Person /\ Founded(t) BY <1>3, <1>4 DEF Acting
<1>6. row \in KeyRow /\ row.tenant = t /\ row # Absent
  <2>1. row \in KeyRow /\ row.tenant = t BY <1>3, <1>5 DEF KeyRow
  <2> QED BY <2>1, AbsentIsNothing
<1>7. keys' = [keys EXCEPT ![k] = row] BY <1>3 DEF CreateKey, InsertKey
<1>8. keys'[k] = row /\ (\A j \in ApiKey \ {k} : keys'[j] = keys[j]) /\ keys' \in [ApiKey -> KeyRow \cup {Absent}]
  BY <1>1, <1>6, <1>7 DEF AccountFlat
<1>9. \A j \in ApiKey : keys[j] # Absent => keys'[j] # Absent BY <1>1, <1>8
<1>10. \A j \in Invite : Unmarked(j)' => Unmarked(j) BY <1>2 DEF Unmarked
<1>11. ASSUME \A v : Founded(v) => Founded(v)' PROVE RowsRefer'
  <2>1. \A j \in ApiKey : keys'[j] # Absent => Founded(keys'[j].tenant)
    <3>1. Founded(keys'[k].tenant) BY <1>5, <1>6, <1>8
    <3> QED BY <3>1, <1>8 DEF AccountInv, RowsRefer
  <2>2. ASSUME NEW j \in ApiKey, keys'[j] # Absent PROVE Founded(keys[j].tenant)'
    <3>1. PICK v : v = keys'[j].tenant OBVIOUS
    <3>2. Founded(v)' BY <2>1, <2>2, <3>1, <1>11
    <3> QED BY <3>1, <3>2 DEF Founded
  <2>3. \A n \in DOMAIN members' : members'[n].user \in users' /\ Founded(members[n].tenant)' BY <1>2, <1>11 DEF AccountInv, RowsRefer
  <2>4. \A j \in Invite : invites'[j] # Absent => Founded(invites[j].tenant)' BY <1>2, <1>11 DEF AccountInv, RowsRefer
  <2> QED BY <2>2, <2>3, <2>4 DEF RowsRefer
<1>12. OnePerPair' BY <1>2 DEF AccountInv, OnePerPair
<1>13. /\ \A u : Belongs(u) => Belongs(u)'
       /\ \A v, u : RequireRole(v, u) => RequireRole(v, u)' BY <1>2 DEF Belongs, RequireRole, GetMember
<1>14. members' \in Seq(Membership) /\ invites' \in [Invite -> InviteRow \cup {Absent}] /\ current' \in [Caller -> BOOLEAN] /\ removed' \subseteq Person
  BY <1>1, <1>2 DEF AccountFlat
<1>15. \A d \in Caller : acpc[d] = "act" => (req[d].key # Absent /\ ~keys[req[d].key].revoked => ~keys'[req[d].key].revoked)
  <2> SUFFICES ASSUME NEW d \in Caller, acpc[d] = "act", req[d].key # Absent, ~keys[req[d].key].revoked PROVE ~keys'[req[d].key].revoked
    OBVIOUS
  <2>1. Acting(req[d]) BY DEF AccountInv, CallerAt
  <2>2. req[d].key \in ApiKey /\ req[d].key # k BY <2>1, <1>1 DEF Acting
  <2> QED BY <2>2, <1>8
<1> QED BY <1>1, <1>2, <1>8, <1>9, <1>10, <1>11, <1>12, <1>13, <1>14, <1>15, ManagedOK

(* A revocation puts the requests of that key out of date and no others.     *)
LEMMA RevokeKeyOK == ASSUME AccountInv, NEW c \in Caller, NEW k \in ApiKey, RevokeKey(c, k) PROVE AccountInv'
<1>1. AccountFlat /\ acpc[c] = "act" /\ Reply(c) /\ keys[k] # Absent BY DEF AccountInv, RevokeKey
<1>2. UNCHANGED <<users, tenants, members, invites, tokens, uses, removed, accountFaults>> BY DEF RevokeKey
<1>3. current' = [d \in Caller |-> current[d] /\ ~(acpc[d] = "act" /\ req[d].key = k)] BY DEF RevokeKey, OutOfDate
<1>4. keys[k] \in KeyRow BY <1>1 DEF AccountFlat
<1>5. keys' = [keys EXCEPT ![k].revoked = TRUE] BY DEF RevokeKey, SetRevoked
<1>6. keys'[k] = [keys[k] EXCEPT !.revoked = TRUE] /\ (\A j \in ApiKey \ {k} : keys'[j] = keys[j]) BY <1>1, <1>5 DEF AccountFlat
<1>7. keys'[k] \in KeyRow /\ keys'[k].tenant = keys[k].tenant BY <1>4, <1>6 DEF KeyRow
<1>8. keys' \in [ApiKey -> KeyRow \cup {Absent}] /\ keys'[k] # Absent
  <2>1. keys' = [j \in ApiKey |-> keys'[j]] BY <1>1, <1>5 DEF AccountFlat
  <2>2. \A j \in ApiKey : keys'[j] \in KeyRow \cup {Absent} BY <1>1, <1>6, <1>7 DEF AccountFlat
  <2> QED BY <2>1, <2>2, <1>7, AbsentIsNothing
<1>9. \A j \in ApiKey : keys[j] # Absent => keys'[j] # Absent BY <1>6, <1>8
<1>10. \A j \in Invite : Unmarked(j)' => Unmarked(j) BY <1>2 DEF Unmarked
<1>11. ASSUME \A v : Founded(v) => Founded(v)' PROVE RowsRefer'
  <2>1. \A j \in ApiKey : keys'[j] # Absent => keys[j] # Absent /\ keys'[j].tenant = keys[j].tenant BY <1>1, <1>6, <1>7
  <2> QED BY <2>1, <1>2, <1>11 DEF AccountInv, RowsRefer
<1>12. OnePerPair' BY <1>2 DEF AccountInv, OnePerPair
<1>13. /\ \A u : Belongs(u) => Belongs(u)'
       /\ \A v, u : RequireRole(v, u) => RequireRole(v, u)' BY <1>2 DEF Belongs, RequireRole, GetMember
<1>14. members' \in Seq(Membership) /\ invites' \in [Invite -> InviteRow \cup {Absent}] /\ removed' \subseteq Person
  BY <1>1, <1>2 DEF AccountFlat
<1>15. current' \in [Caller -> BOOLEAN] /\ \A d \in Caller : current'[d] => current[d] /\ ~(acpc[d] = "act" /\ req[d].key = k)
  BY <1>1, <1>3 DEF AccountFlat
<1>16. \A d \in Caller : (acpc[d] = "act" /\ current'[d]) => (req[d].key # Absent /\ ~keys[req[d].key].revoked => ~keys'[req[d].key].revoked)
  <2> SUFFICES ASSUME NEW d \in Caller, acpc[d] = "act", current'[d], req[d].key # Absent, ~keys[req[d].key].revoked PROVE ~keys'[req[d].key].revoked
    OBVIOUS
  <2>1. Acting(req[d]) BY DEF AccountInv, CallerAt
  <2>2. req[d].key \in ApiKey /\ req[d].key # k BY <2>1, <1>15 DEF Acting
  <2> QED BY <2>2, <1>6
<1> QED BY <1>1, <1>2, <1>8, <1>9, <1>10, <1>11, <1>12, <1>13, <1>14, <1>15, <1>16, ManagedOK

(* The rows of a tenant's member are changed or removed, and those of every  *)
(* other pair stay: enough for the requests of the other principals.         *)
LEMMA MemberManaged ==
  ASSUME AccountInv, NEW c \in Caller, NEW t, NEW p, acpc[c] = "act", Reply(c),
         UNCHANGED <<users, tenants, invites, keys, tokens, uses, accountFaults>>,
         members' \in Seq(Membership), OnePerPair',
         \A x \in ToSet(members) : ~(x.tenant = t /\ x.user = p) => x \in ToSet(members'),
         \A x \in ToSet(members') : \E y \in ToSet(members) : x.tenant = y.tenant /\ x.user = y.user,
         removed \subseteq removed', removed' \subseteq Person,
         p \in removed' \/ (Belongs(p) => Belongs(p)'),
         current' = [d \in Caller |-> current[d] /\ ~(acpc[d] = "act" /\ req[d].tenant = t /\ req[d].user = p)]
  PROVE  AccountInv'
<1>1. AccountFlat BY DEF AccountInv
<1>2. AccountFlat => \A n \in DOMAIN members' : members'[n] \in ToSet(members') BY DEF ToSet
<1>3. ASSUME \A v : Founded(v) => Founded(v)' PROVE RowsRefer'
  <2>1. \A y \in ToSet(members) : y.user \in users /\ Founded(y.tenant) BY DEF AccountInv, RowsRefer, ToSet
  <2>2. ASSUME NEW n \in DOMAIN members' PROVE members'[n].user \in users /\ Founded(members[n].tenant)'
    <3>1. PICK x, v : x = members'[n] /\ v = x.tenant OBVIOUS
    <3>2. x.user \in users /\ Founded(v) BY <2>1, <3>1, <1>1, <1>2
    <3>3. Founded(v)' BY <3>2, <1>3
    <3> QED BY <3>1, <3>2, <3>3 DEF Founded
  <2>3. \A k \in ApiKey : keys'[k] # Absent => Founded(keys[k].tenant)' BY <1>3 DEF AccountInv, RowsRefer
  <2>4. \A j \in Invite : invites'[j] # Absent => Founded(invites[j].tenant)' BY <1>3 DEF AccountInv, RowsRefer
  <2> QED BY <2>2, <2>3, <2>4 DEF RowsRefer
<1>4. \A u : u # p /\ Belongs(u) => Belongs(u)' BY DEF Belongs
<1>5. \A v, u : ~(v = t /\ u = p) /\ RequireRole(v, u) => RequireRole(v, u)' BY DEF RequireRole, GetMember
<1>6. current' \in [Caller -> BOOLEAN] /\ \A d \in Caller : current'[d] => current[d] /\ ~(acpc[d] = "act" /\ req[d].tenant = t /\ req[d].user = p)
  BY <1>1 DEF AccountFlat
<1>7. \A u \in users \ removed' : Belongs(u) => Belongs(u)' BY <1>4
<1>8. \A i \in Invite : Unmarked(i)' => Unmarked(i) BY DEF Unmarked
<1>9. invites' \in [Invite -> InviteRow \cup {Absent}] /\ keys' \in [ApiKey -> KeyRow \cup {Absent}] BY <1>1 DEF AccountFlat
<1>10. \A d \in Caller : (acpc[d] = "act" /\ current'[d]) =>
           /\ current[d]
           /\ req[d].key # Absent /\ ~keys[req[d].key].revoked => ~keys'[req[d].key].revoked
           /\ \A v, u : (req[d].key = Absent /\ v = req[d].tenant /\ u = req[d].user /\ RequireRole(v, u)) => RequireRole(v, u)'
  BY <1>5, <1>6
<1> QED BY <1>3, <1>6, <1>7, <1>8, <1>9, <1>10, ManagedOK

(* A new role puts the requests of that member out of date and no others.    *)
LEMMA UpdateRoleOK ==
  ASSUME AccountInv, NEW c \in Caller, NEW p \in Person, NEW role \in OfferedRole, UpdateRole(c, p, role)
  PROVE  AccountInv'
<1>1. AccountFlat /\ OnePerPair /\ acpc[c] = "act" /\ Reply(c) BY DEF AccountInv, UpdateRole
<1>2. UNCHANGED <<users, tenants, invites, keys, tokens, uses, removed, accountFaults>> BY DEF UpdateRole
<1>3. PICK t : t = req[c].tenant OBVIOUS
<1>4. current' = [d \in Caller |-> current[d] /\ ~(acpc[d] = "act" /\ req[d].tenant = t /\ req[d].user = p)]
  <2>1. current' = [d \in Caller |-> current[d] /\ ~(acpc[d] = "act" /\ (req[d].tenant = req[c].tenant /\ req[d].user = p))]
    BY DEF UpdateRole, OutOfDate
  <2> QED BY <2>1, <1>3
<1>5. members' = [n \in DOMAIN members |->
    IF members[n].tenant = t /\ members[n].user = p THEN [members[n] EXCEPT !.role = role] ELSE members[n]]
  BY <1>3 DEF UpdateRole, UpdateMemberRole
<1>6. DOMAIN members = 1..Len(members) /\ Len(members) \in Nat /\ \A n \in DOMAIN members : members[n] \in Membership
  BY <1>1, MembersByNumber
<1>7. \A m \in Membership : /\ [m EXCEPT !.role = role] \in Membership
                            /\ [m EXCEPT !.role = role].tenant = m.tenant /\ [m EXCEPT !.role = role].user = m.user
  BY AccountBounds DEF Membership
<1>8. /\ DOMAIN members' = DOMAIN members
      /\ \A n \in DOMAIN members : /\ members'[n] \in Membership
                                   /\ members'[n].tenant = members[n].tenant /\ members'[n].user = members[n].user
                                   /\ ~(members[n].tenant = t /\ members[n].user = p) => members'[n] = members[n]
  BY <1>5, <1>6, <1>7
<1>9. members' \in Seq(Membership)
  <2>1. members' = [n \in 1..Len(members) |-> members'[n]] BY <1>5, <1>6, <1>8
  <2>2. members' \in [1..Len(members) -> Membership] BY <2>1, <1>6, <1>8
  <2> QED BY <2>2, <1>6, IsASeq
<1>10. OnePerPair' BY <1>1, <1>8 DEF OnePerPair
<1>11. \A x \in ToSet(members) : ~(x.tenant = t /\ x.user = p) => x \in ToSet(members') BY <1>8 DEF ToSet
<1>12. \A x \in ToSet(members') : \E y \in ToSet(members) : x.tenant = y.tenant /\ x.user = y.user BY <1>8 DEF ToSet
<1>13. Belongs(p) => Belongs(p)' BY <1>8 DEF Belongs, ToSet
<1>14. removed' \subseteq Person BY <1>1, <1>2 DEF AccountFlat
<1> QED BY <1>1, <1>2, <1>4, <1>9, <1>10, <1>11, <1>12, <1>13, <1>14, MemberManaged, ZenonT(60)

(* The rows without row n.                                                   *)
LEMMA RowRemoved ==
  ASSUME NEW s \in Seq(Membership), NEW n \in DOMAIN s, NEW q, q = RemoveAt(s, n)
  PROVE  /\ q \in Seq(Membership)
         /\ \A k \in DOMAIN q : \E j \in DOMAIN s : q[k] = s[j] /\ j = (IF k < n THEN k ELSE k + 1)
         /\ \A j \in DOMAIN s \ {n} : s[j] \in ToSet(q)
<1>1. DOMAIN s = 1..Len(s) /\ Len(s) \in Nat /\ n \in 1..Len(s) OBVIOUS
<1>2. PICK a, b : a = SubSeq(s, 1, n - 1) /\ b = SubSeq(s, n + 1, Len(s)) OBVIOUS
<1>3. a \in Seq(Membership) /\ Len(a) = n - 1 /\ \A k \in 1..n - 1 : a[k] = s[k]
  BY <1>1, <1>2, SubSeqProperties
<1>4. b \in Seq(Membership) /\ Len(b) = Len(s) - n /\ \A k \in 1..Len(s) - n : b[k] = s[n + k]
  BY <1>1, <1>2, SubSeqProperties
<1>5. q = a \o b BY <1>2 DEF RemoveAt
<1>6. q \in Seq(Membership) /\ Len(q) = Len(s) - 1 /\ DOMAIN q = 1..Len(s) - 1
  <2>1. q \in Seq(Membership) /\ Len(q) = Len(a) + Len(b) BY <1>3, <1>4, <1>5, ConcatProperties
  <2>2. Len(q) = Len(s) - 1 BY <2>1, <1>1, <1>3, <1>4
  <2> QED BY <2>1, <2>2
<1>7. \A k \in 1..Len(q) : q[k] = IF k <= Len(a) THEN a[k] ELSE b[k - Len(a)] BY <1>3, <1>4, <1>5, SMTT(60)
<1>8. ASSUME NEW k \in 1..Len(s) - 1 PROVE q[k] = s[IF k < n THEN k ELSE k + 1] /\ (IF k < n THEN k ELSE k + 1) \in DOMAIN s
  <2>1. CASE k < n BY <2>1, <1>1, <1>3, <1>6, <1>7
  <2>2. CASE ~(k < n)
    <3>1. k - (n - 1) \in 1..Len(s) - n /\ n + (k - (n - 1)) = k + 1 BY <2>2, <1>1
    <3>2. q[k] = b[k - (n - 1)] BY <2>2, <1>1, <1>3, <1>6, <1>7
    <3> QED BY <3>1, <3>2, <2>2, <1>1, <1>4
  <2> QED BY <2>1, <2>2
<1>9. ASSUME NEW j \in DOMAIN s \ {n} PROVE s[j] \in ToSet(q)
  <2>1. PICK k \in 1..Len(s) - 1 : (IF k < n THEN k ELSE k + 1) = j
    <3>1. CASE j < n BY <3>1, <1>1
    <3>2. CASE j > n
      <4>1. j - 1 \in 1..Len(s) - 1 /\ ~(j - 1 < n) /\ (j - 1) + 1 = j BY <3>2, <1>1
      <4> QED BY <4>1
    <3> QED BY <3>1, <3>2, <1>1
  <2>2. q[k] = s[j] /\ k \in DOMAIN q BY <2>1, <1>6, <1>8
  <2> QED BY <2>2 DEF ToSet
<1> QED BY <1>6, <1>8, <1>9

(* A removal puts the requests of that member out of date and no others.     *)
LEMMA RemoveMemberOK ==
  ASSUME AccountInv, NEW c \in Caller, NEW p \in Person, RemoveMember(c, p)
  PROVE  AccountInv'
<1>1. AccountFlat /\ OnePerPair /\ acpc[c] = "act" /\ Reply(c) BY DEF AccountInv, RemoveMember
<1>2. UNCHANGED <<users, tenants, invites, keys, tokens, uses, accountFaults>> /\ removed' = removed \cup {p} BY DEF RemoveMember
<1>3. PICK t : t = req[c].tenant OBVIOUS
<1>4. current' = [d \in Caller |-> current[d] /\ ~(acpc[d] = "act" /\ req[d].tenant = t /\ req[d].user = p)]
  <2>1. current' = [d \in Caller |-> current[d] /\ ~(acpc[d] = "act" /\ (req[d].tenant = req[c].tenant /\ req[d].user = p))]
    BY DEF RemoveMember, OutOfDate
  <2> QED BY <2>1, <1>3
<1>5. PICK n \in DOMAIN members : members[n].tenant = t /\ members[n].user = p /\ members' = RemoveAt(members, n)
  BY <1>3 DEF RemoveMember, DeleteMember
<1>6. PICK s, q : s = members /\ q = members' OBVIOUS
<1>7. s \in Seq(Membership) /\ n \in DOMAIN s /\ q = RemoveAt(s, n) BY <1>1, <1>5, <1>6 DEF AccountFlat
<1>8. /\ q \in Seq(Membership)
      /\ \A k \in DOMAIN q : \E j \in DOMAIN s : q[k] = s[j] /\ j = (IF k < n THEN k ELSE k + 1)
      /\ \A j \in DOMAIN s \ {n} : s[j] \in ToSet(q)
  BY <1>7, RowRemoved
<1>9. ASSUME NEW a \in DOMAIN q, NEW b \in DOMAIN q, q[a].tenant = q[b].tenant, q[a].user = q[b].user PROVE a = b
  <2>1. PICK k \in DOMAIN s : q[a] = s[k] /\ k = (IF a < n THEN a ELSE a + 1) BY <1>8
  <2>2. PICK l \in DOMAIN s : q[b] = s[l] /\ l = (IF b < n THEN b ELSE b + 1) BY <1>8
  <2>3. k = l BY <2>1, <2>2, <1>1, <1>6, <1>9 DEF OnePerPair
  <2>4. a \in Nat /\ b \in Nat /\ n \in Nat BY <1>7, <1>8
  <2> QED BY <2>1, <2>2, <2>3, <2>4
<1>10. OnePerPair' BY <1>6, <1>9 DEF OnePerPair
<1>11. \A x \in ToSet(members) : ~(x.tenant = t /\ x.user = p) => x \in ToSet(members') BY <1>5, <1>6, <1>8 DEF ToSet
<1>12. \A x \in ToSet(members') : \E y \in ToSet(members) : x.tenant = y.tenant /\ x.user = y.user BY <1>6, <1>8 DEF ToSet
<1>13. removed' \subseteq Person /\ removed \subseteq removed' /\ p \in removed' BY <1>1, <1>2 DEF AccountFlat
<1>14. members' \in Seq(Membership) BY <1>6, <1>8
<1> QED BY <1>1, <1>2, <1>4, <1>10, <1>11, <1>12, <1>13, <1>14, MemberManaged

(* An invitation that expires stays unmarked.                                *)
LEMMA ExpireInviteOK == ASSUME AccountInv, NEW i \in Invite, ExpireInvite(i) PROVE AccountInv'
<1>1. AccountFlat /\ invites[i] # Absent /\ invites[i].status = "pending"
  BY DEF AccountInv, ExpireInvite, Usable, GetInviteByToken
<1>2. UNCHANGED <<users, tenants, members, keys, tokens, acpc, req, current, uses, removed, accountFaults>> BY DEF ExpireInvite
<1>3. invites[i] \in InviteRow /\ invites' = [invites EXCEPT ![i].live = FALSE] BY <1>1 DEF AccountFlat, ExpireInvite
<1>4. invites'[i] = [invites[i] EXCEPT !.live = FALSE] /\ \A j \in Invite \ {i} : invites'[j] = invites[j] BY <1>1, <1>3 DEF AccountFlat
<1>5. invites'[i] \in InviteRow /\ invites'[i].status = invites[i].status /\ invites'[i].tenant = invites[i].tenant
  <2>1. PICK x, y : x = invites[i] /\ y = invites'[i] OBVIOUS
  <2>2. x \in InviteRow /\ y = [x EXCEPT !.live = FALSE] BY <1>3, <1>4, <2>1
  <2>3. y.status = x.status /\ y.tenant = x.tenant BY <2>2 DEF InviteRow
  <2>4. y \in InviteRow BY <2>2 DEF InviteRow
  <2> QED BY <2>1, <2>3, <2>4
<1>6. invites' \in [Invite -> InviteRow \cup {Absent}] /\ invites'[i] # Absent
  <2>1. invites' = [j \in Invite |-> invites'[j]] BY <1>1, <1>3 DEF AccountFlat
  <2>2. \A j \in Invite : invites'[j] \in InviteRow \cup {Absent} BY <1>1, <1>4, <1>5 DEF AccountFlat
  <2> QED BY <2>1, <2>2, <1>5, AbsentIsNothing
<1>7. \A j \in Invite : (invites'[j] # Absent <=> invites[j] # Absent) /\ (invites[j] # Absent => invites'[j].tenant = invites[j].tenant)
  BY <1>1, <1>4, <1>5, <1>6
<1>8. \A t : Founded(t)' <=> Founded(t) BY <1>2 DEF Founded
<1>9. AccountFlat' BY <1>1, <1>2, <1>6 DEF AccountFlat
<1>10. OnePerPair' /\ OneFounder' BY <1>2 DEF AccountInv, OnePerPair, OneFounder
<1>11. RowsRefer' BY <1>2, <1>7, <1>8 DEF AccountInv, RowsRefer
<1>12. \A d \in Caller : CallerAt(acpc[d], req[d])'
  <2> SUFFICES ASSUME NEW d \in Caller PROVE CallerAt(acpc[d], req[d])' OBVIOUS
  <2>1. CallerAt(acpc[d], req[d]) BY DEF AccountInv
  <2>2. Accepting(req[d]) => Accepting(req[d])' BY <1>2, <1>7, <1>8 DEF Accepting
  <2>3. Acting(req[d]) => Acting(req[d])' BY <1>2, <1>8 DEF Acting
  <2>4. Registering(req[d]) => Registering(req[d])' BY <1>2 DEF Registering
  <2> QED BY <2>1, <2>2, <2>3, <2>4, <1>2 DEF CallerAt
<1>13. \A j \in Invite : UsesOK(j)'
  <2> SUFFICES ASSUME NEW j \in Invite PROVE UsesOK(j)' OBVIOUS
  <2>1. MayUse(j)' = MayUse(j) /\ ToMark(j)' = ToMark(j) BY <1>2 DEF MayUse, ToMark
  <2>2. Unmarked(j)' => Unmarked(j) BY <1>1, <1>4 DEF Unmarked
  <2>3. UsesOK(j) BY DEF AccountInv
  <2> QED BY <2>1, <2>2, <2>3, <1>2 DEF UsesOK
<1>14. AdmittedIsCurrent' /\ EveryUserBelongs'
  BY <1>2 DEF AccountInv, AdmittedIsCurrent, RequireRole, GetMember, EveryUserBelongs, Belongs
<1> QED BY <1>9, <1>10, <1>11, <1>12, <1>13, <1>14 DEF AccountInv

(* A step that writes nothing but tokens.                                    *)
LEMMA TokensOnly ==
  ASSUME AccountInv, tokens' \subseteq Membership,
         UNCHANGED <<users, tenants, members, invites, keys, acpc, req, current, uses, removed, accountFaults>>
  PROVE  AccountInv'
<1>1. \A t : Founded(t)' <=> Founded(t) BY DEF Founded
<1>2. AccountFlat' BY DEF AccountInv, AccountFlat
<1>3. OnePerPair' /\ OneFounder' BY DEF AccountInv, OnePerPair, OneFounder
<1>4. RowsRefer' BY <1>1 DEF AccountInv, RowsRefer
<1>5. \A d \in Caller : CallerAt(acpc[d], req[d])'
  <2> SUFFICES ASSUME NEW d \in Caller PROVE CallerAt(acpc[d], req[d])' OBVIOUS
  <2>1. CallerAt(acpc[d], req[d]) BY DEF AccountInv
  <2>2. Accepting(req[d]) => Accepting(req[d])' BY <1>1 DEF Accepting
  <2>3. Acting(req[d]) => Acting(req[d])' BY <1>1 DEF Acting
  <2>4. Registering(req[d]) => Registering(req[d])' BY DEF Registering
  <2> QED BY <2>1, <2>2, <2>3, <2>4 DEF CallerAt
<1>6. \A j \in Invite : UsesOK(j)' BY DEF AccountInv, UsesOK, MayUse, ToMark, Unmarked
<1>7. AdmittedIsCurrent' /\ EveryUserBelongs'
  BY DEF AccountInv, AdmittedIsCurrent, RequireRole, GetMember, EveryUserBelongs, Belongs
<1> QED BY <1>2, <1>3, <1>4, <1>5, <1>6, <1>7 DEF AccountInv

(* A login reads the oldest membership, which exists.                        *)
LEMMA LoginOK == ASSUME AccountInv, NEW p \in Person, Login(p) PROVE AccountInv'
<1>1. AccountFlat /\ UNCHANGED <<users, tenants, members, invites, keys, acpc, req, current, uses, removed, accountFaults>>
  BY DEF AccountInv, Login, accountRows
<1>2. PICK x : x = GetUserActiveMember(p) OBVIOUS
<1>3. x \in Membership
  <2>1. PICK S : S = {n \in DOMAIN members : members[n].user = p} OBVIOUS
  <2>2. S \subseteq Nat /\ S # {} /\ S \subseteq DOMAIN members
    <3>1. PICK m \in ToSet(members) : m.user = p BY DEF Login, Belongs
    <3> QED BY <2>1, <3>1, <1>1, MembersByNumber
  <2>3. PICK k \in S : \A j \in S : k <= j
    <3>1. PICK z \in S : TRUE BY <2>2
    <3> QED BY <2>2, <3>1, LeastNat
  <2>4. Min(S) \in S BY <2>3 DEF Min
  <2>5. x = members[Min(S)] BY <1>2, <2>1 DEF GetUserActiveMember
  <2> QED BY <2>2, <2>4, <2>5, <1>1, MembersByNumber
<1>4. tokens' \subseteq Membership BY <1>1, <1>2, <1>3 DEF Login, GenerateToken, AccountFlat
<1> QED BY <1>1, <1>4, TokensOnly

(* A refreshed token is of the membership of now.                            *)
LEMMA RefreshTokenOK == ASSUME AccountInv, NEW k \in tokens, RefreshToken(k) PROVE AccountInv'
<1>1. AccountFlat /\ UNCHANGED <<users, tenants, members, invites, keys, acpc, req, current, uses, removed, accountFaults>>
  BY DEF AccountInv, RefreshToken, accountRows
<1>2. PICK m \in ToSet(members) : GenerateToken(m) BY DEF RefreshToken, GetMember
<1>3. m \in Membership BY <1>1, <1>2, MembersByNumber
<1>4. tokens' \subseteq Membership BY <1>1, <1>2, <1>3 DEF GenerateToken, AccountFlat
<1> QED BY <1>1, <1>4, TokensOnly

(* No rows and no requests at first.                                         *)
LEMMA AccountInitOK == AccountInit => AccountInv
<1> SUFFICES ASSUME AccountInit PROVE AccountInv OBVIOUS
<1> USE DEF AccountInit
<1>1. AccountFlat BY AccountBounds DEF AccountFlat, AccountPosition
<1>2. DOMAIN members = {} /\ ToSet(members) = {} BY DEF ToSet
<1>3. OnePerPair /\ RowsRefer /\ OneFounder BY <1>2 DEF OnePerPair, RowsRefer, OneFounder, Founding
<1>4. \A c \in Caller : CallerAt(acpc[c], req[c]) BY DEF CallerAt, Founding, Deciding
<1>5. \A i \in Invite : UsesOK(i)
  <2> SUFFICES ASSUME NEW i \in Invite PROVE UsesOK(i) OBVIOUS
  <2>1. /\ Cardinality(MayUse(i)) \in Nat /\ Cardinality(ToMark(i)) \in Nat /\ Cardinality(Caller) \in Nat
        /\ Cardinality(MayUse(i)) + Cardinality(ToMark(i)) <= Cardinality(Caller) BY HoldersAreFinite
  <2> QED BY <2>1 DEF UsesOK
<1>6. AdmittedIsCurrent /\ EveryUserBelongs BY DEF AdmittedIsCurrent, EveryUserBelongs
<1> QED BY <1>1, <1>3, <1>4, <1>5, <1>6 DEF AccountInv

(* Every step of the accounts keeps the invariant.                           *)
LEMMA AccountStep == AccountInv /\ [AccountNext]_accountVars => AccountInv'
<1> SUFFICES ASSUME AccountInv, [AccountNext]_accountVars PROVE AccountInv' OBVIOUS
<1>1. CASE UNCHANGED accountVars
  <2>1. UNCHANGED <<users, tenants, members, invites, keys, tokens, acpc, req, current, uses, removed, accountFaults>>
    BY <1>1 DEF accountVars, accountRows
  <2>2. tokens' \subseteq Membership BY <2>1 DEF AccountInv, AccountFlat
  <2> QED BY <2>1, <2>2, TokensOnly
<1>2. CASE \E p \in Person : Login(p) BY <1>2, LoginOK
<1>3. CASE \E k \in ParseToken : RefreshToken(k) BY <1>3, RefreshTokenOK DEF ParseToken
<1>4. CASE \E i \in Invite : ExpireInvite(i) BY <1>4, ExpireInviteOK
<1>5. ASSUME NEW c \in Caller, Manage(c) PROVE AccountInv'
  <2>1. CASE \E i \in Invite, p \in Person, role \in OfferedRole : InviteMember(c, i, p, role) BY <2>1, InviteMemberOK
  <2>2. CASE \E p \in Person : RemoveMember(c, p) BY <2>2, RemoveMemberOK
  <2>3. CASE \E p \in Person : \E role \in OfferedRole : UpdateRole(c, p, role) BY <2>3, UpdateRoleOK
  <2>4. CASE \E k \in ApiKey : CreateKey(c, k) BY <2>4, CreateKeyOK
  <2>5. CASE \E k \in ApiKey : RevokeKey(c, k) BY <2>5, RevokeKeyOK
  <2> QED BY <1>5, <2>1, <2>2, <2>3, <2>4, <2>5 DEF Manage
<1>6. ASSUME NEW c \in Caller,
             \/ \E p \in Person : CheckEmail(c, p)
             \/ CreateUser(c, "user", "tenant") \/ CreateTenant(c) \/ AddOwner(c)
             \/ \E i \in Invite : ReadInvite(c, i)
             \/ FindInvited(c) \/ CreateUser(c, "new", "join") \/ Join(c) \/ SpendInvite(c)
             \/ \E k \in ParseToken : AdmitToken(c, k)
             \/ \E k \in ApiKey : AdmitKey(c, k)
             \/ LoseRequest(c)
      PROVE  AccountInv'
  <2>1. CASE \E p \in Person : CheckEmail(c, p) BY <2>1, CheckEmailOK
  <2>2. CASE CreateUser(c, "user", "tenant") BY <2>2, CreateUserOK
  <2>3. CASE CreateTenant(c) BY <2>3, CreateTenantOK
  <2>4. CASE AddOwner(c) BY <2>4, AddOwnerOK
  <2>5. CASE \E i \in Invite : ReadInvite(c, i) BY <2>5, ReadInviteOK
  <2>6. CASE FindInvited(c) BY <2>6, FindInvitedOK
  <2>7. CASE CreateUser(c, "new", "join") BY <2>7, CreateUserOK
  <2>8. CASE Join(c) BY <2>8, JoinOK
  <2>9. CASE SpendInvite(c) BY <2>9, SpendInviteOK
  <2>10. CASE \E k \in ParseToken : AdmitToken(c, k) BY <2>10, AdmitTokenOK DEF ParseToken
  <2>11. CASE \E k \in ApiKey : AdmitKey(c, k) BY <2>11, AdmitKeyOK
  <2>12. CASE LoseRequest(c) BY <2>12, LoseRequestOK
  <2> QED BY <1>6, <2>1, <2>2, <2>3, <2>4, <2>5, <2>6, <2>7, <2>8, <2>9, <2>10, <2>11, <2>12
<1> QED BY <1>1, <1>2, <1>3, <1>4, <1>5, <1>6 DEF AccountNext

(* The invariant implies the property: a pair has one row, so the rows are   *)
(* distinct and a lookup finds one.                                          *)
LEMMA AccountInvIsSafe == AccountInv => AccountSafe
<1> SUFFICES ASSUME AccountInv PROVE AccountSafe OBVIOUS
<1>1. AccountFlat /\ OnePerPair /\ RowsRefer BY DEF AccountInv
<1>2. IsInjective(members) BY <1>1 DEF IsInjective, OnePerPair
<1>3. ToSet(members) \subseteq Membership BY <1>1, MembersByNumber
<1>4. ASSUME NEW m \in ToSet(members)
      PROVE  m.tenant \in tenants /\ m.user \in users /\ GetMember(m.tenant, m.user) = {m}
  <2>1. PICK n \in DOMAIN members : members[n] = m BY <1>1, MembersByNumber
  <2>2. m.tenant \in tenants /\ m.user \in users BY <2>1, <1>1 DEF RowsRefer, Founded
  <2>3. ASSUME NEW x \in ToSet(members), x.tenant = m.tenant, x.user = m.user PROVE x = m
    <3>1. PICK k \in DOMAIN members : members[k] = x BY <1>1, MembersByNumber
    <3>2. k = n BY <2>1, <2>3, <3>1, <1>1 DEF OnePerPair
    <3> QED BY <2>1, <3>1, <3>2
  <2> QED BY <2>2, <2>3 DEF GetMember
<1>5. AccountTypeOK BY <1>1, <1>2, <1>3, <1>4 DEF AccountTypeOK, AccountFlat, AccountPosition
<1>6. InviteUsesBounded
  <2> SUFFICES ASSUME NEW i \in Invite PROVE uses[i] <= Cardinality(Caller) + accountFaults BY DEF InviteUsesBounded
  <2>1. uses[i] + Cardinality(MayUse(i)) <= Cardinality(Caller) + accountFaults BY DEF AccountInv, UsesOK
  <2>2. Cardinality(MayUse(i)) \in Nat /\ Cardinality(Caller) \in Nat BY HoldersAreFinite
  <2>3. uses[i] \in Nat /\ accountFaults \in Nat BY <1>1, AccountBounds DEF AccountFlat
  <2> QED BY <2>1, <2>2, <2>3
<1> QED BY <1>5, <1>6 DEF AccountSafe, AccountInv

(* Requests act for current members and keys, an invitation gives no more    *)
(* memberships than requests overlap and faults occur, and a user belongs    *)
(* to a tenant unless a step failed, for any number of users, tenants and    *)
(* requests (AuthMiddleware, AcceptInvite, Register).                        *)
THEOREM AccountsAreSafe == AccountSpec => []AccountSafe
<1>1. AccountInit => AccountInv BY AccountInitOK
<1>2. AccountInv /\ [AccountNext]_accountVars => AccountInv' BY AccountStep
<1>3. AccountInv => AccountSafe BY AccountInvIsSafe
<1> QED BY <1>1, <1>2, <1>3, PTL DEF AccountSpec

(* What AcceptInvite means by "already used" holds of requests served one    *)
(* after the other: without faults an invitation then gives one membership.  *)
THEOREM SerialInvitesAreUsedOnce ==
  ASSUME Cardinality(Caller) = 1
  PROVE  AccountSpec => []InviteUsedOnce
<1>1. AccountSafe => InviteUsedOnce
  <2> SUFFICES ASSUME AccountSafe, accountFaults = 0, NEW i \in Invite PROVE uses[i] <= 1 BY DEF InviteUsedOnce
  <2>1. uses[i] <= Cardinality(Caller) + accountFaults BY DEF AccountSafe, InviteUsesBounded
  <2> QED BY <2>1
<1> QED BY <1>1, AccountsAreSafe, PTL

-----------------------------------------------------------------------------
(***************************************************************************)
(* Screening.  A request that passes the burst rule has seen fewer than    *)
(* MaxTransfers rows in the window; from then on the rows cleared in the   *)
(* window and the requests whose cleared row is still to come are counted  *)
(* together.                                                               *)
(***************************************************************************)
USE VelocityBounds

(* Division of natural numbers, as the provers know it.                      *)
LEMMA DivisionBounds ==
  ASSUME NEW a \in Nat, NEW u \in Nat \ {0}
  PROVE  a \div u \in Nat /\ (a \div u) * u <= a /\ a < (a \div u + 1) * u
  OBVIOUS

(* No other quotient has its bounds.                                         *)
LEMMA DivisionIsUnique ==
  ASSUME NEW a \in Nat, NEW u \in Nat \ {0}, NEW k \in Nat, k * u <= a, a < (k + 1) * u
  PROVE  a \div u = k
  OBVIOUS

(* The next round amount above a total is the only multiple of the unit that *)
(* is above it and at most one unit away.                                    *)
LEMMA StructuringFound == StructuringIsJustUnder
<1> DEFINE u == StructuringUnit
           tol == TolerancePercent
<1> SUFFICES ASSUME NEW total \in 1..(2 * u)
             PROVE  IsStructuring(total) <=>
                      \E k \in 1..3 : /\ k * u > total /\ (k - 1) * u <= total
                                      /\ (k * u - total) * 100 <= tol * k * u
  BY DEF StructuringIsJustUnder
<1>1. u \in Nat \ {0} /\ tol \in Nat /\ total \in Nat \ {0} OBVIOUS
<1> DEFINE d == total \div u
<1>2. IsStructuring(total) <=> ((d + 1) * u - total) * 100 <= tol * ((d + 1) * u) BY <1>1 DEF IsStructuring
<1> HIDE DEF u, tol
<1>3. d \in Nat /\ d * u <= total /\ total < (d + 1) * u BY <1>1, DivisionBounds
<1>4. \A k \in 1..3 : (k * u > total /\ (k - 1) * u <= total) => d = k - 1
  <2> SUFFICES ASSUME NEW k \in 1..3, k * u > total, (k - 1) * u <= total PROVE d = k - 1 OBVIOUS
  <2>1. k - 1 \in Nat /\ (k - 1) + 1 = k OBVIOUS
  <2> QED BY <2>1, <1>1, DivisionIsUnique
<1>5. d \in 0..2
  <2>1. total <= 2 * u BY DEF u
  <2>2. CASE d >= 3
    <3>1. d * u >= 3 * u BY <2>2, <1>1, <1>3
    <3> QED BY <2>1, <3>1, <1>1, <1>3
  <2> QED BY <2>2, <1>3
<1> HIDE DEF d
<1>6. \A k \in 1..3 : tol * k * u = tol * (k * u) BY <1>1
<1>7. d + 1 \in 1..3 /\ (d + 1) - 1 = d BY <1>5
<1>8. ASSUME IsStructuring(total)
      PROVE  \E k \in 1..3 : /\ k * u > total /\ (k - 1) * u <= total /\ (k * u - total) * 100 <= tol * k * u
  <2>1. (d + 1) * u > total /\ ((d + 1) - 1) * u <= total /\ ((d + 1) * u - total) * 100 <= tol * (d + 1) * u
    BY <1>1, <1>2, <1>3, <1>6, <1>7, <1>8
  <2> QED BY <1>7, <2>1
<1>9. ASSUME NEW k \in 1..3, k * u > total, (k - 1) * u <= total, (k * u - total) * 100 <= tol * k * u
      PROVE  IsStructuring(total)
  <2>1. d + 1 = k BY <1>4, <1>9
  <2>2. ((d + 1) * u - total) * 100 <= tol * ((d + 1) * u) BY <2>1, <1>6, <1>9
  <2> QED BY <2>2, <1>2
<1> QED BY <1>8, <1>9 DEF u, tol

(* A request that asked for something; a transfer between two customers; and *)
(* the requests a row may still come from that the burst rule let pass.      *)
AskedOne(q) == vpc[q] # "idle" => \E r \in TransferRequest : asked[q] = {r}
Passed == {q \in Requester : vpc[q] = "clear" /\ \E r \in asked[q] : ~Exempt(r)}

(* Whoever passes the rule saw fewer than MaxTransfers rows, so that what is *)
(* cleared and what may still be cleared never grow past the bound together. *)
VelocityInv ==
  /\ VelocityTypeOK
  /\ \A q \in Requester : AskedOne(q)
  /\ Cardinality(ClearedInWindow) + Cardinality(Passed) <= MaxTransfers - 1 + Cardinality(Requester)

(* The sets that the rule and the bound count are finite.                    *)
LEMMA WindowIsFinite ==
  ASSUME VelocityTypeOK
  PROVE  /\ InWindow(0) \subseteq 1..Len(rows) /\ IsFiniteSet(InWindow(0)) /\ Cardinality(InWindow(0)) \in Nat
         /\ IsFiniteSet(ClearedInWindow) /\ Cardinality(ClearedInWindow) \in Nat
         /\ Cardinality(ClearedInWindow) <= Cardinality(InWindow(0))
<1>1. Len(rows) \in Nat /\ DOMAIN rows = 1..Len(rows) BY DEF VelocityTypeOK
<1>2. IsFiniteSet(1..Len(rows)) BY <1>1, FS_Interval
<1>3. InWindow(0) \in SUBSET (1..Len(rows)) BY <1>1 DEF InWindow
<1>4. IsFiniteSet(InWindow(0)) BY <1>2, <1>3, FS_Subset
<1>5. ClearedInWindow \in SUBSET InWindow(0) BY DEF ClearedInWindow
<1>6. IsFiniteSet(ClearedInWindow) /\ Cardinality(ClearedInWindow) <= Cardinality(InWindow(0)) BY <1>4, <1>5, FS_Subset
<1> QED BY <1>3, <1>4, <1>6, FS_CardinalityType

(* So are the requests that passed.                                          *)
LEMMA PassedIsFinite ==
  /\ IsFiniteSet(Passed) /\ Cardinality(Passed) \in Nat /\ Cardinality(Passed) <= Cardinality(Requester)
  /\ Cardinality(Requester) \in Nat
<1>1. Passed \in SUBSET Requester BY DEF Passed
<1>2. IsFiniteSet(Passed) /\ Cardinality(Passed) <= Cardinality(Requester) BY <1>1, FS_Subset
<1> QED BY <1>2, FS_CardinalityType

(* The bound stays when no more is cleared and nobody new passes.            *)
LEMMA BoundKept ==
  ASSUME VelocityInv, VelocityTypeOK', Cardinality(ClearedInWindow') <= Cardinality(ClearedInWindow), Passed' \subseteq Passed
  PROVE  Cardinality(ClearedInWindow') + Cardinality(Passed') <= MaxTransfers - 1 + Cardinality(Requester)
<1>1. Cardinality(ClearedInWindow) \in Nat BY WindowIsFinite DEF VelocityInv
<1>2. IsFiniteSet(Passed) /\ Cardinality(Passed) \in Nat /\ Cardinality(Requester) \in Nat BY PassedIsFinite
<1>3. IsFiniteSet(Passed') /\ Cardinality(Passed') <= Cardinality(Passed) BY <1>2, FS_Subset
<1>4. Cardinality(Passed') \in Nat BY <1>3, FS_CardinalityType
<1>5. Cardinality(ClearedInWindow') \in Nat
  <2>1. IsFiniteSet(ClearedInWindow')
    <3>1. Len(rows') \in Nat /\ DOMAIN rows' = 1..Len(rows') BY DEF VelocityTypeOK
    <3>2. IsFiniteSet(1..Len(rows')) BY <3>1, FS_Interval
    <3>3. ClearedInWindow' \in SUBSET (1..Len(rows')) BY <3>1 DEF ClearedInWindow, InWindow
    <3> QED BY <3>2, <3>3, FS_Subset
  <2> QED BY <2>1, FS_CardinalityType
<1> QED BY <1>1, <1>2, <1>3, <1>4, <1>5 DEF VelocityInv

(* ScreenTransfer: who is cleared between two customers has counted fewer    *)
(* than MaxTransfers rows.                                                   *)
LEMMA ScreenTransferOK == ASSUME VelocityInv, NEW q \in Requester, ScreenTransfer(q) PROVE VelocityInv'
<1>1. VelocityTypeOK /\ vpc[q] = "idle" /\ rows' = rows BY DEF VelocityInv, ScreenTransfer
<1>2. PICK r \in TransferRequest, sanctions \in {"clear", "hold", "blocked", "error"} :
      \E velocity \in {VelocityVerdict(r)} \cup (IF Exempt(r) THEN {} ELSE {"error"}) :
        /\ Composite({sanctions, velocity}) # "blocked"
        /\ vpc' = [vpc EXCEPT ![q] = Composite({sanctions, velocity})] /\ asked' = [asked EXCEPT ![q] = {r}]
  BY DEF ScreenTransfer
<1>3. PICK velocity \in {VelocityVerdict(r)} \cup (IF Exempt(r) THEN {} ELSE {"error"}) :
        /\ Composite({sanctions, velocity}) # "blocked"
        /\ vpc' = [vpc EXCEPT ![q] = Composite({sanctions, velocity})] /\ asked' = [asked EXCEPT ![q] = {r}]
  BY <1>2
<1> DEFINE decision == Composite({sanctions, velocity})
<1>4. decision \in {"clear", "hold"} BY <1>3 DEF Composite
<1>5. decision = "clear" => velocity = VelocityVerdict(r) /\ velocity # "hold" BY <1>3 DEF Composite
<1> HIDE DEF decision
<1>6. vpc' = [vpc EXCEPT ![q] = decision] BY <1>3 DEF decision
<1>7. VelocityTypeOK' BY <1>1, <1>3, <1>4, <1>6 DEF VelocityTypeOK
<1>8. \A p \in Requester : AskedOne(p)'
  BY <1>1, <1>3, <1>6 DEF VelocityInv, AskedOne, VelocityTypeOK
<1>9. InWindow(0)' = InWindow(0) /\ ClearedInWindow' = ClearedInWindow BY <1>1 DEF ClearedInWindow, InWindow
<1>10. CASE decision = "clear" /\ ~Exempt(r)
  <2>1. ~Burst(CountTransfersByOrg) BY <1>5, <1>10 DEF VelocityVerdict
  <2>2. Cardinality(InWindow(0)) <= MaxTransfers - 1 /\ Cardinality(InWindow(0)) \in Nat
        /\ Cardinality(ClearedInWindow) <= Cardinality(InWindow(0)) /\ Cardinality(ClearedInWindow) \in Nat
    BY <2>1, <1>1, WindowIsFinite DEF Burst, CountTransfersByOrg
  <2>3. Passed' \in SUBSET Requester BY DEF Passed
  <2>4. Cardinality(Passed') <= Cardinality(Requester) /\ IsFiniteSet(Passed') BY <2>3, FS_Subset
  <2>5. Cardinality(Passed') \in Nat /\ Cardinality(Requester) \in Nat BY <2>4, FS_CardinalityType
  <2> QED BY <1>7, <1>8, <1>9, <2>2, <2>4, <2>5 DEF VelocityInv
<1>11. CASE ~(decision = "clear" /\ ~Exempt(r))
  <2>1. \A p \in Requester \ {q} : vpc'[p] = vpc[p] /\ asked'[p] = asked[p] BY <1>1, <1>3, <1>6 DEF VelocityTypeOK
  <2>2. vpc'[q] = decision /\ asked'[q] = {r} BY <1>1, <1>3, <1>6 DEF VelocityTypeOK
  <2>3. Passed' \subseteq Passed BY <2>1, <2>2, <1>11 DEF Passed, Exempt
  <2>4. Cardinality(ClearedInWindow') <= Cardinality(ClearedInWindow) BY <1>1, <1>9, WindowIsFinite
  <2> QED BY <1>7, <1>8, <2>3, <2>4, BoundKept DEF VelocityInv
<1> QED BY <1>10, <1>11

(* InsertScreened: the request leaves the ones that passed as its row joins  *)
(* the cleared ones.                                                         *)
LEMMA InsertScreenedOK == ASSUME VelocityInv, NEW q \in Requester, InsertScreened(q) PROVE VelocityInv'
<1> DEFINE n == Len(rows)
<1>1. VelocityTypeOK /\ vpc[q] # "idle" /\ vpc' = [vpc EXCEPT ![q] = "idle"] /\ asked' = [asked EXCEPT ![q] = {}] /\ n < MaxRows
  BY DEF VelocityInv, InsertScreened
<1>2. PICK r \in asked[q] :
       rows' = Append(rows, [route |-> r.route, amount |-> r.amount, age |-> 0,
                             status |-> IF vpc[q] = "hold" THEN "compliance_hold" ELSE "pending",
                             cleared |-> vpc[q] = "clear"])
  BY DEF InsertScreened
<1>3. asked[q] = {r} /\ r \in TransferRequest BY <1>1, <1>2 DEF VelocityInv, AskedOne
<1> DEFINE row == [route |-> r.route, amount |-> r.amount, age |-> 0,
                   status |-> IF vpc[q] = "hold" THEN "compliance_hold" ELSE "pending",
                   cleared |-> vpc[q] = "clear"]
<1>4. row \in RowOf BY <1>3 DEF RowOf, TransferRequest, Age
<1>5. row.route = r.route /\ row.age = 0 /\ row.cleared = (vpc[q] = "clear") OBVIOUS
<1> HIDE DEF row
<1>6. rows' = Append(rows, row) BY <1>2 DEF row
<1>7. n \in Nat /\ DOMAIN rows = 1..n /\ rows \in Seq(RowOf) BY <1>1 DEF VelocityTypeOK
<1>8. /\ rows' \in Seq(RowOf) /\ Len(rows') = n + 1 /\ DOMAIN rows' = 1..(n + 1) /\ rows'[n + 1] = row
      /\ \A i \in 1..n : rows'[i] = rows[i]
  BY <1>4, <1>6, <1>7
<1> HIDE DEF n
<1>9. VelocityTypeOK'
  <2>1. \A i \in 1..n : rows[i] \in RowOf /\ rows[i].age >= 0
    <3>1. \A i \in 1..n : rows[i] \in RowOf BY <1>7
    <3> QED BY <3>1 DEF RowOf, Age
  <2>2. \A i, j \in DOMAIN rows' : i < j => rows'[i].age >= rows'[j].age
    <3> SUFFICES ASSUME NEW i \in 1..(n + 1), NEW j \in 1..(n + 1), i < j PROVE rows'[i].age >= rows'[j].age BY <1>8
    <3>1. i \in 1..n BY <1>7
    <3>2. CASE j = n + 1 BY <3>1, <3>2, <2>1, <1>5, <1>8
    <3>3. CASE j # n + 1
      <4>1. j \in 1..n BY <3>3, <1>7
      <4> QED BY <3>1, <4>1, <1>1, <1>7, <1>8 DEF VelocityTypeOK
    <3> QED BY <3>2, <3>3
  <2>3. Len(rows') <= MaxRows BY <1>1, <1>7, <1>8 DEF n
  <2> QED BY <1>1, <1>8, <2>2, <2>3 DEF VelocityTypeOK
<1>10. /\ vpc'[q] = "idle" /\ \A p \in Requester \ {q} : vpc'[p] = vpc[p] /\ asked'[p] = asked[p]
  BY <1>1 DEF VelocityTypeOK
<1>11. \A p \in Requester : AskedOne(p)' BY <1>10 DEF VelocityInv, AskedOne
<1>12. Passed' = Passed \ {q} BY <1>10 DEF Passed, Exempt
<1>13. q \in Passed <=> (row.cleared /\ ~Exempt(row)) BY <1>3, <1>5 DEF Passed, Exempt
<1>14. ClearedInWindow' \subseteq (IF q \in Passed THEN ClearedInWindow \cup {n + 1} ELSE ClearedInWindow)
  <2> SUFFICES ASSUME NEW i \in ClearedInWindow' PROVE i \in ClearedInWindow \/ (q \in Passed /\ i = n + 1) OBVIOUS
  <2>1. i \in 1..(n + 1) /\ rows'[i].age <= 0 /\ rows'[i].cleared /\ ~Exempt(rows'[i])
    BY <1>8 DEF ClearedInWindow, InWindow, Exempt
  <2>2. CASE i = n + 1 BY <2>1, <2>2, <1>8, <1>13
  <2>3. CASE i # n + 1
    <3>1. i \in 1..n /\ rows'[i] = rows[i] BY <2>1, <2>3, <1>7, <1>8
    <3> QED BY <2>1, <3>1, <1>7 DEF ClearedInWindow, InWindow
  <2> QED BY <2>2, <2>3
<1>15. IsFiniteSet(ClearedInWindow) /\ Cardinality(ClearedInWindow) \in Nat BY <1>1, WindowIsFinite
<1>16. CASE q \notin Passed
  <2>1. ClearedInWindow' \subseteq ClearedInWindow BY <1>14, <1>16
  <2>2. Cardinality(ClearedInWindow') <= Cardinality(ClearedInWindow) BY <2>1, <1>15, FS_Subset
  <2> QED BY <1>9, <1>11, <1>12, <2>2, BoundKept DEF VelocityInv
<1>17. CASE q \in Passed
  <2> DEFINE C == ClearedInWindow \cup {n + 1}
  <2>1. IsFiniteSet(C) /\ Cardinality(C) <= Cardinality(ClearedInWindow) + 1
    <3>1. IsFiniteSet(C) /\ Cardinality(C) = IF n + 1 \in ClearedInWindow THEN Cardinality(ClearedInWindow)
                                                                          ELSE Cardinality(ClearedInWindow) + 1
      BY <1>15, FS_AddElement
    <3> QED BY <1>15, <3>1
  <2>2. ClearedInWindow' \in SUBSET C BY <1>14, <1>17
  <2> HIDE DEF C
  <2>3. IsFiniteSet(ClearedInWindow') /\ Cardinality(ClearedInWindow') <= Cardinality(C) BY <2>1, <2>2, FS_Subset
  <2>4. Cardinality(ClearedInWindow') \in Nat /\ Cardinality(C) \in Nat BY <2>1, <2>3, FS_CardinalityType
  <2>5. IsFiniteSet(Passed) /\ Cardinality(Passed) \in Nat /\ Cardinality(Requester) \in Nat BY PassedIsFinite
  <2>6. Cardinality(Passed') = Cardinality(Passed) - 1 BY <1>12, <1>17, <2>5, FS_RemoveElement
  <2> QED BY <1>9, <1>11, <1>15, <2>1, <2>3, <2>4, <2>5, <2>6 DEF VelocityInv
<1> QED BY <1>16, <1>17

(* Rows moved by a review or a settlement stay as they were cleared.         *)
LEMMA RowMovesOK == ASSUME VelocityInv, RowMoves PROVE VelocityInv'
<1>1. VelocityTypeOK /\ UNCHANGED <<vpc, asked>> BY DEF VelocityInv, RowMoves
<1>2. PICK i \in DOMAIN rows, s \in {"pending", "failed"} : rows' = [rows EXCEPT ![i].status = s] BY DEF RowMoves
<1> DEFINE row == [rows[i] EXCEPT !.status = s]
<1>3. rows \in Seq(RowOf) BY <1>1 DEF VelocityTypeOK
<1>4. rows[i] \in RowOf BY <1>2, <1>3
<1>5. /\ row \in RowOf /\ row.route = rows[i].route /\ row.age = rows[i].age /\ row.cleared = rows[i].cleared
  BY <1>4 DEF RowOf
<1> HIDE DEF row
<1>6. rows' = [rows EXCEPT ![i] = row] BY <1>2 DEF row
<1>7. rows' \in Seq(RowOf) /\ Len(rows') = Len(rows) /\ DOMAIN rows' = DOMAIN rows
  BY <1>2, <1>3, <1>5, <1>6, ExceptSeq
<1>8. \A j \in DOMAIN rows : rows'[j].age = rows[j].age /\ rows'[j].cleared = rows[j].cleared /\ rows'[j].route = rows[j].route
  BY <1>2, <1>5, <1>6, <1>3
<1>9. VelocityTypeOK' BY <1>1, <1>7, <1>8 DEF VelocityTypeOK
<1>10. ClearedInWindow' = ClearedInWindow BY <1>7, <1>8 DEF ClearedInWindow, InWindow, Exempt
<1>11. Passed' = Passed /\ \A q \in Requester : AskedOne(q)' BY <1>1 DEF Passed, Exempt, AskedOne, VelocityInv
<1> QED BY <1>9, <1>10, <1>11 DEF VelocityInv

(* As time passes rows only leave the window; when the oldest is forgotten   *)
(* the others keep their order.                                              *)
LEMMA TimePassesOK == ASSUME VelocityInv, TimePasses PROVE VelocityInv'
<1> DEFINE n == Len(rows)
<1>1. VelocityTypeOK /\ UNCHANGED <<vpc, asked>> BY DEF VelocityInv, TimePasses
<1>2. PICK i \in DOMAIN rows :
       /\ \A j \in 1..(i-1) : rows[j].age > rows[i].age
       /\ rows' = IF rows[i].age = 2 THEN Tail(rows) ELSE [rows EXCEPT ![i].age = rows[i].age + 1]
  BY DEF TimePasses
<1>3. rows \in Seq(RowOf) /\ n \in Nat /\ DOMAIN rows = 1..n /\ n <= MaxRows BY <1>1 DEF VelocityTypeOK
<1>4. \A j \in 1..n : rows[j] \in RowOf /\ rows[j].age \in 0..2
  <2>1. \A j \in 1..n : rows[j] \in RowOf BY <1>3
  <2> QED BY <2>1 DEF RowOf, Age
<1>5. \A j, k \in 1..n : j < k => rows[j].age >= rows[k].age BY <1>1, <1>3 DEF VelocityTypeOK
<1>6. Passed' = Passed /\ \A q \in Requester : AskedOne(q)' BY <1>1 DEF Passed, Exempt, AskedOne, VelocityInv
<1>7. IsFiniteSet(ClearedInWindow) /\ Cardinality(ClearedInWindow) \in Nat BY <1>1, WindowIsFinite
<1> HIDE DEF n
<1>8. CASE rows[i].age = 2
  <2>1. rows' = Tail(rows) /\ n # 0 BY <1>2, <1>3, <1>8
  <2>2. /\ rows' \in Seq(RowOf) /\ Len(rows') = n - 1 /\ DOMAIN rows' = 1..(n - 1)
        /\ \A j \in 1..(n - 1) : rows'[j] = rows[j + 1]
    BY <2>1, <1>3 DEF n
  <2>3. \A j, k \in 1..(n - 1) : j < k => rows'[j].age >= rows'[k].age
    <3> SUFFICES ASSUME NEW j \in 1..(n - 1), NEW k \in 1..(n - 1), j < k PROVE rows'[j].age >= rows'[k].age OBVIOUS
    <3>1. j + 1 \in 1..n /\ k + 1 \in 1..n /\ j + 1 < k + 1 BY <1>3
    <3> QED BY <3>1, <2>2, <1>5
  <2>4. VelocityTypeOK' BY <1>1, <1>3, <2>2, <2>3, SMTT(60) DEF VelocityTypeOK
  <2> DEFINE f == [j \in ClearedInWindow' |-> j + 1]
  <2>5. \A j \in ClearedInWindow' : j \in Nat /\ j + 1 \in ClearedInWindow
    <3> SUFFICES ASSUME NEW j \in ClearedInWindow' PROVE j \in Nat /\ j + 1 \in ClearedInWindow OBVIOUS
    <3>1. j \in 1..(n - 1) /\ rows'[j].age <= 0 /\ rows'[j].cleared /\ ~Exempt(rows'[j])
      BY <2>2 DEF ClearedInWindow, InWindow, Exempt
    <3>2. j + 1 \in 1..n /\ rows'[j] = rows[j + 1] BY <3>1, <2>2, <1>3
    <3> QED BY <3>1, <3>2, <1>3 DEF ClearedInWindow, InWindow
  <2>6. f \in [ClearedInWindow' -> ClearedInWindow] /\ \A j, k \in ClearedInWindow' : f[j] = f[k] => j = k BY <2>5
  <2> HIDE DEF f
  <2>7. f \in Injection(ClearedInWindow', ClearedInWindow) BY <2>6 DEF Injection, IsInjective
  <2>8. Cardinality(ClearedInWindow') <= Cardinality(ClearedInWindow) BY <2>7, <1>7, FS_Injection
  <2> QED BY <1>6, <2>4, <2>8, BoundKept DEF VelocityInv
<1>9. CASE rows[i].age # 2
  <2> DEFINE row == [rows[i] EXCEPT !.age = rows[i].age + 1]
  <2>1. rows[i].age + 1 \in 0..2 /\ rows[i] \in RowOf BY <1>2, <1>3, <1>4, <1>9
  <2>2. /\ row \in RowOf /\ row.age = rows[i].age + 1 /\ row.route = rows[i].route /\ row.cleared = rows[i].cleared
    BY <2>1 DEF RowOf, Age
  <2> HIDE DEF row
  <2>3. rows' = [rows EXCEPT ![i] = row] BY <1>2, <1>9 DEF row
  <2>4. rows' \in Seq(RowOf) /\ Len(rows') = Len(rows) /\ DOMAIN rows' = 1..n
    BY <1>2, <1>3, <2>2, <2>3, ExceptSeq
  <2>5. rows'[i] = row /\ \A j \in 1..n \ {i} : rows'[j] = rows[j] BY <1>2, <1>3, <2>3
  <2>6. \A j, k \in 1..n : j < k => rows'[j].age >= rows'[k].age
    <3> SUFFICES ASSUME NEW j \in 1..n, NEW k \in 1..n, j < k PROVE rows'[j].age >= rows'[k].age OBVIOUS
    <3>1. rows[j].age \in 0..2 /\ rows[k].age \in 0..2 /\ rows[j].age >= rows[k].age BY <1>4, <1>5
    <3>2. CASE j = i BY <3>1, <3>2, <2>2, <2>5
    <3>3. CASE k = i
      <4>1. j \in 1..(i - 1) BY <3>3, <1>3
      <4>2. rows[j].age > rows[i].age BY <4>1, <1>2
      <4> QED BY <3>1, <3>3, <4>2, <2>2, <2>5
    <3>4. CASE j # i /\ k # i BY <3>1, <3>4, <2>5
    <3> QED BY <3>2, <3>3, <3>4
  <2>7. VelocityTypeOK' BY <1>1, <1>3, <2>4, <2>6 DEF VelocityTypeOK
  <2>8. ClearedInWindow' \subseteq ClearedInWindow
    <3> SUFFICES ASSUME NEW j \in ClearedInWindow' PROVE j \in ClearedInWindow OBVIOUS
    <3>1. j \in 1..n /\ rows'[j].age <= 0 /\ rows'[j].cleared /\ ~Exempt(rows'[j])
      BY <2>4 DEF ClearedInWindow, InWindow, Exempt
    <3>2. j # i
      <4>1. i \in 1..n BY <1>2, <1>3
      <4>2. rows'[i].age = rows[i].age + 1 /\ rows[i].age \in 0..2 BY <4>1, <1>4, <2>2, <2>5
      <4> QED BY <3>1, <4>2
    <3> QED BY <3>1, <3>2, <2>5, <1>3 DEF ClearedInWindow, InWindow
  <2>9. Cardinality(ClearedInWindow') <= Cardinality(ClearedInWindow) BY <2>8, <1>7, FS_Subset
  <2> QED BY <1>6, <2>7, <2>9, BoundKept DEF VelocityInv
<1> QED BY <1>8, <1>9

(* Any number of requests of one organisation screened at the same time pass *)
(* the burst rule by no more than their number, and isStructuring finds the  *)
(* totals just under a round amount, for every unit and tolerance            *)
(* (VelocityScreener.Screen).                                                *)
THEOREM ScreeningIsSafe == VelocitySpec => []VelocitySafe
<1>1. VelocityInit => VelocityInv
  <2> SUFFICES ASSUME VelocityInit PROVE VelocityInv OBVIOUS
  <2>1. DOMAIN rows = {} /\ Len(rows) = 0 /\ rows \in Seq(RowOf)
    <3>1. rows = <<>> BY DEF VelocityInit
    <3> QED BY <3>1
  <2>2. VelocityTypeOK BY <2>1 DEF VelocityInit, VelocityTypeOK
  <2>3. ClearedInWindow = {} /\ Passed = {} BY <2>1 DEF VelocityInit, ClearedInWindow, InWindow, Passed
  <2>4. Cardinality({}) = 0 BY FS_EmptySet
  <2>5. Cardinality(Requester) \in Nat BY PassedIsFinite
  <2>6. \A q \in Requester : AskedOne(q) BY DEF VelocityInit, AskedOne
  <2> QED BY <2>2, <2>3, <2>4, <2>5, <2>6 DEF VelocityInv
<1>2. VelocityInv /\ [VelocityNext]_velocityVars => VelocityInv'
  <2> SUFFICES ASSUME VelocityInv, [VelocityNext]_velocityVars PROVE VelocityInv' OBVIOUS
  <2>1. CASE VelocityNext BY <2>1, ScreenTransferOK, InsertScreenedOK, RowMovesOK, TimePassesOK DEF VelocityNext
  <2>2. CASE UNCHANGED velocityVars
    BY <2>2 DEF velocityVars, VelocityInv, VelocityTypeOK, AskedOne, ClearedInWindow, InWindow, Passed, Exempt
  <2> QED BY <2>1, <2>2
<1>3. VelocityInv => VelocitySafe
  <2> SUFFICES ASSUME VelocityInv PROVE VelocitySafe OBVIOUS
  <2>1. Cardinality(ClearedInWindow) \in Nat BY WindowIsFinite DEF VelocityInv
  <2>2. Cardinality(Passed) \in Nat /\ Cardinality(Requester) \in Nat BY PassedIsFinite
  <2>3. BurstBounded BY <2>1, <2>2 DEF VelocityInv, BurstBounded
  <2> QED BY <2>3, StructuringFound DEF VelocityInv, VelocitySafe
<1> QED BY <1>1, <1>2, <1>3, PTL DEF VelocitySpec

(* What velocity.go:15 says of the burst rule holds of requests screened one *)
(* after the other: no more than MaxTransfers are cleared in a window.       *)
THEOREM SerialBurstsAreHeld ==
  ASSUME Cardinality(Requester) = 1
  PROVE  VelocitySpec => []BurstIsHeld
<1>1. VelocitySafe => BurstIsHeld
  <2> SUFFICES ASSUME VelocitySafe PROVE BurstIsHeld OBVIOUS
  <2>1. Cardinality(ClearedInWindow) <= MaxTransfers - 1 + Cardinality(Requester) BY DEF VelocitySafe, BurstBounded
  <2>2. MaxTransfers \in Nat BY VelocityBounds
  <2>3. MaxTransfers - 1 + Cardinality(Requester) = MaxTransfers BY <2>2
  <2> QED BY <2>1, <2>3 DEF BurstIsHeld
<1> QED BY <1>1, ScreeningIsSafe, PTL

-----------------------------------------------------------------------------
(* Idempotency keys.  The invariant behind all of it is Ownership: whoever   *)
(* is in the handler inserted the row of its key, and that row is live.      *)

USE NobodyIsNoRequest, ChecksIsBoolean, ExpiriesIsNat DEF vars, request

(* No record and no request at first.                                        *)
LEMMA TypeInit == Init => TypeOK
  BY DEF Init, TypeOK, Row, NoRow, AnswerSet, Unanswered, Answer, Acquiring, Running

(* Every step keeps the types.                                               *)
LEMMA TypeStep == TypeOK /\ [Next]_vars => TypeOK'
<1> SUFFICES ASSUME TypeOK, [Next]_vars PROVE TypeOK'
  OBVIOUS
<1>1. ASSUME NEW r \in Request, Arrive(r) PROVE TypeOK'
  BY <1>1 DEF TypeOK, Arrive, Goto, Acquiring, Running
<1>2. ASSUME NEW r \in Request, Acquire(r) PROVE TypeOK'
  <2>1. NewRow(r) \in Row
    BY DEF NewRow, Row, TypeOK
  <2>2. rec' \in [Key -> Row]
    BY <1>2, <2>1 DEF TypeOK, Acquire, InsertIfAbsent, Conflict, K
  <2>3. /\ pc' \in [Request -> {"idle", "done", "gone"} \cup Acquiring \cup Running]
        /\ \A q \in Request : q # r => pc'[q] = pc[q]
    BY <1>2 DEF TypeOK, Acquire, InsertIfAbsent, Conflict, Handler, Goto, Acquiring, Running
  <2>4. pc[r] \notin {"reading", "rereading"}
    BY <1>2 DEF Acquire
  <2> QED
    BY <1>2, <2>2, <2>3, <2>4 DEF TypeOK, Acquire
<1>3. ASSUME NEW r \in Request, LookupFinds(r) PROVE TypeOK'
  BY <1>3 DEF TypeOK, LookupFinds, Visible, Goto, Acquiring, Running, K
<1>4. ASSUME NEW r \in Request, LookupMisses(r) PROVE TypeOK'
  BY <1>4 DEF TypeOK, LookupMisses, Goto, Acquiring, Running
<1>5. ASSUME NEW r \in Request, RelookupMisses(r) PROVE TypeOK'
  BY <1>5 DEF TypeOK, RelookupMisses, Goto, Acquiring, Running, AnswerWith, Refusal, Answer, AnswerSet
<1>6. ASSUME NEW r \in Request, Read(r) PROVE TypeOK'
  BY <1>6 DEF TypeOK, Read, Goto, Acquiring, Running, AnswerWith, Verdict, Refusal, Answer, AnswerSet, Release, K, Row
<1>7. ASSUME NEW r \in Request, ClearExpired(r) PROVE TypeOK'
  BY <1>7 DEF TypeOK, ClearExpired, Goto, Acquiring, Running, Row, NoRow, K
<1>8. ASSUME NEW r \in Request, CheckKey(r) PROVE TypeOK'
  <2>1. /\ reply' \in [Request -> Request \cup {Nobody}]
        /\ answer' \in [Request -> AnswerSet]
    BY <1>8, SMTT(60) DEF TypeOK, CheckKey, AnswerWith, Answer, AnswerSet, K
  <2>2. /\ pc' \in [Request -> {"idle", "done", "gone"} \cup Acquiring \cup Running]
        /\ \A q \in Request : q # r => pc'[q] = pc[q]
        /\ pc[r] \notin {"reading", "rereading"}
    BY <1>8 DEF TypeOK, CheckKey, Goto, Running
  <2> QED
    BY <1>8, <2>1, <2>2 DEF TypeOK, CheckKey
<1>9. ASSUME NEW r \in Request, Create(r) PROVE TypeOK'
  BY <1>9 DEF TypeOK, Create, Goto, Acquiring, Running, AnswerWith, Answer, AnswerSet, K
<1>10. ASSUME NEW r \in Request, Refuse(r) PROVE TypeOK'
  BY <1>10 DEF TypeOK, Refuse, Goto, Acquiring, Running, AnswerWith, Answer, AnswerSet
<1>11. ASSUME NEW r \in Request, Complete(r) PROVE TypeOK'
  <2>1. rec[K(r)] \in Row /\ reply[r] \in Request \cup {Nobody}
    BY DEF TypeOK, K
  <2>2. [rec[K(r)] EXCEPT !.status = "complete", !.result = reply[r]] \in Row
    BY <2>1 DEF Row
  <2>3. rec' \in [Key -> Row]
    BY <1>11, <2>1, <2>2 DEF TypeOK, Complete
  <2> QED
    BY <1>11, <2>3 DEF TypeOK, Complete, Goto, K
<1>12. ASSUME NEW r \in Request, AcquireFails(r) PROVE TypeOK'
  BY <1>12 DEF TypeOK, AcquireFails, Goto, Acquiring, Running, AnswerWith, Refusal, Answer, AnswerSet, Release, K
<1>13. ASSUME NEW r \in Request, Vanish(r) PROVE TypeOK'
  BY <1>13 DEF TypeOK, Vanish, Goto, Acquiring, Running, Release, K
<1>14. ASSUME NEW k \in Key, Expire(k) PROVE TypeOK'
  <2>1. rec[k] \in Row
    BY DEF TypeOK
  <2>2. [rec[k] EXCEPT !.live = FALSE] \in Row
    BY <2>1 DEF Row
  <2> QED
    BY <1>14, <2>2 DEF TypeOK, Expire
<1>15. CASE UNCHANGED vars
  BY <1>15 DEF TypeOK
<1> QED
  BY <1>1, <1>2, <1>3, <1>4, <1>5, <1>6, <1>7, <1>8, <1>9, <1>10, <1>11, <1>12, <1>13, <1>14, <1>15 DEF Next, Step

(* Rows, locks and answers keep their types, and a lock is never left behind.  *)
THEOREM TypeCorrect == Spec => []TypeOK
  BY TypeInit, TypeStep, PTL DEF Spec

-----------------------------------------------------------------------------
Ownership ==
  \A q \in Request : pc[q] \in Running =>
    /\ rec[keyOf[q]].id = q /\ rec[keyOf[q]].status = "processing"
    /\ rec[keyOf[q]].live /\ rec[keyOf[q]].hash = bodyOf[q]

(* No request holds a key at first.                                          *)
LEMMA OwnershipInit == Init => Ownership
  BY DEF Init, Ownership, Running

(* A key is taken by one INSERT or one takeover of an expired record.        *)
LEMMA OwnershipStep == TypeOK /\ Ownership /\ [Next]_vars => Ownership'
<1> SUFFICES ASSUME TypeOK, Ownership, [Next]_vars PROVE Ownership'
  OBVIOUS
<1>1. ASSUME NEW r \in Request, Arrive(r) PROVE Ownership'
  BY <1>1 DEF Arrive, Ownership, TypeOK, Goto, Running
<1>2. ASSUME NEW r \in Request, Acquire(r) PROVE Ownership'
  <2>1. CASE rec[K(r)].status = "absent"
    <3>1. rec' = [rec EXCEPT ![K(r)] = NewRow(r)] /\ Goto(r, Handler)
      BY <1>2, <2>1 DEF Acquire, InsertIfAbsent
    <3>2. \A q \in Request : q # r /\ keyOf[q] = K(r) => pc[q] \notin Running
      BY <2>1 DEF Ownership
    <3> QED
      BY <1>2, <3>1, <3>2 DEF Acquire, Ownership, TypeOK, Goto, K, NewRow
  <2>2. CASE rec[K(r)].status # "absent"
    BY <1>2, <2>2 DEF Acquire, InsertIfAbsent, Conflict, Ownership, TypeOK, Goto, Running
  <2> QED
    BY <2>1, <2>2
<1>3. ASSUME NEW r \in Request, LookupFinds(r) PROVE Ownership'
  BY <1>3 DEF LookupFinds, Visible, Ownership, TypeOK, Goto, Running
<1>4. ASSUME NEW r \in Request, LookupMisses(r) PROVE Ownership'
  BY <1>4 DEF LookupMisses, Ownership, TypeOK, Goto, Running
<1>5. ASSUME NEW r \in Request, RelookupMisses(r) PROVE Ownership'
  BY <1>5 DEF RelookupMisses, Ownership, TypeOK, Goto, Running
<1>6. ASSUME NEW r \in Request, Read(r) PROVE Ownership'
  BY <1>6 DEF Read, Ownership, TypeOK, Goto, Running
<1>7. ASSUME NEW r \in Request, ClearExpired(r) PROVE Ownership'
  <2>1. Expired(r) => \A q \in Request : keyOf[q] = K(r) => pc[q] \notin Running
    BY DEF Expired, Ownership
  <2> QED
    BY <1>7, <2>1 DEF ClearExpired, Ownership, TypeOK, Goto, K, Running
<1>8. ASSUME NEW r \in Request, CheckKey(r) PROVE Ownership'
  BY <1>8 DEF CheckKey, Ownership, TypeOK, Goto, Running
<1>9. ASSUME NEW r \in Request, Create(r) PROVE Ownership'
  BY <1>9 DEF Create, Ownership, TypeOK, Goto, Running
<1>10. ASSUME NEW r \in Request, Refuse(r) PROVE Ownership'
  BY <1>10 DEF Refuse, Ownership, TypeOK, Goto, Running
<1>11. ASSUME NEW r \in Request, Complete(r) PROVE Ownership'
  <2>1. \A q \in Request : q # r /\ keyOf[q] = K(r) => pc[q] \notin Running
    BY <1>11 DEF Ownership, Complete, Running, K
  <2> QED
    BY <1>11, <2>1 DEF Complete, Ownership, TypeOK, Goto, K, Running
<1>12. ASSUME NEW r \in Request, AcquireFails(r) PROVE Ownership'
  BY <1>12 DEF AcquireFails, Ownership, TypeOK, Goto, Running
<1>13. ASSUME NEW r \in Request, Vanish(r) PROVE Ownership'
  BY <1>13 DEF Vanish, Ownership, TypeOK, Goto, Running
<1>14. ASSUME NEW k \in Key, Expire(k) PROVE Ownership'
  BY <1>14 DEF Expire, Ownership, TypeOK, Row
<1>15. CASE UNCHANGED vars
  BY <1>15 DEF Ownership
<1> QED
  BY <1>1, <1>2, <1>3, <1>4, <1>5, <1>6, <1>7, <1>8, <1>9, <1>10, <1>11, <1>12, <1>13, <1>14, <1>15 DEF Next, Step

(* At most one request per key is ever in the handler, for any number of       *)
(* concurrent duplicates, lost clients and expired records.                    *)
THEOREM OneHandler == Spec => []OneHandlerPerKey
<1>1. Ownership => OneHandlerPerKey
  BY DEF Ownership, OneHandlerPerKey
<1> QED
  BY <1>1, TypeInit, TypeStep, OwnershipInit, OwnershipStep, PTL DEF Spec

-----------------------------------------------------------------------------
(* The live row of k paid for one operation; each expiry paid for one before.  *)
Spent(k) == IF rec[k].status # "absent" /\ rec[k].live /\ rec[k].id \in transfers[k] THEN 1 ELSE 0

Counted ==
  /\ \A k \in Key : /\ IsFiniteSet(transfers[k])
                    /\ Cardinality(transfers[k]) <= expiries[k] + Spent(k)
                    /\ HandlerChecks => Cardinality(transfers[k]) <= 1
  /\ HandlerChecks => \A q \in Request : pc[q] = "create" => transfers[keyOf[q]] = {}

(* Nothing has been done at first.                                           *)
LEMMA CountedInit == Init => Counted
<1> SUFFICES ASSUME Init PROVE Counted
  OBVIOUS
<1>1. IsFiniteSet({}) /\ Cardinality({}) = 0
  BY FS_EmptySet
<1> QED
  BY <1>1 DEF Init, Counted, Spent, NoRow

(* The transfers of a key are counted by a number.                           *)
LEMMA CountIsNat ==
  ASSUME Counted PROVE \A k \in Key : Cardinality(transfers[k]) \in Nat
  BY FS_CardinalityType DEF Counted

(* A step that carries nothing out keeps the count, as long as it takes away   *)
(* no row that paid for an operation.                                          *)
LEMMA CountIsKept ==
  ASSUME Counted, UNCHANGED <<transfers, request>>,
         \A k \in Key : expiries[k] + Spent(k) <= expiries'[k] + Spent(k)',
         \A k \in Key : expiries[k] \in Nat /\ expiries'[k] \in Nat,
         \A q \in Request : pc'[q] = "create" =>
           pc[q] = "create" \/ ~HandlerChecks \/ transfers[keyOf[q]] = {}
  PROVE  Counted'
<1>1. \A k \in Key : Spent(k) \in Nat /\ Spent(k)' \in Nat
  BY DEF Spent
<1>2. \A k \in Key : Cardinality(transfers[k]) <= expiries'[k] + Spent(k)'
  BY <1>1, CountIsNat DEF Counted
<1> QED
  BY <1>2 DEF Counted

(* An operation is counted with the record it is done under.                 *)
LEMMA CountedStep == TypeOK /\ Ownership /\ Counted /\ [Next]_vars => Counted'
<1> SUFFICES ASSUME TypeOK, Ownership, Counted, [Next]_vars PROVE Counted'
  OBVIOUS
<1>1. ASSUME NEW r \in Request, Arrive(r) PROVE Counted'
  <2>1. \A j \in Key : Spent(j)' = Spent(j) /\ Spent(j) \in Nat
    BY <1>1 DEF Arrive, Spent
  <2>2. \A q \in Request : pc'[q] = "create" => pc[q] = "create"
    BY <1>1 DEF Arrive, Goto, TypeOK, K
  <2> QED
    BY <1>1, <2>1, <2>2, CountIsKept DEF Arrive, TypeOK
<1>2. ASSUME NEW r \in Request, Acquire(r) PROVE Counted'
  <2>1. \A j \in Key : Spent(j) <= Spent(j)'
    BY <1>2 DEF Acquire, InsertIfAbsent, Conflict, Spent, TypeOK, NewRow, K
  <2>2. \A q \in Request : pc'[q] = "create" => pc[q] = "create" \/ ~HandlerChecks
    BY <1>2 DEF Acquire, InsertIfAbsent, Conflict, Handler, Goto, TypeOK
  <2>3. \A j \in Key : Spent(j) \in Nat /\ Spent(j)' \in Nat
    BY DEF Spent
  <2> QED
    BY <1>2, <2>1, <2>2, <2>3, CountIsKept DEF Acquire, TypeOK
<1>3. ASSUME NEW r \in Request, LookupFinds(r) PROVE Counted'
  <2>1. \A j \in Key : Spent(j)' = Spent(j) /\ Spent(j) \in Nat
    BY <1>3 DEF LookupFinds, Spent
  <2>2. \A q \in Request : pc'[q] = "create" => pc[q] = "create"
    BY <1>3 DEF LookupFinds, Goto, TypeOK, K
  <2> QED
    BY <1>3, <2>1, <2>2, CountIsKept DEF LookupFinds, TypeOK
<1>4. ASSUME NEW r \in Request, LookupMisses(r) PROVE Counted'
  <2>1. \A j \in Key : Spent(j)' = Spent(j) /\ Spent(j) \in Nat
    BY <1>4 DEF LookupMisses, Spent
  <2>2. \A q \in Request : pc'[q] = "create" => pc[q] = "create"
    BY <1>4 DEF LookupMisses, Goto, TypeOK, K
  <2> QED
    BY <1>4, <2>1, <2>2, CountIsKept DEF LookupMisses, TypeOK
<1>5. ASSUME NEW r \in Request, RelookupMisses(r) PROVE Counted'
  <2>1. \A j \in Key : Spent(j)' = Spent(j) /\ Spent(j) \in Nat
    BY <1>5 DEF RelookupMisses, Spent
  <2>2. \A q \in Request : pc'[q] = "create" => pc[q] = "create"
    BY <1>5 DEF RelookupMisses, Goto, TypeOK, K
  <2> QED
    BY <1>5, <2>1, <2>2, CountIsKept DEF RelookupMisses, TypeOK
<1>6. ASSUME NEW r \in Request, Read(r) PROVE Counted'
  <2>1. \A j \in Key : Spent(j)' = Spent(j) /\ Spent(j) \in Nat
    BY <1>6 DEF Read, Spent
  <2>2. \A q \in Request : pc'[q] = "create" => pc[q] = "create"
    BY <1>6 DEF Read, Goto, TypeOK, K
  <2> QED
    BY <1>6, <2>1, <2>2, CountIsKept DEF Read, TypeOK
<1>7. ASSUME NEW r \in Request, ClearExpired(r) PROVE Counted'
  <2>1. \A j \in Key : Spent(j) = Spent(j)'
    BY <1>7 DEF ClearExpired, Expired, NoRow, Spent, TypeOK, K
  <2>2. \A q \in Request : pc'[q] = "create" => pc[q] = "create"
    BY <1>7 DEF ClearExpired, Goto, TypeOK
  <2>3. \A j \in Key : Spent(j) \in Nat
    BY DEF Spent
  <2> QED
    BY <1>7, <2>1, <2>2, <2>3, CountIsKept DEF ClearExpired, TypeOK
<1>8. ASSUME NEW r \in Request, CheckKey(r) PROVE Counted'
  <2>1. \A j \in Key : Spent(j)' = Spent(j) /\ Spent(j) \in Nat
    BY <1>8 DEF CheckKey, Spent
  <2>2. \A q \in Request : pc'[q] = "create" => pc[q] = "create" \/ transfers[keyOf[q]] = {}
    BY <1>8 DEF CheckKey, Goto, TypeOK, K
  <2> QED
    BY <1>8, <2>1, <2>2, CountIsKept DEF CheckKey, TypeOK
<1>9. ASSUME NEW r \in Request, Create(r) PROVE Counted'
  <2>0. PICK k \in Key : k = keyOf[r]
    BY DEF TypeOK
  <2>1. transfers[k] \in SUBSET Request /\ expiries[k] \in Nat
    BY DEF TypeOK
  <2>2. /\ rec[k].id = r /\ rec[k].status = "processing" /\ rec[k].live
    BY <1>9, <2>0 DEF Ownership, Create, Running
  <2>3. /\ transfers' = [transfers EXCEPT ![k] = @ \cup {r}]
        /\ transfers'[k] = transfers[k] \cup {r}
    BY <1>9, <2>0, <2>1 DEF Create, TypeOK, K
  <2>4. IsFiniteSet(transfers[k]) /\ Cardinality(transfers[k]) <= expiries[k] + Spent(k)
        /\ Cardinality(transfers[k]) \in Nat
    BY <2>1, CountIsNat DEF Counted
  <2>5a. /\ IsFiniteSet(transfers[k] \cup {r})
         /\ Cardinality(transfers[k] \cup {r}) =
              IF r \in transfers[k] THEN Cardinality(transfers[k]) ELSE Cardinality(transfers[k]) + 1
    BY <2>4, FS_AddElement
  <2>5. /\ IsFiniteSet(transfers'[k])
        /\ Cardinality(transfers'[k]) =
             IF r \in transfers[k] THEN Cardinality(transfers[k]) ELSE Cardinality(transfers[k]) + 1
    BY <2>3, <2>5a
  <2>6. Spent(k)' = 1 /\ Spent(k) = IF r \in transfers[k] THEN 1 ELSE 0
    BY <1>9, <2>2, <2>3 DEF Spent, Create
  <2>7. Cardinality(transfers'[k]) <= expiries'[k] + Spent(k)'
    BY <1>9, <2>1, <2>4, <2>5, <2>6 DEF Create
  <2>8. HandlerChecks => transfers[k] = {}
    BY <1>9, <2>0 DEF Counted, Create
  <2>9. HandlerChecks => Cardinality(transfers'[k]) <= 1
    <3>1. Cardinality({r}) = 1
      BY FS_Singleton
    <3>2. HandlerChecks => transfers'[k] = {r}
      BY <2>3, <2>8
    <3> QED
      BY <3>1, <3>2
  <2>10. \A j \in Key : j # k => transfers'[j] = transfers[j] /\ Spent(j)' = Spent(j)
    BY <1>9, <2>3 DEF Spent, Create, TypeOK
  <2>11. \A q \in Request : pc'[q] = "create" => pc[q] = "create" /\ keyOf[q] # k
    BY <1>9, <2>0 DEF Create, Goto, TypeOK, Ownership, Running
  <2>12. ASSUME NEW j \in Key
         PROVE  (/\ IsFiniteSet(transfers[j])
                 /\ Cardinality(transfers[j]) <= expiries[j] + Spent(j)
                 /\ HandlerChecks => Cardinality(transfers[j]) <= 1)'
    <3>1. CASE j = k
      BY <3>1, <2>5, <2>7, <2>9
    <3>2. CASE j # k
      <4>1. transfers'[j] = transfers[j] /\ Spent(j)' = Spent(j) /\ expiries' = expiries
        BY <1>9, <3>2, <2>10 DEF Create
      <4> QED
        BY <4>1 DEF Counted
    <3> QED
      BY <3>1, <3>2
  <2>13. (HandlerChecks => \A q \in Request : pc[q] = "create" => transfers[keyOf[q]] = {})'
    BY <1>9, <2>10, <2>11, ZenonT(60) DEF Counted, Create, TypeOK
  <2> QED
    BY <2>12, <2>13 DEF Counted
<1>10. ASSUME NEW r \in Request, Refuse(r) PROVE Counted'
  <2>1. \A j \in Key : Spent(j)' = Spent(j) /\ Spent(j) \in Nat
    BY <1>10 DEF Refuse, Spent
  <2>2. \A q \in Request : pc'[q] = "create" => pc[q] = "create"
    BY <1>10 DEF Refuse, Goto, TypeOK, K
  <2> QED
    BY <1>10, <2>1, <2>2, CountIsKept DEF Refuse, TypeOK
<1>11. ASSUME NEW r \in Request, Complete(r) PROVE Counted'
  <2>1. \A j \in Key : Spent(j) = Spent(j)'
    BY <1>11 DEF Complete, Row, Spent, TypeOK, K
  <2>2. \A q \in Request : pc'[q] = "create" => pc[q] = "create"
    BY <1>11 DEF Complete, Goto, TypeOK
  <2>3. \A j \in Key : Spent(j) \in Nat
    BY DEF Spent
  <2> QED
    BY <1>11, <2>1, <2>2, <2>3, CountIsKept DEF Complete, TypeOK
<1>12. ASSUME NEW r \in Request, AcquireFails(r) PROVE Counted'
  <2>1. \A j \in Key : Spent(j)' = Spent(j) /\ Spent(j) \in Nat
    BY <1>12 DEF AcquireFails, Spent
  <2>2. \A q \in Request : pc'[q] = "create" => pc[q] = "create"
    BY <1>12 DEF AcquireFails, Goto, TypeOK, K
  <2> QED
    BY <1>12, <2>1, <2>2, CountIsKept DEF AcquireFails, TypeOK
<1>13. ASSUME NEW r \in Request, Vanish(r) PROVE Counted'
  <2>1. \A j \in Key : Spent(j)' = Spent(j) /\ Spent(j) \in Nat
    BY <1>13 DEF Vanish, Spent
  <2>2. \A q \in Request : pc'[q] = "create" => pc[q] = "create"
    BY <1>13 DEF Vanish, Goto, TypeOK, K
  <2> QED
    BY <1>13, <2>1, <2>2, CountIsKept DEF Vanish, TypeOK
<1>14. ASSUME NEW k \in Key, Expire(k) PROVE Counted'
  <2>1. \A j \in Key : Spent(j) \in {0, 1} /\ Spent(j)' \in {0, 1}
    BY DEF Spent
  <2>2. \A j \in Key : j # k => Spent(j)' = Spent(j) /\ expiries'[j] = expiries[j]
    BY <1>14 DEF Expire, Spent, TypeOK
  <2>3. expiries'[k] = expiries[k] + 1
    BY <1>14 DEF Expire, TypeOK
  <2>4. \A j \in Key : expiries[j] \in Nat /\ expiries'[j] \in Nat
    BY <2>2, <2>3 DEF TypeOK
  <2>5. \A j \in Key : expiries[j] + Spent(j) <= expiries'[j] + Spent(j)'
    BY <2>1, <2>2, <2>3, <2>4
  <2> QED
    BY <1>14, <2>4, <2>5, CountIsKept DEF Expire
<1>15. CASE UNCHANGED vars
  BY <1>15, CountIsKept DEF TypeOK, Spent
<1> QED
  BY <1>1, <1>2, <1>3, <1>4, <1>5, <1>6, <1>7, <1>8, <1>9, <1>10, <1>11, <1>12, <1>13, <1>14, <1>15 DEF Next, Step

(* One operation per key and record, and one per key for ever where the        *)
(* handler looks the key up, whatever is lost, repeated or expires.            *)
THEOREM NothingTwice == Spec => []NoDuplicate
<1>1. TypeOK /\ Counted => NoDuplicate
  <2> SUFFICES ASSUME TypeOK, Counted, NEW k \in Key
               PROVE  Cardinality(transfers[k]) <= IF HandlerChecks THEN 1 ELSE 1 + expiries[k]
    BY DEF NoDuplicate
  <2>1. Spent(k) \in {0, 1} /\ expiries[k] \in Nat /\ Cardinality(transfers[k]) \in Nat
    BY CountIsNat DEF Spent, TypeOK
  <2>2. /\ Cardinality(transfers[k]) <= expiries[k] + Spent(k)
        /\ HandlerChecks => Cardinality(transfers[k]) <= 1
    BY DEF Counted
  <2> QED
    BY <2>1, <2>2
<1> QED
  BY <1>1, TypeInit, TypeStep, OwnershipInit, OwnershipStep, CountedInit, CountedStep, PTL DEF Spec

-----------------------------------------------------------------------------
(* What a handler without a lookup of its own reports is its own request, and  *)
(* what a row replays was reported for a request with the hash of the row.     *)
Own ==
  /\ \A q \in Request : pc[q] # "check"
  /\ \A q \in Request : reply[q] # Nobody => bodyOf[reply[q]] = bodyOf[q]
  /\ \A k \in Key : rec[k].result # Nobody => bodyOf[rec[k].result] = rec[k].hash
  /\ AnswersOwnRequest

(* Nobody has been answered at first.                                        *)
LEMMA OwnInit == Init => Own
  BY DEF Init, Own, NoRow, AnswersOwnRequest, Unanswered, Answer

(* Where the handler does not look the key up (HandlerChecks FALSE).           *)
LEMMA OwnStep == ~HandlerChecks /\ TypeOK /\ Ownership /\ Own /\ [Next]_vars => Own'
<1> SUFFICES ASSUME ~HandlerChecks, TypeOK, Ownership, Own, [Next]_vars PROVE Own'
  OBVIOUS
<1>1. ASSUME NEW r \in Request, Arrive(r) PROVE Own'
  BY <1>1 DEF Arrive, Own, AnswersOwnRequest, Goto, TypeOK
<1>2. ASSUME NEW r \in Request, Acquire(r) PROVE Own'
  <2>1. \A k \in Key : rec'[k] = rec[k] \/ rec'[k] = NewRow(r)
    BY <1>2 DEF Acquire, InsertIfAbsent, Conflict, TypeOK, K
  <2>2. \A q \in Request : pc'[q] # "check"
    BY <1>2 DEF Acquire, InsertIfAbsent, Conflict, Handler, Goto, TypeOK, Own
  <2> QED
    BY <1>2, <2>1, <2>2 DEF Acquire, Own, AnswersOwnRequest, NewRow
<1>3. ASSUME NEW r \in Request, LookupFinds(r) PROVE Own'
  BY <1>3 DEF LookupFinds, Own, AnswersOwnRequest, Goto, TypeOK
<1>4. ASSUME NEW r \in Request, LookupMisses(r) PROVE Own'
  BY <1>4 DEF LookupMisses, Own, AnswersOwnRequest, Goto, TypeOK
<1>5. ASSUME NEW r \in Request, RelookupMisses(r) PROVE Own'
  BY <1>5 DEF RelookupMisses, Own, AnswersOwnRequest, Goto, TypeOK, AnswerWith, Refusal, Answer
<1>6. ASSUME NEW r \in Request, Read(r) PROVE Own'
  <2>1. rec[K(r)].hash = bodyOf[r] \/ Verdict(r).kind # "response"
    BY DEF Verdict, Refusal, Answer
  <2>2. Verdict(r).kind = "response" => Verdict(r).of = rec[K(r)].result
    BY DEF Verdict, Refusal, Answer
  <2>3. answer' = [answer EXCEPT ![r] = Verdict(r)] /\ K(r) \in Key
    BY <1>6 DEF Read, AnswerWith, K, TypeOK
  <2>4. AnswersOwnRequest'
    BY <1>6, <2>1, <2>2, <2>3 DEF Own, AnswersOwnRequest, TypeOK, Read
  <2> QED
    BY <1>6, <2>4 DEF Read, Goto, TypeOK, Own
<1>7. ASSUME NEW r \in Request, ClearExpired(r) PROVE Own'
  <2>1. \A k \in Key : rec'[k] = rec[k] \/ rec'[k] = NoRow
    BY <1>7 DEF ClearExpired, TypeOK, K
  <2> QED
    BY <1>7, <2>1 DEF ClearExpired, Own, AnswersOwnRequest, NoRow, Goto, TypeOK
<1>8. ASSUME NEW r \in Request, CheckKey(r) PROVE Own'
  BY <1>8 DEF CheckKey, Own
<1>9. ASSUME NEW r \in Request, Create(r) PROVE Own'
  BY <1>9 DEF Create, Own, AnswersOwnRequest, Goto, TypeOK, AnswerWith, Answer
<1>10. ASSUME NEW r \in Request, Refuse(r) PROVE Own'
  BY <1>10 DEF Refuse, Own, AnswersOwnRequest, Goto, TypeOK, AnswerWith, Answer
<1>11. ASSUME NEW r \in Request, Complete(r) PROVE Own'
  <2>1. rec[K(r)].hash = bodyOf[r] /\ rec[K(r)] \in Row /\ K(r) \in Key
    BY <1>11 DEF Complete, Ownership, Running, K, TypeOK
  <2>2. /\ \A j \in Key \ {K(r)} : rec'[j] = rec[j]
        /\ rec'[K(r)].hash = rec[K(r)].hash
        /\ rec'[K(r)].result \in {rec[K(r)].result, reply[r]}
    BY <1>11, <2>1 DEF Complete, TypeOK, Row
  <2>3. \A q \in Request : pc'[q] # "check"
    BY <1>11 DEF Complete, Goto, TypeOK, Own
  <2> QED
    BY <1>11, <2>1, <2>2, <2>3 DEF Complete, Own, AnswersOwnRequest
<1>12. ASSUME NEW r \in Request, AcquireFails(r) PROVE Own'
  BY <1>12 DEF AcquireFails, Own, AnswersOwnRequest, Goto, TypeOK, AnswerWith, Refusal, Answer
<1>13. ASSUME NEW r \in Request, Vanish(r) PROVE Own'
  BY <1>13 DEF Vanish, Own, AnswersOwnRequest, Goto, TypeOK
<1>14. ASSUME NEW k \in Key, Expire(k) PROVE Own'
  <2>1. \A j \in Key : rec'[j].result = rec[j].result /\ rec'[j].hash = rec[j].hash
    BY <1>14 DEF Expire, TypeOK, Row
  <2> QED
    BY <1>14, <2>1 DEF Expire, Own, AnswersOwnRequest
<1>15. CASE UNCHANGED vars
  BY <1>15 DEF Own, AnswersOwnRequest
<1> QED
  BY <1>1, <1>2, <1>3, <1>4, <1>5, <1>6, <1>7, <1>8, <1>9, <1>10, <1>11, <1>12, <1>13, <1>14, <1>15 DEF Next, Step

(* On the endpoints whose handler does not look the key up, no client is told  *)
(* of an operation that was asked for with another body.                       *)
THEOREM AnswersAreOwn == ASSUME ~HandlerChecks PROVE Spec => []AnswersOwnRequest
<1>1. Own => AnswersOwnRequest
  BY DEF Own
<1>2. TypeOK /\ Ownership /\ Own /\ [Next]_vars => Own'
  BY OwnStep
<1> QED
  BY <1>1, <1>2, TypeInit, TypeStep, OwnershipInit, OwnershipStep, OwnInit, PTL DEF Spec

===============================================================================
