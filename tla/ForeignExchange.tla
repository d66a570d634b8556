--------------------------- MODULE ForeignExchange ---------------------------
(***************************************************************************)
(* FX quotes and conversions: internal/fx, postgres/fx_quote_repo.go and   *)
(* conversion_repo.go, for one pair of assets.  A price is known by the    *)
(* time the market had it; it passes from the provider through the         *)
(* provider's own memory and the Redis cache into a quote, which any       *)
(* number of conversion requests may try to use at once.                   *)
(*                                                                         *)
(* Time is counted in ticks.  The steps of pricing take none, except for    *)
(* the call of the price feed: a request that computes is not overtaken by *)
(* the clock.                                                              *)
(***************************************************************************)
EXTENDS Integers

CONSTANTS
  QuoteId, Converter,           \* quotes; conversion requests
  Org, NoQuote, NoPrice,
  MemoTTL, RateTTL, QuoteTTL,   \* coinGeckoPriceTTL, rateTTL, quoteTTL
  RefreshInterval, FetchTimeout,
  LastTick, MaxFxFaults         \* bounds on the clock, on failed calls and crashes

ASSUME FxTimes == {MemoTTL, RateTTL, QuoteTTL, RefreshInterval} \subseteq Nat \ {0}
ASSUME FxBounds == {FetchTimeout, LastTick, MaxFxFaults} \subseteq Nat
ASSUME RefreshBeforeExpiry == RefreshInterval + FetchTimeout < RateTTL

VARIABLES
  clock, refreshed,             \* now; when the background refresh last began
  memo, rate, active,           \* prices held by the provider; cached rate; activePairs
  quote, auditRow,              \* Redis quotes; table fx_quotes
  pricer,                       \* who is finding a price: position, price, start of the fetch
  cpc, conv,                    \* a conversion request: position; what it works with
  conversions, paid,            \* table conversions; history: payments of the treasury
  fxFaults, feedDown            \* failures so far; history: a price fetch failed

fxVars == <<clock, refreshed, memo, rate, active, quote, auditRow, pricer, cpc, conv, conversions, paid, fxFaults, feedDown>>
priceVars == <<clock, refreshed, memo, rate, active, pricer, feedDown>>
convertVars == <<cpc, conv, conversions, paid>>

Refresher == "refresher"        \* backgroundRefresh
Viewer == "viewer"              \* a request of GET /rates
Pricer == QuoteId \cup {Refresher, Viewer}
Idle == [at |-> "idle", price |-> NoPrice, since |-> 0]
NoConv == [quote |-> NoQuote, org |-> NoQuote]
Quote == [org : Org, price : 0..LastTick, made : 0..LastTick, expires : Nat, used : BOOLEAN]
Conversion == [by : Converter, quote : QuoteId, org : Org]

ASSUME FxNames ==
  /\ NoQuote \notin Quote /\ NoQuote \notin QuoteId /\ {Refresher, Viewer} \cap QuoteId = {}
  /\ NoPrice \notin [price : Nat, until : Nat]

FxInit ==
  /\ clock = 0 /\ refreshed = 0 /\ memo = NoPrice /\ rate = NoPrice /\ active = FALSE
  /\ quote = [q \in QuoteId |-> NoQuote] /\ auditRow = [q \in QuoteId |-> "none"]
  /\ pricer = [p \in Pricer |-> Idle]
  /\ cpc = [k \in Converter |-> "idle"] /\ conv = [k \in Converter |-> NoConv]
  /\ conversions = {} /\ paid = [q \in QuoteId |-> 0] /\ fxFaults = 0 /\ feedDown = FALSE

FxFault == fxFaults < MaxFxFaults /\ fxFaults' = fxFaults + 1
Moves(p, at, price, since) == pricer' = [pricer EXCEPT ![p] = [at |-> at, price |-> price, since |-> since]]
-----------------------------------------------------------------------------
(* Prices. *)
Live(entry) == entry # NoPrice /\ clock < entry.until

(* Seeded fault: the entry is stored for one refresh interval only. *)
CacheSetShort(price) == rate' = [price |-> price, until |-> clock + RefreshInterval]

(* RateCache.Set, a SET with rateTTL *)
CacheSet(price) == rate' = [price |-> price, until |-> clock + RateTTL]

(* Where a request goes with its price: a view of the rate ends here. *)
Priced(p, price) == IF p \in QuoteId THEN Moves(p, "store", price, clock) ELSE pricer' = [pricer EXCEPT ![p] = Idle]

(* GetQuote and getRates begin: GetRates serves a cached rate (Get), or     *)
(* goes to a provider.                                                      *)
GetRates(p) ==
  /\ pricer[p].at = "idle" /\ (p \in QuoteId => quote[p] = NoQuote)
  /\ IF Live(rate) THEN Priced(p, rate.price) ELSE Moves(p, "matrix", NoPrice, clock)
  /\ UNCHANGED <<clock, refreshed, memo, rate, active, feedDown, quote, auditRow, convertVars, fxFaults>>

(* backgroundRefresh: every interval, the pairs that were asked for. *)
BackgroundRefresh ==
  /\ pricer[Refresher].at = "idle" /\ clock = refreshed + RefreshInterval /\ refreshed' = clock
  /\ IF active THEN Moves(Refresher, "matrix", NoPrice, clock) ELSE UNCHANGED pricer
  /\ UNCHANGED <<clock, memo, rate, active, feedDown, quote, auditRow, convertVars, fxFaults>>

(* Seeded fault: prices that are used again count as fetched again. *)
PriceMatrixSliding(p) ==
  /\ pricer[p].at = "matrix"
  /\ IF memo # NoPrice /\ clock - memo.fetched < MemoTTL
     THEN Moves(p, "cache", memo.price, clock) /\ memo' = [memo EXCEPT !.fetched = clock]
     ELSE Moves(p, "fetch", NoPrice, clock) /\ UNCHANGED memo
  /\ UNCHANGED <<clock, refreshed, rate, active, feedDown, quote, auditRow, convertVars, fxFaults>>

(* priceMatrix: prices younger than their TTL are used again; otherwise the *)
(* lock is given up and the feed is called.                                 *)
PriceMatrix(p) ==
  /\ pricer[p].at = "matrix"
  /\ IF memo # NoPrice /\ clock - memo.fetched < MemoTTL
     THEN Moves(p, "cache", memo.price, clock) ELSE Moves(p, "fetch", NoPrice, clock)
  /\ UNCHANGED <<clock, refreshed, memo, rate, active, feedDown, quote, auditRow, convertVars, fxFaults>>

(* The feed answers with prices of the moment it was asked, or later. *)
FetchAnswered(p) ==
  /\ pricer[p].at = "fetch"
  /\ \E t \in pricer[p].since..clock :
       memo' = [price |-> t, fetched |-> clock] /\ Moves(p, "cache", t, clock)
  /\ UNCHANGED <<clock, refreshed, rate, active, feedDown, quote, auditRow, convertVars, fxFaults>>

(* fetchRate: the next provider that has the pair is asked; its order book  *)
(* answers at once.  When none is left the request, or the refresh, ends.   *)
FetchFails(p) ==
  /\ pricer[p].at = "fetch" /\ FxFault /\ feedDown' = TRUE
  /\ \/ Moves(p, "cache", clock, clock)
     \/ pricer' = [pricer EXCEPT ![p] = Idle]
  /\ UNCHANGED <<clock, refreshed, memo, rate, active, quote, auditRow, convertVars>>

(* The rate is cached; a request also registers the pair. *)
CacheRate(p) ==
  /\ pricer[p].at = "cache" /\ CacheSet(pricer[p].price)
  /\ active' = (active \/ p # Refresher)
  /\ Priced(p, pricer[p].price)
  /\ UNCHANGED <<clock, refreshed, memo, feedDown, quote, auditRow, convertVars, fxFaults>>

(* INSERT INTO fx_quotes; UPDATE fx_quotes ... WHERE id = $1 *)
CreateQuote(q) == auditRow' = [auditRow EXCEPT ![q] = "open"]
MarkQuoteUsed(q) == auditRow' = [auditRow EXCEPT ![q] = IF @ = "open" THEN "used" ELSE @]

(* The quote goes to Redis with a TTL and an expiry of its own; the audit   *)
(* row may fail.                                                            *)
StoreQuote(q) ==
  /\ pricer[q].at = "store" /\ pricer' = [pricer EXCEPT ![q] = Idle]
  /\ \E o \in Org :
       quote' = [quote EXCEPT ![q] = [org |-> o, price |-> pricer[q].price, made |-> clock,
                                      expires |-> clock + QuoteTTL, used |-> FALSE]]
  /\ \/ CreateQuote(q) /\ UNCHANGED fxFaults
     \/ FxFault /\ UNCHANGED auditRow
  /\ UNCHANGED <<clock, refreshed, memo, rate, active, feedDown, convertVars>>

(* Nobody but a caller of the feed lets time pass, and that one not longer  *)
(* than its timeout; the refresh begins on time.                            *)
FxTick ==
  /\ clock < LastTick /\ clock < refreshed + RefreshInterval /\ clock' = clock + 1
  /\ \A p \in Pricer :
       pricer[p].at # "idle" => (pricer[p].at = "fetch" /\ clock < pricer[p].since + FetchTimeout)
  /\ UNCHANGED <<refreshed, memo, rate, active, pricer, feedDown, quote, auditRow, convertVars, fxFaults>>
-----------------------------------------------------------------------------
(* Conversions. *)
Goes(k, at) == cpc' = [cpc EXCEPT ![k] = at]

(* What POST /convert lets through: any quote id, and a wallet, which        *)
(* belongs to the caller's organisation (GetByID filters by it).            *)
ConvertRequest == {r \in [quote : QuoteId, org : Org] : quote[r.quote] # NoQuote}

ExecuteConversion(k) ==
  /\ cpc[k] = "idle" /\ Goes(k, "claim")
  /\ \E r \in ConvertRequest : conv' = [conv EXCEPT ![k] = r]
  /\ UNCHANGED <<priceVars, quote, auditRow, conversions, paid, fxFaults>>

(* Seeded fault: the request is answered and its work is kept. *)
AnswerConversion(k) == Goes(k, "idle") /\ UNCHANGED conv

EndConversion(k) == Goes(k, "idle") /\ conv' = [conv EXCEPT ![k] = NoConv]

(* Seeded fault: the script does not look at used. *)
UnexpiredQuote(q) == clock < quote[q].expires

(* Redis still has the quote, and nobody used it. *)
QuoteUnused(q) == clock < quote[q].expires /\ ~quote[q].used

(* markUsedScript *)
MarkUsed(k) ==
  LET q == conv[k].quote IN
  /\ cpc[k] = "claim"
  /\ IF QuoteUnused(q)
     THEN quote' = [quote EXCEPT ![q].used = TRUE] /\ Goes(k, "check") /\ UNCHANGED conv
     ELSE EndConversion(k) /\ UNCHANGED quote
  /\ UNCHANGED <<priceVars, auditRow, conversions, paid, fxFaults>>

(* Seeded fault: the quote of any organisation is converted. *)
AnyQuote(k) == quote[conv[k].quote].expires >= clock

(* Ownership and expiry, after the quote was marked. *)
QuoteFits(k) == quote[conv[k].quote].org = conv[k].org /\ quote[conv[k].quote].expires >= clock

CheckQuote(k) ==
  /\ cpc[k] = "check"
  /\ IF QuoteFits(k) THEN Goes(k, "persist") /\ UNCHANGED conv ELSE EndConversion(k)
  /\ UNCHANGED <<priceVars, quote, auditRow, conversions, paid, fxFaults>>

(* INSERT INTO conversions *)
CreateConversion(k) ==
  conversions' = conversions \cup {[by |-> k, quote |-> conv[k].quote, org |-> conv[k].org]}

(* Seeded fault: a failed insert is only logged. *)
PersistOrGoOn(k) ==
  /\ cpc[k] = "persist" /\ Goes(k, "pay") /\ UNCHANGED conv
  /\ \/ CreateConversion(k) /\ UNCHANGED fxFaults
     \/ FxFault /\ UNCHANGED conversions
  /\ UNCHANGED <<priceVars, quote, auditRow, paid>>

PersistConversion(k) ==
  /\ cpc[k] = "persist"
  /\ \/ CreateConversion(k) /\ Goes(k, "pay") /\ UNCHANGED <<conv, fxFaults>>
     \/ FxFault /\ EndConversion(k) /\ UNCHANGED conversions
  /\ UNCHANGED <<priceVars, quote, auditRow, paid>>

(* The treasury pays; an error, of a payment that went out or of one that   *)
(* did not, is passed over.                                                 *)
PayConversion(k) ==
  /\ cpc[k] = "pay" /\ Goes(k, "audit") /\ UNCHANGED <<conv, conversions>>
  /\ \/ paid' = [paid EXCEPT ![conv[k].quote] = @ + 1] /\ UNCHANGED fxFaults
     \/ FxFault /\ UNCHANGED paid
  /\ UNCHANGED <<priceVars, quote, auditRow>>

(* MarkQuoteUsed: a row that was never inserted is not updated. *)
AuditConversion(k) ==
  /\ cpc[k] = "audit" /\ EndConversion(k)
  /\ \/ MarkQuoteUsed(conv[k].quote) /\ UNCHANGED fxFaults
     \/ FxFault /\ UNCHANGED auditRow
  /\ UNCHANGED <<priceVars, quote, conversions, paid>>

(* The process dies between two steps. *)
LoseConversion(k) ==
  /\ cpc[k] # "idle" /\ FxFault /\ EndConversion(k)
  /\ UNCHANGED <<priceVars, quote, auditRow, conversions, paid>>

FxNext ==
  \/ FxTick \/ BackgroundRefresh
  \/ \E p \in QuoteId \cup {Viewer} : GetRates(p)
  \/ \E q \in QuoteId : StoreQuote(q)
  \/ \E p \in Pricer : PriceMatrix(p) \/ FetchAnswered(p) \/ FetchFails(p) \/ CacheRate(p)
  \/ \E k \in Converter :
       \/ ExecuteConversion(k) \/ MarkUsed(k) \/ CheckQuote(k) \/ PersistConversion(k)
       \/ PayConversion(k) \/ AuditConversion(k) \/ LoseConversion(k)

FxSpec == FxInit /\ [][FxNext]_fxVars
-----------------------------------------------------------------------------
(* Types. *)
FxTypeOK ==
  /\ clock \in 0..LastTick /\ refreshed \in 0..clock
  /\ memo = NoPrice \/ memo.price <= memo.fetched
  /\ rate = NoPrice \/ rate.price < rate.until
  /\ \A q \in QuoteId :
       quote[q] \in Quote \cup {NoQuote}
  /\ conversions \subseteq Conversion
  /\ \A k \in Converter : (cpc[k] = "idle") = (conv[k] = NoConv)

(* A quote is converted and paid at most once, whatever requests race for   *)
(* it and wherever they stop.                                               *)
ConvertedOnce ==
  \A q \in QuoteId : paid[q] <= 1 /\ \A c, d \in conversions : c.quote = q /\ d.quote = q => c = d

(* Every payment of the treasury, and every audit row marked used, has its  *)
(* conversion, made by the organisation the quote was made for.             *)
PaidIsRecorded ==
  \A q \in QuoteId : (paid[q] > 0 \/ auditRow[q] = "used") => \E c \in conversions : c.quote = q /\ c.org = quote[q].org

(* The price of a quote is not older than what the three clocks allow       *)
(* together: the fetch, the provider's memory and the cache.                *)
PriceIsFresh ==
  \A q \in QuoteId : quote[q] # NoQuote =>
    quote[q].made - quote[q].price <= FetchTimeout + MemoTTL + RateTTL - 2

(* While the feed answers, a pair that was asked for once stays cached: no  *)
(* later request waits for the feed (backgroundRefresh).                    *)
ActivePairStaysCached == active /\ ~feedDown => Live(rate)

(* The treasury owes a quote its payment once a conversion of the quote by  *)
(* its organisation is recorded, and pays it once (ExecuteConversion).      *)
PaymentsDue == {q \in QuoteId : quote[q] # NoQuote /\ \E c \in conversions : c.quote = q /\ c.org = quote[q].org}
ConversionPromise == INSTANCE OnceOnly WITH Claim <- QuoteId, due <- PaymentsDue, given <- paid
ConversionsKeepPromise == ConversionPromise!OnceSpec

(* Claim (service.go: "validates it has not expired or been used, verifies  *)
(* ownership, atomically marks it used, and records the conversion"): only  *)
(* the conversion of its owner uses a quote up.                             *)
OnlyOwnerUsesQuote ==
  \A q \in QuoteId : (quote[q] # NoQuote /\ quote[q].used /\ \A k \in Converter : cpc[k] = "idle") =>
    \E c \in conversions : c.quote = q

(* A quote is converted once, what is paid out is recorded, prices are no   *)
(* older than the caches allow, and a pair in use stays cached while the    *)
(* feed answers (ExecuteConversion, fetchRate, backgroundRefresh).          *)
FxSafe ==
  /\ FxTypeOK
  /\ ConvertedOnce
  /\ PaidIsRecorded
  /\ PriceIsFresh
  /\ ActivePairStaysCached
=============================================================================
