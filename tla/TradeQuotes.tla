------------------------------ MODULE TradeQuotes ------------------------------
(***************************************************************************)
(* The trading form: what the user types, the debounced quote requests it     *)
(* starts, the market data fetched every 15 seconds, the answers of both as   *)
(* they arrive, and the button that hands the form to executeTrade. Nothing    *)
(* cancels a request: an answer sets the state whenever it comes, for the     *)
(* form and the market data the request was made with.                       *)
(* What executeTrade does with the form is the subject of TradeExecution.     *)
(***************************************************************************)
EXTENDS Web

CONSTANTS
  FormAmounts,  \* amounts the user types; 0 stands for an empty or invalid field
  Slippages,    \* slippage tolerances the user selects
  Markets,      \* external: the states of the pool
  Capacity,     \* external: amount past which the pool absorbs no more
  Balance,      \* the balance shown, which Max copies
  PartialReads, \* the reads, of twap, spot and reserves, that may fail alone
  Slots,        \* quote requests that may be outstanding at a time
  FetchSlots,   \* fetches of market data that may be outstanding at a time
  MaxEdits,     \* bound on edits of the form
  MaxMoves,     \* bound on moves of the market
  MaxFaults     \* bound on reads that fail

Par  == 10      \* the price 1.0, prices being counted in tenths

Forms  == [action : {"Buy", "Sell"}, asset : {"PT", "YT"}, amount : Nat, slippage : Slippages]

ASSUME TradeQuotesAssumption ==
  /\ PartialReads \subseteq {"twap", "spot", "reserves"} /\ Slots \subseteq Nat /\ FormAmounts \subseteq Nat /\ Capacity \in Nat /\ Balance \in Nat
  /\ Markets \subseteq [pt : Nat, yt : Nat, apy : Nat, reserve : Nat, rate : Nat \ {0}]
  /\ MaxEdits \in Nat /\ MaxMoves \in Nat /\ MaxFaults \in Nat

VARIABLES
  pool,         \* external: the market on chain
  form,         \* action, asset, amount, slippage
  timer,        \* a debounce timer is armed, for the form and data shown
  asked,        \* the quote requests outstanding
  quote, quoteError, isQuoting,
  isMounted,    \* the trading page is shown
  marketData,   \* the market data shown
  fetching,     \* the fetches of market data outstanding
  isConnected, isExecuting,
  trading,      \* the amount executeTrade was given
  edits, moves, faults

quotesUi   == <<form, timer, quote, quoteError, isQuoting, isMounted, isConnected, isExecuting, trading>>
quotesVars == <<pool, form, timer, asked, quote, quoteError, isQuoting, marketData, fetching, isMounted,
          isConnected, isExecuting, trading, edits, moves, faults>>

-----------------------------------------------------------------------------
(***************************************************************************)
(* What the reads say.                                                     *)
(***************************************************************************)

\* The market data made of the pool m when the reads in failed did not answer.
DataOf(m, failed) ==
  [ptPrice |-> m.pt, ytPrice |-> m.yt,
   twap        |-> IF "twap" \in failed THEN 0 ELSE m.apy,
   twapStale   |-> "twap" \in failed,
   fixedApy    |-> IF "spot" \in failed THEN 0 ELSE m.apy,
   ptReserve   |-> IF "reserves" \in failed THEN 0 ELSE m.reserve,
   ytReserve   |-> 0,
   underlyingReserve |-> IF "reserves" \in failed THEN 0 ELSE m.reserve,
   ytPtRatio   |-> IF m.pt > 0 THEN (100 * m.yt) \div m.pt ELSE 0]

PriceIn(m, asset) == IF asset = "PT" THEN m.pt ELSE m.yt

\* The pool sells nothing, or does not take the size; a buy is filled in part.
NoLiquidity(f)  == IF f.action = "Sell" THEN f.amount > Capacity ELSE Capacity = 0
PartialFill(f)  == f.action = "Buy" /\ f.amount > Capacity

\* Distance of the price of the quote from the price shown, in the trader's disfavour.
PriceImpact(f, m, data) ==
  LET shown == IF f.asset = "PT" THEN data.ptPrice ELSE data.ytPrice
  IN IF data = None THEN 0
     ELSE IF f.asset = "YT" /\ data.ytPrice = 0 THEN 0
     ELSE IF f.action = "Buy" THEN shown - PriceIn(m, f.asset)
     ELSE PriceIn(m, f.asset) - shown

\* The quote for the form f, the pool being m and data on display.
QuoteOf(f, m, data) ==
  [form |-> f, price |-> PriceIn(m, f.asset), impact |-> PriceImpact(f, m, data),
   partialFill |-> PartialFill(f)]

-----------------------------------------------------------------------------
(***************************************************************************)
(* The form. An edit, and every change of the market data, reruns the effect   *)
(* that asks for quotes: an empty amount clears the quote at once, any other   *)
(* arms the debounce timer anew.                                            *)
(***************************************************************************)

\* Variant: the timer is armed for edits alone, the quote not asked again for new data.
RequoteOnEditOnly(f) ==
  IF f.amount = 0
  THEN timer' = FALSE /\ quote' = None /\ quoteError' = None
  ELSE timer' = (timer \/ f # form) /\ UNCHANGED <<quote, quoteError>>

Requote(f) ==
  IF f.amount = 0
  THEN timer' = FALSE /\ quote' = None /\ quoteError' = None
  ELSE timer' = TRUE /\ UNCHANGED <<quote, quoteError>>

Edit(f) ==
  /\ isMounted /\ edits < MaxEdits /\ edits' = edits + 1
  /\ f # form /\ form' = f
  /\ Requote(f)
  /\ UNCHANGED <<isMounted, pool, asked, isQuoting, marketData, fetching, isConnected, isExecuting,
                 trading, moves, faults>>

SetAction  == \E a \in {"Buy", "Sell"} : Edit([form EXCEPT !.action = a])
SetAsset   == \E a \in {"PT", "YT"} : Edit([form EXCEPT !.asset = a])
SetAmount  == \E x \in FormAmounts : Edit([form EXCEPT !.amount = x])
SetSlippage == \E s \in Slippages : Edit([form EXCEPT !.slippage = s])

\* Max leaves one XLM for the fees of a purchase.
HandleMax ==
  Edit([form EXCEPT !.amount = IF form.action = "Buy" /\ Balance > 2 THEN Balance - 1 ELSE Balance])

-----------------------------------------------------------------------------
(***************************************************************************)
(* getQuote.                                                               *)
(***************************************************************************)

\* The timer fires: a request for the form leaves, with the data on display.
TimerFires ==
  \E s \in Slots :
    /\ timer /\ asked[s] = None /\ \A t \in 1..(s - 1) : asked[t] # None
    /\ timer' = FALSE
    /\ isQuoting' = TRUE /\ quoteError' = None
    /\ asked' = [asked EXCEPT ![s] = [form |-> form, pool |-> pool, data |-> marketData]]
    /\ UNCHANGED <<isMounted, pool, form, quote, marketData, fetching, isConnected, isExecuting, trading,
                   edits, moves, faults>>

\* The quote is refused: no wallet, nothing the pool would give, or a read that fails.
QuoteFails(s) ==
  /\ asked[s] # None
  /\ \/ (~isConnected \/ NoLiquidity(asked[s].form)) /\ faults' = faults
     \/ faults < MaxFaults /\ faults' = faults + 1
  /\ quote' = None
  /\ quoteError' = IF isConnected /\ NoLiquidity(asked[s].form) THEN "liquidity" ELSE "failed"
  /\ isQuoting' = FALSE
  /\ asked' = [asked EXCEPT ![s] = None]
  /\ UNCHANGED <<isMounted, pool, form, timer, marketData, fetching, isConnected, isExecuting, trading,
                 edits, moves>>

\* The reads were made at any ledger between the request and the answer.
QuoteAnswers(s) ==
  /\ asked[s] # None /\ isConnected /\ ~NoLiquidity(asked[s].form)
  /\ \E m \in {asked[s].pool, pool} : quote' = QuoteOf(asked[s].form, m, asked[s].data)
  /\ isQuoting' = FALSE
  /\ asked' = [asked EXCEPT ![s] = None]
  /\ UNCHANGED <<isMounted, pool, form, timer, quoteError, marketData, fetching, isConnected, isExecuting,
                 trading, edits, moves, faults>>

-----------------------------------------------------------------------------
(***************************************************************************)
(* fetchMarketData, at mount, every 15 seconds and after a trade.             *)
(***************************************************************************)

FetchMarket ==
  \E s \in FetchSlots :
    /\ isMounted /\ fetching[s] = None
    /\ fetching' = [fetching EXCEPT ![s] = pool]
    /\ UNCHANGED <<pool, asked, marketData, quotesUi, edits, moves, faults>>

\* New data is a new object: the effect reruns even when no number changed.
MarketAnswers(s) ==
  /\ fetching[s] # None
  /\ \E m \in {fetching[s], pool}, failed \in SUBSET PartialReads :
       /\ faults + Cardinality(failed) <= MaxFaults
       /\ faults' = faults + Cardinality(failed)
       /\ marketData' = DataOf(m, failed)
  /\ fetching' = [fetching EXCEPT ![s] = None]
  /\ Requote(form)
  /\ UNCHANGED <<isMounted, pool, form, asked, isQuoting, isConnected, isExecuting, trading, edits, moves>>

\* A quote or the rate could not be read: the data on display stays.
MarketFails(s) ==
  /\ fetching[s] # None /\ faults < MaxFaults
  /\ faults' = faults + 1
  /\ fetching' = [fetching EXCEPT ![s] = None]
  /\ UNCHANGED <<pool, asked, marketData, quotesUi, edits, moves>>

-----------------------------------------------------------------------------
(***************************************************************************)
(* The button.                                                             *)
(***************************************************************************)

Connect ==
  /\ isMounted /\ ~isConnected /\ ~isExecuting
  /\ isConnected' = TRUE
  /\ UNCHANGED <<isMounted, pool, form, timer, asked, quote, quoteError, isQuoting, marketData, fetching,
                 isExecuting, trading, edits, moves, faults>>

CanSubmit == isConnected /\ ~isExecuting /\ quote # None /\ quoteError = None

\* An empty field parses to NaN, which executeTrade cannot convert and throws on.
Sends(f) == f.amount > 0

PressTrade ==
  /\ CanSubmit /\ Sends(form)
  /\ isExecuting' = TRUE /\ trading' = form.amount
  /\ UNCHANGED <<isMounted, pool, form, timer, asked, quote, quoteError, isQuoting, marketData, fetching,
                 isConnected, edits, moves, faults>>

\* A settled trade clears the amount, whatever the field holds by then.
TradeSucceeds ==
  /\ isExecuting
  /\ isExecuting' = FALSE /\ trading' = None
  /\ form' = [form EXCEPT !.amount = 0]
  /\ Requote(form')
  /\ UNCHANGED <<isMounted, pool, asked, isQuoting, marketData, fetching, isConnected, edits, moves, faults>>

TradeFails ==
  /\ isExecuting
  /\ isExecuting' = FALSE /\ trading' = None
  /\ UNCHANGED <<isMounted, pool, form, timer, asked, quote, quoteError, isQuoting, marketData, fetching,
                 isConnected, edits, moves, faults>>

\* The page is opened.
MountTrade ==
  /\ ~isMounted /\ isMounted' = TRUE
  /\ UNCHANGED <<pool, form, timer, asked, quote, quoteError, isQuoting, marketData, fetching,
                 isConnected, isExecuting, trading, edits, moves, faults>>

\* External: the market moves.
PoolMoves ==
  /\ isMounted /\ moves < MaxMoves /\ moves' = moves + 1
  /\ \E m \in Markets \ {pool} : pool' = m
  /\ UNCHANGED <<asked, marketData, fetching, quotesUi, edits, faults>>

QuotesInit ==
  /\ pool \in Markets
  /\ form \in [action : {"Buy"}, asset : {"PT"}, amount : {0},
              slippage : {CHOOSE x \in Slippages : TRUE}]
  /\ timer = FALSE /\ asked = [s \in Slots |-> None] /\ quote = None /\ quoteError = None
  /\ isQuoting = FALSE /\ marketData = None /\ fetching = [s \in FetchSlots |-> None]
  /\ isMounted = FALSE /\ isConnected = FALSE /\ isExecuting = FALSE /\ trading = None
  /\ edits = 0 /\ moves = 0 /\ faults = 0

QuotesNext ==
  \/ MountTrade \/ SetAction \/ SetAsset \/ SetAmount \/ SetSlippage \/ HandleMax
  \/ TimerFires \/ FetchMarket \/ Connect \/ PressTrade \/ TradeSucceeds \/ TradeFails \/ PoolMoves
  \/ \E s \in Slots : QuoteFails(s) \/ QuoteAnswers(s)
  \/ \E s \in FetchSlots : MarketAnswers(s) \/ MarketFails(s)

-----------------------------------------------------------------------------
(***************************************************************************)
(* The market information panel.                                           *)
(***************************************************************************)

\* The first line of the panel.
Status(data) ==
  CASE data = None              -> "Market Healthy"
    [] data.twapStale           -> "Stale Market Data"
    [] data.twap >= 1           -> "YT Trading Unavailable"
    [] data.ptPrice > Par       -> "High PT Premium"
    [] \E r \in {data.ptReserve, data.ytReserve, data.underlyingReserve} : r < 100 -> "Thin Liquidity"
    [] OTHER                    -> "Market Healthy"

\* The prices, the oracle row and the liquidity row; zeros until there is data.
Panel(data) ==
  IF data = None THEN [pt |-> 0, yt |-> 0, twap |-> 0, xlm |-> 0]
  ELSE [pt |-> data.ptPrice, yt |-> data.ytPrice,
        twap |-> IF data.twapStale THEN None ELSE data.twap, xlm |-> data.underlyingReserve]

-----------------------------------------------------------------------------
(***************************************************************************)
(* Properties.                                                             *)
(***************************************************************************)

\* What is shown once the form and the market rest: the panel of the pool, and the quote of
\* the form at the price of the pool, its impact measured against the pool too and no error
\* over it, or no quote at all.
Settled ==
  /\ Panel(marketData) = Panel(DataOf(pool, {}))
  /\ Status(marketData) = Status(DataOf(pool, {}))
  /\ IF form.amount = 0 \/ ~isConnected \/ NoLiquidity(form)
     THEN quote = None
     ELSE quote = QuoteOf(form, pool, DataOf(pool, {})) /\ quoteError = None

\* Answers come in any order and an early request's may come last, and a failed request's
\* error stays over the quote of a later one; but when the form and the market rest, the
\* quote of this form at this market is what the user ends up seeing, because every
\* refresh of the market data asks for the quote again.
Settles == <>[](isMounted => Settled)
=============================================================================
