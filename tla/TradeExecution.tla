---------------------------- MODULE TradeExecution ----------------------------
(***************************************************************************)
(* executeTrade: a purchase deposits the underlying for SY and swaps the SY,   *)
(* a sale swaps for SY and redeems it. Each leg is a transaction of its own,    *)
(* simulated, signed in the wallet, sent, and awaited for a while; between the  *)
(* steps other traders move the price and the rate rises. What the code uses    *)
(* of the first leg is the result its simulation foresaw.                     *)
(***************************************************************************)
EXTENDS Web

CONSTANTS
  TradeAmounts,   \* amounts the user trades
  Tolerances,     \* slippage tolerances, in percent
  PoolCapacity,   \* external: SY past which the pool absorbs no more
  Prices,         \* external: tokens the pool gives for one SY
  RateTop,        \* external: highest SY rate
  Holdings,       \* external: what the account may hold at first
  MaxClicks,      \* bound on trades
  MaxShifts,      \* bound on moves of the price
  MaxMishaps      \* bound on transactions that fail, time out or are lost

VARIABLES
  syRate, poolPrice,   \* external: underlying for one SY, tokens for one SY
  purse,          \* external: the account's underlying, SY and tokens
  sequence,       \* external: the account's sequence number
  late,           \* external: transactions awaited in vain that may still settle
  settled,        \* external: the transactions that settled, with what they gave
  trade,          \* the running executeTrade, None when there is none
  told,           \* the last outcome the user was told
  clicks, shifts, mishaps

tradeVars == <<syRate, poolPrice, purse, sequence, late, settled, trade, told, clicks, shifts, mishaps>>
chainVars == <<syRate, poolPrice, purse, sequence, late, settled, shifts>>

First(action)  == IF action = "Buy" THEN "deposit" ELSE "sell"
Second(action) == IF action = "Buy" THEN "buy" ELSE "redeem"

-----------------------------------------------------------------------------
(***************************************************************************)
(* External: the contracts and the network, from the account's side.         *)
(***************************************************************************)

\* What a leg takes of the account, and what it gives.
Taken(leg, n) == IF leg = "buy" THEN Min2(n, PoolCapacity) ELSE n
Given(leg, n) ==
  CASE leg = "deposit" -> n \div syRate
    [] leg = "buy"     -> Taken(leg, n) * poolPrice
    [] leg = "sell"    -> n \div poolPrice
    [] leg = "redeem"  -> n * syRate

Source(leg) == CASE leg = "deposit" -> "und" [] leg \in {"buy", "redeem"} -> "sy" [] leg = "sell" -> "token"
Target(leg) == CASE leg = "deposit" -> "sy" [] leg = "buy" -> "token" [] leg = "sell" -> "sy" [] leg = "redeem" -> "und"

Accepts(tx) == /\ tx.in > 0 /\ purse[Source(tx.leg)] >= tx.in
               /\ Given(tx.leg, tx.in) >= tx.min /\ Given(tx.leg, tx.in) > 0

Settle(tx) ==
  /\ tx.seq = sequence + 1 /\ Accepts(tx)
  /\ sequence' = tx.seq
  /\ purse' = [purse EXCEPT ![Source(tx.leg)] = @ - Taken(tx.leg, tx.in),
                            ![Target(tx.leg)] = @ + Given(tx.leg, tx.in)]
  /\ settled' = settled \cup {[tx |-> tx, out |-> Given(tx.leg, tx.in)]}

-----------------------------------------------------------------------------
(***************************************************************************)
(* executeTrade.                                                           *)
(***************************************************************************)

ApplySlippage(out, slippage) == (out * (100 - slippage)) \div 100

\* The legs an executeTrade goes through: a purchase asks its fresh quote after the
\* deposit, a sale before the swap.
ExecuteTrade ==
  /\ trade = None /\ clicks < MaxClicks
  /\ clicks' = clicks + 1
  /\ \E action \in {"Buy", "Sell"}, n \in TradeAmounts, s \in Tolerances :
       trade' = [action |-> action, amount |-> n, slippage |-> s, shown |-> poolPrice,
                 at |-> IF action = "Buy" THEN "first" ELSE "quote",
                 min |-> 0, fresh |-> 0, sy |-> 0, tx |-> None]
  /\ told' = None
  /\ UNCHANGED <<chainVars, mishaps>>

Ends(outcome) == trade' = None /\ told' = outcome

\* Whatever the error was, of the contracts, of the network or of the wallet, the user is
\* told one line of failure.
TradeError == Ends("failed")

\* The result of a simulated call.
UnwrapResult(leg, n) == Given(leg, n)

\* Variant: the minimum is taken of the quote on display, asked for before the click.
MinOfShown(t, out) ==
  ApplySlippage(IF t.action = "Buy" THEN t.sy * t.shown ELSE t.amount \div t.shown, t.slippage)

MinOut(t, out) == ApplySlippage(out, t.slippage)

\* The quote is asked again for the very amount of the swap; what the pool leaves
\* unspent of a purchase is announced.
FreshQuote ==
  /\ trade # None /\ trade.at = "quote"
  /\ LET leg == IF trade.action = "Buy" THEN "buy" ELSE "sell"
         n   == IF trade.action = "Buy" THEN trade.sy ELSE trade.amount
         out == UnwrapResult(leg, n)
     IN /\ trade' = [trade EXCEPT !.fresh = out, !.min = MinOut(trade, out),
                                  !.at = IF trade.action = "Buy" THEN "second" ELSE "first"]
        /\ told' = IF Taken(leg, n) * 1000 < n * 995 THEN "partial fill" ELSE told
  /\ UNCHANGED <<chainVars, clicks, mishaps>>

\* The transaction of the leg that is due.
Due ==
  LET leg == IF trade.at = "first" THEN First(trade.action) ELSE Second(trade.action)
  IN [click |-> clicks, leg |-> leg, seq |-> sequence + 1,
      in    |-> IF trade.at = "first" THEN trade.amount ELSE trade.sy,
      min   |-> IF leg \in {"buy", "sell"} THEN trade.min ELSE 0,
      floor |-> IF leg \in {"buy", "sell"} THEN ApplySlippage(trade.fresh, trade.slippage) ELSE 0]

\* A leg is simulated; its result is read off the simulation.
Assemble ==
  /\ trade # None /\ trade.at \in {"first", "second"} /\ trade.tx = None
  /\ IF Accepts(Due)
     THEN /\ trade' = [trade EXCEPT !.tx = Due,
                                    !.sy = IF trade.at = "first" THEN UnwrapResult(Due.leg, Due.in) ELSE @]
          /\ UNCHANGED told
     ELSE TradeError
  /\ UNCHANGED <<chainVars, clicks, mishaps>>

\* The user declines, or the network does not take the transaction.
Refused ==
  /\ trade # None /\ trade.tx # None
  /\ TradeError
  /\ UNCHANGED <<chainVars, clicks, mishaps>>

\* After a leg that was answered: the second one, or the end. signAndSend answers with
\* an object whether the transaction succeeded on chain or not, and the object is what
\* the code tests.
Answered ==
  IF trade.at = "second" THEN Ends("success")
  ELSE /\ trade' = [trade EXCEPT !.tx = None,
                                 !.at = IF trade.action = "Buy" THEN "quote" ELSE "second"]
       /\ UNCHANGED told

Confirmed ==
  /\ trade # None /\ trade.tx # None
  /\ Settle(trade.tx)
  /\ Answered
  /\ UNCHANGED <<syRate, poolPrice, late, clicks, shifts, mishaps>>

\* The ledger charges the transaction and fails it: the state moved since the simulation.
FailedOnChain ==
  /\ trade # None /\ trade.tx # None /\ trade.tx.seq = sequence + 1
  /\ \/ ~Accepts(trade.tx) /\ UNCHANGED mishaps
     \/ mishaps < MaxMishaps /\ mishaps' = mishaps + 1
  /\ sequence' = sequence + 1
  /\ Answered
  /\ UNCHANGED <<syRate, poolPrice, purse, late, settled, clicks, shifts>>

\* Variant: a transaction that is not confirmed in time is sent anew.
RetryAfterTimeout == trade' = [trade EXCEPT !.tx = None] /\ UNCHANGED told

AfterTimeout == TradeError

\* The transaction is not in a ledger in time: it throws, and may settle yet.
TimesOut ==
  /\ trade # None /\ trade.tx # None /\ mishaps < MaxMishaps
  /\ mishaps' = mishaps + 1
  /\ late' = late \cup {trade.tx}
  /\ AfterTimeout
  /\ UNCHANGED <<syRate, poolPrice, purse, sequence, settled, clicks, shifts>>

\* External: a transaction nobody waits for settles, or expires.
LateSettles ==
  \E tx \in late :
    /\ Settle(tx)
    /\ late' = late \ {tx}
    /\ UNCHANGED <<syRate, poolPrice, trade, told, clicks, shifts, mishaps>>

LateExpires ==
  \E tx \in late :
    /\ late' = late \ {tx}
    /\ UNCHANGED <<syRate, poolPrice, purse, sequence, settled, trade, told, clicks, shifts, mishaps>>

\* External: other traders move the price, or the rate rises.
MarketShifts ==
  /\ shifts < MaxShifts /\ shifts' = shifts + 1
  /\ \/ poolPrice' \in Prices \ {poolPrice} /\ UNCHANGED syRate
     \/ syRate < RateTop /\ syRate' = syRate + 1 /\ UNCHANGED poolPrice
  /\ UNCHANGED <<purse, sequence, late, settled, trade, told, clicks, mishaps>>

TradeInit ==
  /\ syRate = 1 /\ poolPrice \in Prices
  /\ purse \in Holdings /\ sequence = 0 /\ late = {} /\ settled = {}
  /\ trade = None /\ told = None
  /\ clicks = 0 /\ shifts = 0 /\ mishaps = 0

TradeNext ==
  \/ ExecuteTrade \/ FreshQuote \/ Assemble \/ Refused \/ Confirmed \/ FailedOnChain \/ TimesOut
  \/ LateSettles \/ LateExpires \/ MarketShifts

TradeSpec == TradeInit /\ [][TradeNext]_tradeVars

-----------------------------------------------------------------------------
(***************************************************************************)
(* Properties.                                                             *)
(***************************************************************************)

\* One click settles each of its legs at most once, a transaction that timed out and
\* settled later included: what the user agreed to spend is spent once.
SpentOnce ==
  \A s, t \in settled : (s.tx.click = t.tx.click /\ s.tx.leg = t.tx.leg) => s = t

\* A swap gives at least what the pool quoted for it after the click, less the tolerance
\* the user had chosen, however long the deposit, the signature or the network took.
SettlesWithinSlippage == \A s \in settled : s.out >= s.tx.floor

\* "SY deposit failed on-chain", "AMM swap failed on-chain", "Trade transaction failed
\* on-chain": no leg follows a leg of the same click that did not settle, and success is
\* told of a trade that settled.
FailedLegStopsTrade ==
  /\ \A s \in settled :
       s.tx.leg \in {"buy", "redeem"} =>
         \E t \in settled : t.tx.click = s.tx.click /\ t.tx.leg \in {"deposit", "sell"}
  /\ told = "success" => \E s \in settled : s.tx.click = clicks /\ s.tx.leg \in {"buy", "redeem"}
=============================================================================
