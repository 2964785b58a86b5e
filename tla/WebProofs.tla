------------------------------- MODULE WebProofs -------------------------------
(***************************************************************************)
(* What the trades spend and settle for, what the mint dialog deposits, what   *)
(* the wallet calls connected, how old the prices in memory are, what becomes   *)
(* of notifications, what a verification that says PASS vouches for, and what a *)
(* portfolio adds up to: for any number of handlers, operations, transactions,   *)
(* callers and tabs that overlap, and any number of times a transaction is late,   *)
(* the dialog is closed, the extension changes, and a fetch is tried or fails.  *)
(***************************************************************************)
EXTENDS TradeExecution, MintFlow, Wallet, PriceOracle, Notifications, Verification,
        PortfolioValue, ArithmeticProofs

HandlerFields == {"does", "amount"}
WalletFields  == {"address", "network", "isConnected", "balances", "loading", "failing"}

-----------------------------------------------------------------------------
(***************************************************************************)
(* The trade.                                                              *)
(***************************************************************************)

TradeFields == {"action", "amount", "slippage", "shown", "at", "min", "fresh", "sy", "tx"}

SameLeg(tx, u) == tx.click = u.click /\ tx.leg = u.leg

\* The leg whose transaction is next, and the legs a trade has not been through.
DueLeg(t)    == IF t.at = "first" THEN First(t.action) ELSE Second(t.action)
FirstDone(t) == t.at = "second" \/ (t.at = "quote" /\ t.action = "Buy")
Pending(t)   == IF FirstDone(t) THEN {Second(t.action)} ELSE {First(t.action), Second(t.action)}

\* A transaction is of a click that was made, and protects what it was quoted.
TxSound(tx) == tx.click \in Nat /\ tx.click <= clicks /\ tx.min = tx.floor

LateSound ==
  /\ \A tx \in late : TxSound(tx)
  /\ \A tx, u \in late : SameLeg(tx, u) => tx = u

SettledSound ==
  /\ \A s \in settled : TxSound(s.tx) /\ s.out >= s.tx.floor
  /\ \A s \in settled, tx \in late : ~SameLeg(s.tx, tx)

\* The running trade: what it still has to send was not sent for this click before.
TradeSound ==
  /\ DOMAIN trade = TradeFields
  /\ trade.action \in {"Buy", "Sell"}
  /\ trade.at \in {"first", "quote", "second"}
  /\ (trade.at # "quote" /\ DueLeg(trade) \in {"buy", "sell"}) =>
       trade.min = ApplySlippage(trade.fresh, trade.slippage)
  /\ \A tx \in late : tx.click = clicks => tx.leg \notin Pending(trade)
  /\ \A s \in settled : s.tx.click = clicks => s.tx.leg \notin Pending(trade)
  /\ trade.tx # None =>
       /\ trade.at # "quote"
       /\ trade.tx.click = clicks /\ trade.tx.leg = DueLeg(trade)
       /\ trade.tx.min = trade.tx.floor

TradeInv ==
  /\ clicks \in Nat
  /\ LateSound
  /\ SettledSound
  /\ SpentOnce
  /\ trade # None => TradeSound

-----------------------------------------------------------------------------
\* The due leg is pending, and the transaction on its way is of a leg that is.
LEMMA DueIsPending ==
  ASSUME NEW t, t.at # "quote"
  PROVE  DueLeg(t) \in Pending(t)
  BY DEF DueLeg, Pending, FirstDone

\* The transaction in flight is of a leg that is neither late nor settled.
LEMMA InFlight ==
  ASSUME TradeInv, trade # None, trade.tx # None
  PROVE  /\ TxSound(trade.tx)
         /\ \A tx \in late : ~SameLeg(tx, trade.tx)
         /\ \A s \in settled : ~SameLeg(s.tx, trade.tx)
<1>1. TradeSound
  BY DEF TradeInv
<1>2. trade.tx.leg \in Pending(trade)
  BY <1>1, DueIsPending DEF TradeSound
<1> QED
  BY <1>1, <1>2 DEF TradeSound, SameLeg, TxSound, TradeInv

\* The four names of legs are four.
LEMMA LegsDiffer ==
  ASSUME NEW action \in {"Buy", "Sell"}
  PROVE  First(action) # Second(action)
  BY DEF First, Second

\* What a trade whose transaction was answered does next.
LEMMA AnsweredGoesOn ==
  ASSUME TradeInv, trade # None, trade.tx # None, Answered, clicks' = clicks,
         \A tx \in late' : tx \in late,
         \A s \in settled' : s \in settled \/ s.tx = trade.tx
  PROVE  trade' # None => TradeSound'
<1> SUFFICES ASSUME trade' # None PROVE TradeSound'
  OBVIOUS
<1>1. TradeSound
  BY DEF TradeInv
<1>2. trade.at = "first"
  BY <1>1 DEF Answered, Ends, TradeSound
<1>3. trade' = [trade EXCEPT !.tx = None, !.at = IF trade.action = "Buy" THEN "quote" ELSE "second"]
  BY <1>2 DEF Answered
<1>4. /\ DOMAIN trade' = TradeFields
      /\ trade'.action = trade.action /\ trade'.tx = None
      /\ trade'.at = IF trade.action = "Buy" THEN "quote" ELSE "second"
      /\ trade'.min = trade.min /\ trade'.fresh = trade.fresh /\ trade'.slippage = trade.slippage
  BY <1>1, <1>3 DEF TradeSound, TradeFields
<1>5. Pending(trade') = {Second(trade.action)} /\ trade.tx.leg = First(trade.action)
      /\ Second(trade.action) \in Pending(trade)
  BY <1>1, <1>2, <1>4 DEF Pending, FirstDone, TradeSound, DueLeg
<1>6. /\ trade'.action \in {"Buy", "Sell"}
      /\ trade'.at \in {"first", "quote", "second"}
      /\ trade'.tx # None => FALSE
  BY <1>1, <1>4 DEF TradeSound
<1>7. trade'.at # "quote" => DueLeg(trade') = "redeem"
  BY <1>1, <1>4 DEF TradeSound, DueLeg, Second
<1>8. /\ \A tx \in late' : tx.click = clicks' => tx.leg \notin Pending(trade')
      /\ \A s \in settled' : s.tx.click = clicks' => s.tx.leg \notin Pending(trade')
  BY <1>1, <1>5, LegsDiffer DEF TradeSound
<1> QED
  BY <1>4, <1>6, <1>7, <1>8 DEF TradeSound

\* A transaction that settles adds itself to what settled, with what it gave.
LEMMA SettleSound ==
  ASSUME TradeInv, NEW tx, TxSound(tx), Settle(tx), clicks' = clicks,
         \A s \in settled : ~SameLeg(s.tx, tx),
         \A u \in late' : u \in late /\ ~SameLeg(u, tx)
  PROVE  LateSound' /\ SettledSound' /\ SpentOnce'
<1> DEFINE new == [tx |-> tx, out |-> Given(tx.leg, tx.in)]
<1>1. settled' = settled \cup {new} /\ new.tx = tx /\ new.out = Given(tx.leg, tx.in)
  BY DEF Settle
<1>2. new.out >= new.tx.floor
  BY <1>1 DEF Settle, Accepts, TxSound
<1>3. LateSound'
  BY DEF TradeInv, LateSound, TxSound, SameLeg
<1> HIDE DEF new
<1>4. \A s \in settled' : TxSound(s.tx)' /\ s.out >= s.tx.floor
  BY <1>1, <1>2 DEF TradeInv, SettledSound, TxSound
<1>5. \A s \in settled', u \in late' : ~SameLeg(s.tx, u)
  BY <1>1 DEF TradeInv, SettledSound, SameLeg
<1>6. SpentOnce'
  BY <1>1 DEF TradeInv, SpentOnce, SameLeg
<1> QED
  BY <1>3, <1>4, <1>5, <1>6 DEF SettledSound, SameLeg

-----------------------------------------------------------------------------
\* No trade, nothing settled.
LEMMA TradeStarts == TradeInit => TradeInv
  BY DEF TradeInit, TradeInv, LateSound, SettledSound, SpentOnce

\* A click starts a trade that has been through no leg.
LEMMA ExecuteStep == TradeInv /\ ExecuteTrade => TradeInv'
<1> SUFFICES ASSUME TradeInv, ExecuteTrade PROVE TradeInv'
  OBVIOUS
<1>1. clicks \in Nat /\ clicks' = clicks + 1 /\ late' = late /\ settled' = settled
  BY DEF TradeInv, ExecuteTrade, chainVars
<1>2. /\ \A tx \in late : tx.click \in Nat /\ tx.click < clicks'
      /\ \A s \in settled : s.tx.click \in Nat /\ s.tx.click < clicks'
  BY <1>1 DEF TradeInv, LateSound, SettledSound, TxSound
<1>3. LateSound' /\ SettledSound' /\ SpentOnce'
  BY <1>1, <1>2 DEF TradeInv, LateSound, SettledSound, SpentOnce, TxSound, SameLeg
<1>4. TradeSound'
  <2>1. PICK action \in {"Buy", "Sell"}, n \in TradeAmounts, s \in Tolerances :
          trade' = [action |-> action, amount |-> n, slippage |-> s, shown |-> poolPrice,
                    at |-> IF action = "Buy" THEN "first" ELSE "quote",
                    min |-> 0, fresh |-> 0, sy |-> 0, tx |-> None]
    BY DEF ExecuteTrade
  <2>2. /\ DOMAIN trade' = TradeFields /\ trade'.action = action /\ trade'.tx = None
        /\ trade'.at = IF action = "Buy" THEN "first" ELSE "quote"
    BY <2>1 DEF TradeFields
  <2>3. trade'.at # "quote" => DueLeg(trade') = "deposit"
    BY <2>2 DEF DueLeg, First
  <2>4. /\ \A tx \in late' : tx.click # clicks'
        /\ \A s1 \in settled' : s1.tx.click # clicks'
    BY <1>1, <1>2
  <2> QED
    BY <2>2, <2>3, <2>4 DEF TradeSound
<1> QED
  BY <1>1, <1>3, <1>4 DEF TradeInv

\* A new quote brings a new minimum and leaves the legs alone.
LEMMA FreshQuoteStep == TradeInv /\ FreshQuote => TradeInv'
<1> SUFFICES ASSUME TradeInv, FreshQuote PROVE TradeInv'
  OBVIOUS
<1>1. clicks' = clicks /\ late' = late /\ settled' = settled /\ TradeSound /\ trade.at = "quote"
  BY DEF TradeInv, FreshQuote, chainVars
<1>2. PICK out :
        trade' = [trade EXCEPT !.fresh = out, !.min = MinOut(trade, out),
                               !.at = IF trade.action = "Buy" THEN "second" ELSE "first"]
  BY DEF FreshQuote
<1>3. /\ DOMAIN trade' = TradeFields
      /\ trade'.action = trade.action /\ trade'.tx = trade.tx /\ trade'.slippage = trade.slippage
      /\ trade'.at = IF trade.action = "Buy" THEN "second" ELSE "first"
      /\ trade'.fresh = out /\ trade'.min = ApplySlippage(out, trade.slippage)
  BY <1>1, <1>2 DEF TradeSound, TradeFields, MinOut
<1>4. Pending(trade') = Pending(trade) /\ trade.tx = None
  BY <1>1, <1>3 DEF Pending, FirstDone, TradeSound
<1>5. TradeSound'
  BY <1>1, <1>3, <1>4 DEF TradeSound
<1> QED
  BY <1>1, <1>5 DEF TradeInv, LateSound, SettledSound, SpentOnce, TxSound, SameLeg

\* The minimum of a transaction that is assembled is the one of the fresh quote.
LEMMA DueIsSound ==
  ASSUME TradeSound, trade.at # "quote"
  PROVE  Due.click = clicks /\ Due.leg = DueLeg(trade) /\ Due.min = Due.floor
  BY DEF TradeSound, Due, DueLeg

\* What is sent is of the leg that is due, and protects what it was quoted.
LEMMA AssembleStep == TradeInv /\ Assemble => TradeInv'
<1> SUFFICES ASSUME TradeInv, Assemble PROVE TradeInv'
  OBVIOUS
<1>1. /\ clicks' = clicks /\ late' = late /\ settled' = settled /\ TradeSound
      /\ trade.at \in {"first", "second"}
  BY DEF TradeInv, Assemble, chainVars
<1>2. trade' # None => TradeSound'
  <2> SUFFICES ASSUME trade' # None PROVE TradeSound'
    OBVIOUS
  <2>1. PICK sy : trade' = [trade EXCEPT !.tx = Due, !.sy = sy]
    BY DEF Assemble, TradeError, Ends
  <2>2. /\ DOMAIN trade' = TradeFields
        /\ trade'.action = trade.action /\ trade'.tx = Due /\ trade'.slippage = trade.slippage
        /\ trade'.at = trade.at /\ trade'.fresh = trade.fresh /\ trade'.min = trade.min
    BY <1>1, <2>1 DEF TradeSound, TradeFields
  <2>3. Pending(trade') = Pending(trade) /\ DueLeg(trade') = DueLeg(trade)
    BY <2>2 DEF Pending, FirstDone, DueLeg
  <2>4. Due.click = clicks /\ Due.leg = DueLeg(trade) /\ Due.min = Due.floor
    BY <1>1, DueIsSound
  <2> QED
    BY <1>1, <2>2, <2>3, <2>4 DEF TradeSound
<1> QED
  BY <1>1, <1>2 DEF TradeInv, LateSound, SettledSound, SpentOnce, TxSound, SameLeg

\* A confirmation settles the leg in flight, which was pending.
LEMMA ConfirmedStep == TradeInv /\ Confirmed => TradeInv'
<1> SUFFICES ASSUME TradeInv, Confirmed PROVE TradeInv'
  OBVIOUS
<1>1. clicks' = clicks /\ late' = late /\ trade # None /\ trade.tx # None /\ Settle(trade.tx)
  BY DEF Confirmed
<1>2. LateSound' /\ SettledSound' /\ SpentOnce'
  BY <1>1, InFlight, SettleSound
<1>3. \A s \in settled' : s \in settled \/ s.tx = trade.tx
  BY <1>1 DEF Settle
<1>4. trade' # None => TradeSound'
  BY <1>1, <1>3, AnsweredGoesOn DEF Confirmed
<1> QED
  BY <1>1, <1>2, <1>4 DEF TradeInv

\* A failure settles nothing.
LEMMA FailedOnChainStep == TradeInv /\ FailedOnChain => TradeInv'
<1> SUFFICES ASSUME TradeInv, FailedOnChain PROVE TradeInv'
  OBVIOUS
<1>1. clicks' = clicks /\ late' = late /\ settled' = settled /\ trade # None /\ trade.tx # None
  BY DEF FailedOnChain
<1>2. trade' # None => TradeSound'
  BY <1>1, AnsweredGoesOn DEF FailedOnChain
<1> QED
  BY <1>1, <1>2 DEF TradeInv, LateSound, SettledSound, SpentOnce, TxSound, SameLeg

\* A timeout makes the transaction late, and settles nothing.
LEMMA TimesOutStep == TradeInv /\ TimesOut => TradeInv'
<1> SUFFICES ASSUME TradeInv, TimesOut PROVE TradeInv'
  OBVIOUS
<1>1. /\ clicks' = clicks /\ late' = late \cup {trade.tx} /\ settled' = settled
      /\ trade # None /\ trade.tx # None /\ trade' = None
  BY DEF TimesOut, AfterTimeout, TradeError, Ends
<1>2. /\ TxSound(trade.tx)
      /\ \A tx \in late : ~SameLeg(tx, trade.tx)
      /\ \A s \in settled : ~SameLeg(s.tx, trade.tx)
  BY <1>1, InFlight
<1> QED
  BY <1>1, <1>2 DEF TradeInv, LateSound, SettledSound, SpentOnce, TxSound, SameLeg

\* A late transaction settles its leg, which had not settled.
LEMMA LateSettlesStep == TradeInv /\ LateSettles => TradeInv'
<1> SUFFICES ASSUME TradeInv, LateSettles PROVE TradeInv'
  OBVIOUS
<1>1. PICK tx \in late : Settle(tx) /\ late' = late \ {tx} /\ trade' = trade /\ clicks' = clicks
  BY DEF LateSettles
<1>2. /\ TxSound(tx)
      /\ \A s \in settled : ~SameLeg(s.tx, tx)
      /\ \A u \in late' : u \in late /\ ~SameLeg(u, tx)
  BY <1>1 DEF TradeInv, LateSound, SettledSound
<1>3. LateSound' /\ SettledSound' /\ SpentOnce'
  BY <1>1, <1>2, SettleSound
<1>4. \A s \in settled' : s \in settled \/ s.tx = tx
  BY <1>1 DEF Settle
<1>5. trade # None => TradeSound'
  BY <1>1, <1>4 DEF TradeInv, TradeSound
<1> QED
  BY <1>1, <1>3, <1>5 DEF TradeInv

\* The other steps touch neither transactions nor legs.
LEMMA OtherSteps == TradeInv /\ (Refused \/ LateExpires \/ MarketShifts \/ UNCHANGED tradeVars) => TradeInv'
<1> SUFFICES ASSUME TradeInv, Refused \/ LateExpires \/ MarketShifts \/ UNCHANGED tradeVars
             PROVE  TradeInv'
  OBVIOUS
<1>1. /\ clicks' = clicks /\ settled' = settled /\ late' \subseteq late
      /\ trade' = None \/ trade' = trade
  BY DEF Refused, TradeError, Ends, LateExpires, MarketShifts, tradeVars, chainVars
<1>2. trade' # None => TradeSound'
  BY <1>1 DEF TradeInv, TradeSound
<1> QED
  BY <1>1, <1>2 DEF TradeInv, LateSound, SettledSound, SpentOnce, TxSound, SameLeg

\* The invariant holds of every behaviour.
THEOREM TradeInvariance == TradeSpec => []TradeInv
<1>1. TradeInv /\ [TradeNext]_tradeVars => TradeInv'
  BY ExecuteStep, FreshQuoteStep, AssembleStep, ConfirmedStep, FailedOnChainStep, TimesOutStep,
     LateSettlesStep, OtherSteps DEF TradeNext
<1> QED
  BY TradeStarts, <1>1, PTL DEF TradeSpec

\* executeTrade sends one transaction a leg, and after one that timed out nothing of that
\* click any more, so that whichever of them settle late, no leg settles twice.
THEOREM SpendsOnce == TradeSpec => []SpentOnce
<1>1. TradeInv => SpentOnce
  BY DEF TradeInv
<1> QED
  BY <1>1, TradeInvariance, PTL

\* The minimum of every swap that is sent is taken of the quote asked for after the click,
\* for the amount of that swap.
THEOREM WithinSlippage == TradeSpec => []SettlesWithinSlippage
<1>1. TradeInv => SettlesWithinSlippage
  BY DEF TradeInv, SettledSound, SettlesWithinSlippage
<1> QED
  BY <1>1, TradeInvariance, PTL

-----------------------------------------------------------------------------
(***************************************************************************)
(* The mint dialog.                                                        *)
(***************************************************************************)

\* The amount under review, and those of the deposits under way, were previewed.
MintInv ==
  /\ DOMAIN running = Handlers
  /\ \A h \in Handlers : running[h] # None => DOMAIN running[h] = HandlerFields
  /\ simulationData # None => simulationData \in previewed
  /\ \A h \in Handlers :
       (running[h] # None /\ running[h].does = "deposit") => running[h].amount \in previewed
  /\ DepositsWerePreviewed

\* Nothing previewed, nothing deposited.
LEMMA MintStarts == MintInit => MintInv
  BY DEF MintInit, MintInv, DepositsWerePreviewed

\* A handler that ends, or that starts with an amount that is safe, keeps the rest as it is.
LEMMA HandlerEnds ==
  ASSUME MintInv, NEW h \in Handlers, running' = [running EXCEPT ![h] = None],
         previewed \subseteq previewed', deposited' = deposited,
         simulationData' # None => simulationData' \in previewed'
  PROVE  MintInv'
<1>1. DOMAIN running' = Handlers
  BY DEF MintInv
<1>2. \A g \in Handlers : running'[g] # None => running'[g] = running[g]
  BY DEF MintInv
<1> QED
  BY <1>1, <1>2 DEF MintInv, DepositsWerePreviewed

\* A handler may start, if what it deposits was previewed.
LEMMA HandlerStarts ==
  ASSUME MintInv, NEW h \in Handlers, NEW op, running' = [running EXCEPT ![h] = op],
         DOMAIN op = HandlerFields, op.does = "deposit" => op.amount \in previewed,
         UNCHANGED <<previewed, deposited, simulationData>>
  PROVE  MintInv'
<1>1. DOMAIN running' = Handlers
  BY DEF MintInv
<1>2. \A g \in Handlers : running'[g] = running[g] \/ running'[g] = op
  BY DEF MintInv
<1> QED
  BY <1>1, <1>2 DEF MintInv, DepositsWerePreviewed

\* The preview handler deposits nothing.
LEMMA HandleMintStep == MintInv /\ HandleMint => MintInv'
<1> SUFFICES ASSUME MintInv, NEW h \in Handlers,
                    running' = [running EXCEPT ![h] = [does |-> "preview", amount |-> amount]],
                    UNCHANGED <<previewed, deposited, simulationData>>
             PROVE  MintInv'
  BY DEF HandleMint
<1> DEFINE op == [does |-> "preview", amount |-> amount]
<1>1. DOMAIN op = HandlerFields /\ op.does # "deposit"
  BY DEF HandlerFields
<1> QED
  BY <1>1, HandlerStarts

\* The confirm handler deposits what the dialog shows, which was previewed.
LEMMA HandleConfirmStep == MintInv /\ HandleConfirm => MintInv'
<1> SUFFICES ASSUME MintInv, NEW h \in Handlers, ReviewPanel,
                    running' = [running EXCEPT ![h] = [does |-> "deposit", amount |-> AmountToDeposit]],
                    UNCHANGED <<previewed, deposited, simulationData>>
             PROVE  MintInv'
  BY DEF HandleConfirm
<1> DEFINE op == [does |-> "deposit", amount |-> AmountToDeposit]
<1>1. DOMAIN op = HandlerFields /\ op.amount \in previewed
  BY DEF HandlerFields, AmountToDeposit, ReviewPanel, MintInv
<1> QED
  BY <1>1, HandlerStarts

\* A deposit that is answered was started with a previewed amount.
LEMMA DepositAnswersStep ==
  ASSUME MintInv, NEW h \in Handlers, DepositAnswers(h)
  PROVE  MintInv'
<1>1. /\ running[h] # None /\ running[h].does = "deposit"
      /\ running' = [running EXCEPT ![h].does = "split"]
      /\ deposited' = deposited \cup {running[h].amount}
      /\ UNCHANGED <<previewed, simulationData>>
  BY DEF DepositAnswers
<1>2. DOMAIN running' = Handlers /\ \A g \in Handlers \ {h} : running'[g] = running[g]
  BY <1>1 DEF MintInv
<1>3. DOMAIN running'[h] = HandlerFields /\ running'[h].does = "split"
  BY <1>1 DEF MintInv, HandlerFields
<1>4. deposited' \subseteq previewed
  BY <1>1 DEF MintInv, DepositsWerePreviewed
<1> QED
  BY <1>1, <1>2, <1>3, <1>4 DEF MintInv, DepositsWerePreviewed

\* Every step of the dialog keeps the invariant.
LEMMA MintStep == MintInv /\ [MintNext]_mintVars => MintInv'
<1> SUFFICES ASSUME MintInv, [MintNext]_mintVars PROVE MintInv'
  OBVIOUS
<1>1. CASE UNCHANGED <<running, previewed, deposited, simulationData>>
  BY <1>1 DEF MintInv, DepositsWerePreviewed
<1>2. CASE HandleMint
  BY <1>2, HandleMintStep
<1>3. CASE HandleConfirm
  BY <1>3, HandleConfirmStep
<1>4. ASSUME NEW h \in Handlers, Previewed(h) PROVE MintInv'
  BY <1>4, HandlerEnds DEF Previewed
<1>5. ASSUME NEW h \in Handlers, Throws(h) \/ SplitAnswers(h) PROVE MintInv'
  <2>1. /\ running' = [running EXCEPT ![h] = None]
        /\ previewed' = previewed /\ deposited' = deposited /\ simulationData' = simulationData
    BY <1>5 DEF Throws, SplitAnswers
  <2> QED
    BY <2>1, HandlerEnds DEF MintInv
<1>6. ASSUME NEW h \in Handlers, DepositAnswers(h) PROVE MintInv'
  BY <1>6, DepositAnswersStep
<1>7. ASSUME Open \/ BalancesReported \/ SelectVault \/ TypeAmount \/ Cancel \/ HandleClose
             \/ UNCHANGED mintVars
      PROVE  UNCHANGED <<running, previewed, deposited, simulationData>>
  BY <1>7 DEF Open, BalancesReported, SelectVault, TypeAmount, Cancel, HandleClose, mintVars
<1> QED
  BY <1>1, <1>2, <1>3, <1>4, <1>5, <1>6, <1>7 DEF MintNext

\* handleConfirm deposits simulationData, which only a preview sets: however many handlers
\* run and whatever the form shows by then, what is deposited was previewed.
THEOREM PreviewedFirst == MintSpec => []DepositsWerePreviewed
<1>1. MintInv => DepositsWerePreviewed
  BY DEF MintInv
<1> QED
  BY MintStarts, MintStep, <1>1, PTL DEF MintSpec

-----------------------------------------------------------------------------
(***************************************************************************)
(* The wallet.                                                             *)
(***************************************************************************)

WalletInv == DOMAIN wallet = WalletFields /\ ConnectedOnTarget

\* Nothing is connected at first.
LEMMA WalletStarts == WalletInit => WalletInv
  BY DEF WalletInit, WalletInv, WalletFields, ConnectedOnTarget

\* A step that leaves the account, the network and the connection alone, or ends it.
LEMMA StaysSound ==
  ASSUME WalletInv, NEW w, DOMAIN w = WalletFields,
         \/ w.address = wallet.address /\ w.network = wallet.network /\ w.isConnected = wallet.isConnected
         \/ ~w.isConnected,
         wallet' = w
  PROVE  WalletInv'
  BY DEF WalletInv, ConnectedOnTarget

\* Giving up an operation connects nothing.
LEMMA GivesUpStep ==
  ASSUME WalletInv, NEW h, GivesUp(h)
  PROVE  WalletInv'
<1>1. CASE pending[h].kind = "init"
  <2>1. wallet' = [wallet EXCEPT !.loading = FALSE, !.failing = TRUE]
    BY <1>1 DEF GivesUp, SetState
  <2> QED
    BY <2>1 DEF WalletInv, WalletFields, ConnectedOnTarget
<1>2. CASE pending[h].kind # "init"
  <2>1. wallet' = [wallet EXCEPT !.loading = FALSE, !.failing = TRUE, !.address = None,
                                  !.network = None, !.isConnected = FALSE]
    BY <1>2 DEF GivesUp, SetState
  <2> QED
    BY <2>1 DEF WalletInv, WalletFields, ConnectedOnTarget
<1> QED
  BY <1>1, <1>2

\* Neither does the end of loading.
LEMMA LoadingEnds ==
  ASSUME WalletInv, wallet' = [wallet EXCEPT !.loading = FALSE]
  PROVE  WalletInv'
  BY DEF WalletInv, WalletFields, ConnectedOnTarget

\* Nor does a call that starts.
LEMMA CallStep ==
  ASSUME WalletInv, NEW h, NEW kind, CallWallet(h, kind)
  PROVE  WalletInv'
<1>1. wallet' = [wallet EXCEPT !.loading = TRUE, !.failing = FALSE]
  BY DEF CallWallet, SetState
<1> QED
  BY <1>1 DEF WalletInv, WalletFields, ConnectedOnTarget

\* Disconnecting leaves no address.
LEMMA DisconnectStep == WalletInv /\ DisconnectWallet => WalletInv'
<1> SUFFICES ASSUME WalletInv, DisconnectWallet PROVE WalletInv'
  OBVIOUS
<1>1. wallet' = [wallet EXCEPT !.address = None, !.network = None, !.failing = FALSE,
                                !.isConnected = FALSE, !.balances = NoBalances]
  BY DEF DisconnectWallet, SetState
<1> QED
  BY <1>1 DEF WalletInv, WalletFields, ConnectedOnTarget

\* That the extension is there connects nothing yet.
LEMMA AvailableStep ==
  ASSUME WalletInv, NEW h, AvailableAnswers(h)
  PROVE  WalletInv'
<1>1. CASE wallet' = wallet
  BY <1>1 DEF WalletInv, ConnectedOnTarget
<1>2. CASE GivesUp(h)
  BY <1>2, GivesUpStep
<1>3. CASE wallet' = [wallet EXCEPT !.loading = FALSE]
  BY <1>3, LoadingEnds
<1> QED
  BY <1>1, <1>2, <1>3 DEF AvailableAnswers, Proceeds, SetState

\* An address alone connects nothing yet.
LEMMA AddressStep ==
  ASSUME WalletInv, NEW h, AddressAnswers(h)
  PROVE  WalletInv'
<1>1. CASE wallet' = wallet
  BY <1>1 DEF WalletInv, ConnectedOnTarget
<1>2. CASE GivesUp(h)
  BY <1>2, GivesUpStep
<1>3. CASE wallet' = [wallet EXCEPT !.loading = FALSE]
  BY <1>3, LoadingEnds
<1> QED
  BY <1>1, <1>2, <1>3 DEF AddressAnswers, Proceeds, SetState

\* The one step that connects: it has an account and has compared the network.
LEMMA NetworkStep ==
  ASSUME WalletInv, NEW h, NetworkAnswers(h)
  PROVE  WalletInv'
<1>1. PICK n \in {freighter.network, None} :
        IF Accepted(n) /\ pending[h].address # None
        THEN wallet' = [wallet EXCEPT !.address = pending[h].address, !.network = n,
                                      !.isConnected = TRUE, !.failing = FALSE,
                                      !.loading = pending[h].kind = "init"]
        ELSE \/ wallet' = [wallet EXCEPT !.loading = FALSE, !.failing = TRUE, !.isConnected = FALSE]
             \/ GivesUp(h)
  BY DEF NetworkAnswers, SetState
<1>2. CASE Accepted(n) /\ pending[h].address # None
  BY <1>1, <1>2 DEF WalletInv, WalletFields, ConnectedOnTarget, Accepted
<1>3. CASE wallet' = [wallet EXCEPT !.loading = FALSE, !.failing = TRUE, !.isConnected = FALSE]
  BY <1>3 DEF WalletInv, WalletFields, ConnectedOnTarget
<1>4. CASE GivesUp(h)
  BY <1>4, GivesUpStep
<1> QED
  BY <1>1, <1>2, <1>3, <1>4

\* The refresh ends: the balances, or the failure, and for an init the loading.
LEMMA RefreshedStep ==
  ASSUME WalletInv, NEW h, NEW w, Refreshed(h, w), DOMAIN w = WalletFields,
         w.address = wallet.address, w.network = wallet.network, w.isConnected = wallet.isConnected
  PROVE  WalletInv'
<1>1. wallet' = w \/ wallet' = [w EXCEPT !.loading = FALSE]
  BY DEF Refreshed, SetState
<1>2. CASE wallet' = [w EXCEPT !.loading = FALSE]
  BY <1>2 DEF WalletInv, WalletFields, ConnectedOnTarget
<1> QED
  BY <1>1, <1>2, StaysSound

\* Balances from Horizon change nothing about the connection.
LEMMA HorizonStep ==
  ASSUME WalletInv, NEW h, HorizonAnswers(h)
  PROVE  WalletInv'
<1>1. CASE wallet' = wallet
  BY <1>1 DEF WalletInv, ConnectedOnTarget
<1>2. CASE Refreshed(h, [wallet EXCEPT !.failing = TRUE])
  <2> DEFINE w == [wallet EXCEPT !.failing = TRUE]
  <2>1. /\ DOMAIN w = WalletFields
        /\ w.address = wallet.address /\ w.network = wallet.network /\ w.isConnected = wallet.isConnected
    BY DEF WalletInv, WalletFields
  <2> HIDE DEF w
  <2>2. Refreshed(h, w)
    BY <1>2 DEF w
  <2> QED
    BY <2>1, <2>2, RefreshedStep
<1> QED
  BY <1>1, <1>2 DEF HorizonAnswers, Proceeds

\* Neither do those of the tokens.
LEMMA TokensStep ==
  ASSUME WalletInv, NEW h, TokensAnswer(h)
  PROVE  WalletInv'
<1>1. PICK got \in FetchedTokens :
        Refreshed(h, [wallet EXCEPT !.balances = [of |-> pending[h].address, tokens |-> got]])
  BY DEF TokensAnswer
<1> DEFINE w == [wallet EXCEPT !.balances = [of |-> pending[h].address, tokens |-> got]]
<1>2. /\ DOMAIN w = WalletFields
      /\ w.address = wallet.address /\ w.network = wallet.network /\ w.isConnected = wallet.isConnected
  BY DEF WalletInv, WalletFields
<1> HIDE DEF w
<1>3. Refreshed(h, w)
  BY <1>1 DEF w
<1> QED
  BY <1>2, <1>3, RefreshedStep

\* Every step of the wallet keeps the invariant.
LEMMA WalletStep == WalletInv /\ [WalletNext]_walletVars => WalletInv'
<1> SUFFICES ASSUME WalletInv, [WalletNext]_walletVars PROVE WalletInv'
  OBVIOUS
<1>1. CASE wallet' = wallet
  BY <1>1 DEF WalletInv, ConnectedOnTarget
<1>2. CASE InitWallet \/ ConnectWallet
  BY <1>2, CallStep DEF InitWallet, ConnectWallet
<1>3. CASE DisconnectWallet
  BY <1>3, DisconnectStep
<1>4. ASSUME NEW h \in Operations, ServiceAnswers(h) PROVE WalletInv'
  BY <1>4, AvailableStep, AddressStep, NetworkStep, HorizonStep, TokensStep DEF ServiceAnswers
<1>5. ASSUME RefreshBalances \/ Switch \/ UNCHANGED serviceVars \/ UNCHANGED walletVars
      PROVE  wallet' = wallet
  BY <1>5 DEF RefreshBalances, Switch, serviceVars, walletVars
<1> QED
  BY <1>1, <1>2, <1>3, <1>4, <1>5 DEF WalletNext

\* init and connectWallet compare the network with the one the application is for before
\* they set the account, and every other step leaves the two together or takes both away.
THEOREM OnTarget == WalletSpec => []ConnectedOnTarget
<1>1. WalletInv => ConnectedOnTarget
  BY DEF WalletInv
<1> QED
  BY WalletStarts, WalletStep, <1>1, PTL DEF WalletSpec

-----------------------------------------------------------------------------
(***************************************************************************)
(* The price oracle.                                                       *)
(***************************************************************************)

FetchSound(f) ==
  /\ DOMAIN f = {"began", "tries", "sent"}
  /\ f.began \in Nat /\ f.sent \in Nat /\ f.began <= f.sent

\* What is in memory was given after the time it is stamped with.
MemorySound == cachedData.of \in Nat /\ cachedData.stamp \in Nat /\ cachedData.stamp <= cachedData.of

OracleInv ==
  /\ clock \in Nat
  /\ DOMAIN fetches = Callers
  /\ \A c \in Callers : fetches[c] # None => FetchSound(fetches[c])
  /\ cachedData # None => MemorySound
  /\ MemoryIsFresh

\* Memory is empty at first.
LEMMA OracleStarts == OracleInit => OracleInv
  BY DEF OracleInit, OracleInv, MemoryIsFresh

\* A caller is answered from memory only while it is fresh, or starts a fetch.
LEMMA GetTickerStep ==
  ASSUME OracleInv, NEW c \in Callers, GetTicker(c)
  PROVE  OracleInv'
<1>1. clock' = clock /\ cachedData' = cachedData /\ clock \in Nat
  BY DEF GetTicker, OracleInv
<1>2. CASE Fresh
  <2>1. answered' = [how |-> "memory", of |-> cachedData.of, at |-> clock] /\ fetches' = fetches
    BY <1>2 DEF GetTicker, Served
  <2>2. MemorySound /\ clock - cachedData.stamp < CacheDuration
    BY <1>2 DEF Fresh, OracleInv
  <2>3. MemoryIsFresh'
    BY <1>1, <2>1, <2>2, PriceOracleAssumption DEF MemoryIsFresh, MemorySound
  <2> QED
    BY <1>1, <2>1, <2>3 DEF OracleInv, MemorySound
<1>3. CASE ~Fresh
  <2> DEFINE f == [began |-> clock, tries |-> 1, sent |-> clock]
  <2>1. answered' = answered /\ fetches' = [fetches EXCEPT ![c] = f]
    BY <1>3 DEF GetTicker
  <2>2. FetchSound(f)
    BY <1>1 DEF FetchSound
  <2> HIDE DEF f
  <2>3. DOMAIN fetches' = Callers /\ \A d \in Callers : fetches'[d] # None => FetchSound(fetches'[d])
    BY <2>1, <2>2 DEF OracleInv
  <2> QED
    BY <1>1, <2>1, <2>3 DEF OracleInv, MemoryIsFresh, MemorySound
<1> QED
  BY <1>2, <1>3

\* An answer puts a price in memory with the time its fetch began.
LEMMA FetchAnswersStep ==
  ASSUME OracleInv, NEW c \in Callers, FetchAnswersTicker(c)
  PROVE  OracleInv'
<1>1. PICK of \in ServerAnswers(fetches[c]) :
        /\ cachedData' = [of |-> of, stamp |-> fetches[c].began]
        /\ answered' = [how |-> "exchange", of |-> of, at |-> clock]
  BY DEF FetchAnswersTicker, Stamp, Served
<1>2. fetches' = [fetches EXCEPT ![c] = None] /\ clock' = clock /\ FetchSound(fetches[c])
  BY DEF FetchAnswersTicker, OracleInv
<1>3. MemorySound'
  BY <1>1, <1>2 DEF MemorySound, ServerAnswers, FetchSound, OracleInv
<1>4. DOMAIN fetches' = Callers /\ \A d \in Callers : fetches'[d] # None => fetches'[d] = fetches[d]
  BY <1>2 DEF OracleInv
<1>5. MemoryIsFresh'
  BY <1>1 DEF MemoryIsFresh
<1> QED
  BY <1>2, <1>3, <1>4, <1>5 DEF OracleInv

\* A retry keeps the time the fetch began.
LEMMA FetchWithRetryStep ==
  ASSUME OracleInv, NEW c \in Callers, FetchWithRetry(c)
  PROVE  OracleInv'
<1>1. PICK when \in clock..MaxClock :
        fetches' = [fetches EXCEPT ![c].tries = @ + 1, ![c].sent = when]
  BY DEF FetchWithRetry
<1>2. /\ UNCHANGED <<clock, cachedData, answered>>
      /\ FetchSound(fetches[c]) /\ fetches[c].sent <= clock /\ clock \in Nat
  BY DEF FetchWithRetry, Fails, OracleInv, FetchSound
<1>3. /\ DOMAIN fetches' = Callers /\ \A d \in Callers \ {c} : fetches'[d] = fetches[d]
      /\ DOMAIN fetches'[c] = {"began", "tries", "sent"}
      /\ fetches'[c].began = fetches[c].began /\ fetches'[c].sent = when
  BY <1>1, <1>2 DEF OracleInv, FetchSound
<1>4. FetchSound(fetches'[c])
  BY <1>2, <1>3, PriceOracleAssumption DEF FetchSound
<1> QED
  BY <1>2, <1>3, <1>4 DEF OracleInv, MemoryIsFresh, MemorySound

\* A fetch that fails leaves memory alone.
LEMMA FallsBackStep ==
  ASSUME OracleInv, NEW c \in Callers, FallsBack(c)
  PROVE  OracleInv'
<1>1. fetches' = [fetches EXCEPT ![c] = None] /\ UNCHANGED <<clock, cachedData>>
  BY DEF FallsBack
<1>2. DOMAIN fetches' = Callers /\ \A d \in Callers : fetches'[d] # None => fetches'[d] = fetches[d]
  BY <1>1 DEF OracleInv
<1>3. answered'.how # "memory"
  BY DEF FallsBack, Served
<1> QED
  BY <1>1, <1>2, <1>3 DEF OracleInv, MemoryIsFresh, MemorySound

\* Every step of the oracle keeps the invariant.
LEMMA OracleStep == OracleInv /\ [OracleNext]_oracleVars => OracleInv'
<1> SUFFICES ASSUME OracleInv, [OracleNext]_oracleVars PROVE OracleInv'
  OBVIOUS
<1>1. CASE Reload
  <2>1. /\ clock' = clock /\ cachedData' = None /\ answered' = None
        /\ fetches' = [c \in Callers |-> None]
    BY <1>1 DEF Reload
  <2> QED
    BY <2>1 DEF OracleInv, MemoryIsFresh
<1>2. CASE ClockTicks \/ UNCHANGED oracleVars
  <2>1. clock' \in Nat /\ UNCHANGED <<cachedData, fetches, answered>>
    BY <1>2 DEF ClockTicks, oracleVars, OracleInv
  <2> QED
    BY <2>1 DEF OracleInv, MemoryIsFresh, MemorySound
<1> QED
  BY <1>1, <1>2, GetTickerStep, FetchAnswersStep, FetchWithRetryStep, FallsBackStep DEF OracleNext

\* getTicker stamps an answer with the time the call began, before any of its tries: what
\* the memory serves without asking was given within the cache's duration.
THEOREM FreshMemory == OracleSpec => []MemoryIsFresh
<1>1. OracleInv => MemoryIsFresh
  BY DEF OracleInv
<1> QED
  BY OracleStarts, OracleStep, <1>1, PTL DEF OracleSpec

-----------------------------------------------------------------------------
(***************************************************************************)
(* The notifications.                                                      *)
(***************************************************************************)

Note == [id : Nat, read : BOOLEAN]

\* The item is a list or absent, each tab's cache holds the list of the item it read last, and
\* what a tab is about to save is that list with the tab's own change.
NotesInv ==
  /\ stored \in Seq(Note) \cup {None}
  /\ added \in Nat
  /\ DOMAIN cached = Tabs /\ DOMAIN change = Tabs
  /\ \A t \in Tabs : /\ cached[t].list = ListOf(cached[t].raw)
                     /\ change[t].phase = "saving" =>
                          change[t].list \in Seq(Note) /\ Kept(cached[t].list, change[t].list)

\* No tab works on anything but the list as it is stored.
LEMMA CacheIsCurrent ==
  ASSUME NotesInv, NEW t \in Tabs
  PROVE  GetNotifications(t) = ListOf(stored) /\ ListOf(stored) \in Seq(Note)
<1>1. GetNotifications(t) = ListOf(stored)
  BY DEF NotesInv, GetNotifications
<1>2. ListOf(stored) \in Seq(Note)
  BY DEF NotesInv, ListOf
<1> QED BY <1>1, <1>2

\* A tab that takes in the item has the list of it, and the other caches are untouched.
LEMMA TakenIn ==
  ASSUME NotesInv, NEW t \in Tabs, TakesIn(t)
  PROVE  /\ DOMAIN cached' = Tabs
         /\ cached'[t].raw = stored /\ cached'[t].list = ListOf(stored)
         /\ \A u \in Tabs \ {t} : cached'[u] = cached[u]
<1>1. cached' = [cached EXCEPT ![t] = [raw |-> stored, list |-> ListOf(stored)]]
  BY CacheIsCurrent DEF TakesIn
<1> QED BY <1>1 DEF NotesInv

\* A tab that takes in the item and goes on to something that is not wrong about it.
LEMMA BegunStep ==
  ASSUME NotesInv, NEW t \in Tabs, TakesIn(t), UNCHANGED stored, added' \in Nat,
         NEW c, change' = [change EXCEPT ![t] = c],
         c.phase = "saving" => c.list \in Seq(Note) /\ Kept(ListOf(stored), c.list)
  PROVE  NotesInv'
<1>1. /\ DOMAIN change' = Tabs /\ change'[t] = c
      /\ \A u \in Tabs \ {t} : change'[u] = change[u]
  BY DEF NotesInv
<1>2. ASSUME NEW u \in Tabs
      PROVE  /\ cached'[u].list = ListOf(cached'[u].raw)
             /\ change'[u].phase = "saving" =>
                  change'[u].list \in Seq(Note) /\ Kept(cached'[u].list, change'[u].list)
  <2>1. CASE u = t
    BY <1>1, <2>1, TakenIn
  <2>2. CASE u # t
    BY <1>1, <2>2, TakenIn DEF NotesInv
  <2> QED BY <2>1, <2>2
<1> QED BY <1>1, <1>2, TakenIn DEF NotesInv

\* A tab that saves, or ends its change, leaves its cache as it is.
LEMMA EndedStep ==
  ASSUME NotesInv, NEW t \in Tabs, UNCHANGED <<cached, added>>, stored' \in Seq(Note) \cup {None},
         NEW c, change' = [change EXCEPT ![t] = c], c.phase # "saving"
  PROVE  NotesInv'
<1>1. /\ DOMAIN change' = Tabs /\ change'[t] = c
      /\ \A u \in Tabs \ {t} : change'[u] = change[u]
  BY DEF NotesInv
<1> QED BY <1>1 DEF NotesInv

\* A new notification goes in front of the others, of which the oldest may be cut off.
LEMMA FrontOfList ==
  ASSUME NEW before \in Seq(Note), NEW note \in Note, NEW m \in Nat \ {0}
  PROVE  LET updated == <<note>> \o before
             after   == SubSeq(updated, 1, Min2(m, Len(updated)))
         IN /\ after \in Seq(Note)
            /\ Tail(after) = SubSeq(before, 1, Len(after) - 1)
            /\ Len(after) = Min2(m, Len(before) + 1)
<1> DEFINE updated == <<note>> \o before
           n == Min2(m, Len(updated))
           after == SubSeq(updated, 1, n)
<1>1. /\ updated \in Seq(Note) /\ Len(updated) = Len(before) + 1 /\ Len(before) \in Nat
      /\ \A i \in 1 .. Len(before) : updated[i + 1] = before[i]
  OBVIOUS
<1>2. n \in Nat /\ 1 <= n /\ n <= Len(before) + 1 /\ n = Min2(m, Len(before) + 1)
  BY <1>1 DEF Min2
<1> HIDE DEF updated, n
<1>3. after \in Seq(Note) /\ Len(after) = n /\ \A i \in 1 .. n : after[i] = updated[i]
  BY <1>1, <1>2
<1> HIDE DEF after
<1>4. /\ Tail(after) \in Seq(Note) /\ Len(Tail(after)) = n - 1
      /\ \A i \in 1 .. n - 1 : Tail(after)[i] = after[i + 1]
  BY <1>2, <1>3
<1>5. /\ SubSeq(before, 1, n - 1) \in Seq(Note) /\ Len(SubSeq(before, 1, n - 1)) = n - 1
      /\ \A i \in 1 .. n - 1 : SubSeq(before, 1, n - 1)[i] = before[i]
  BY <1>1, <1>2
<1>6. \A i \in 1 .. n - 1 : Tail(after)[i] = SubSeq(before, 1, n - 1)[i]
  BY <1>1, <1>2, <1>3, <1>4, <1>5
<1>7. Tail(after) = SubSeq(before, 1, n - 1)
  BY <1>2, <1>4, <1>5, <1>6
<1> QED BY <1>2, <1>3, <1>7 DEF updated, n, after

\* A tab that adds a notification is going to put it in front of all it read.
LEMMA AddsStep ==
  ASSUME NotesInv, NEW t \in Tabs, NEW notice, Adds(t, notice), UNCHANGED stored
  PROVE  NotesInv'
<1> DEFINE note == [id |-> added, read |-> FALSE]
           before == ListOf(stored)
           updated == <<note>> \o before
           after == SubSeq(updated, 1, Min2(MaxNotifications, Len(updated)))
<1>1. before \in Seq(Note) /\ GetNotifications(t) = before
  BY CacheIsCurrent
<1>2. note \in Note /\ added' \in Nat /\ TakesIn(t)
  BY DEF Note, Adds, NotesInv
<1>3. change' = [change EXCEPT ![t] = Saving(after, notice)]
  BY <1>1 DEF Adds
<1>4. after \in Seq(Note) /\ Kept(before, after)
  BY <1>1, <1>2, FrontOfList, NotificationsAssumption DEF Kept
<1> HIDE DEF after, before
<1>5. Saving(after, notice).list = after
  BY DEF Saving
<1> QED BY <1>2, <1>3, <1>4, <1>5, BegunStep DEF before

\* One that marks all as read is going to change none but the marks.
LEMMA ReadAllStep ==
  ASSUME NotesInv, NEW t \in Tabs, MarkAllAsRead(t)
  PROVE  NotesInv'
<1> DEFINE before == ListOf(stored)
           after == [i \in DOMAIN before |-> [before[i] EXCEPT !.read = TRUE]]
<1>1. before \in Seq(Note) /\ GetNotifications(t) = before
  BY CacheIsCurrent
<1>2. /\ TakesIn(t) /\ UNCHANGED stored /\ added' \in Nat
      /\ change' = [change EXCEPT ![t] = Saving(after, None)]
  BY <1>1 DEF MarkAllAsRead, NotesInv
<1> HIDE DEF before
<1>3. \A i \in DOMAIN before : before[i] \in Note
  BY <1>1
<1>4. \A i \in DOMAIN before : after[i] \in Note /\ after[i].id = before[i].id /\ after[i].read
  BY <1>3 DEF Note
<1>5. DOMAIN after = DOMAIN before /\ after \in Seq(Note)
  BY <1>1, <1>4
<1> HIDE DEF after
<1>6. Kept(before, after)
  BY <1>4, <1>5 DEF Kept, Ids
<1>7. Saving(after, None).list = after
  BY DEF Saving
<1> QED BY <1>2, <1>5, <1>6, <1>7, BegunStep DEF before

\* Every step keeps the caches and the changes honest.
LEMMA NotesStep ==
  ASSUME NotesInv, None \notin Seq(Note), [NotesNext]_noteVars
  PROVE  NotesInv'
<1>1. ASSUME NEW t \in Tabs, AddNotification(t)
      PROVE  NotesInv'
  BY <1>1, AddsStep DEF AddNotification
<1>2. ASSUME NEW t \in Tabs, NotifyYield(t)
      PROVE  NotesInv'
  <2>1. CASE "yield" \in enabled
    BY <1>2, <2>1, AddsStep DEF NotifyYield
  <2>2. CASE "yield" \notin enabled
    <3>1. /\ change' = [change EXCEPT ![t] = Stamping(day)] /\ Stamping(day).phase # "saving"
          /\ UNCHANGED <<stored, cached, added>>
      BY <1>2, <2>2 DEF NotifyYield, Stamping
    <3>2. stored' \in Seq(Note) \cup {None}
      BY <3>1 DEF NotesInv
    <3> QED BY <3>1, <3>2, EndedStep
  <2> QED BY <2>1, <2>2
<1>3. ASSUME NEW t \in Tabs, SaveNotifications(t)
      PROVE  NotesInv'
  <2>1. /\ change' = [change EXCEPT ![t] = Saved(change[t].notice)] /\ Saved(change[t].notice).phase # "saving"
        /\ UNCHANGED <<cached, added>>
    BY <1>3 DEF SaveNotifications, Saved
  <2>2. stored' \in Seq(Note)
    BY <1>3 DEF SaveNotifications, NotesInv
  <2> QED BY <2>1, <2>2, EndedStep
<1>4. ASSUME NEW t \in Tabs, ReadsBack(t)
      PROVE  NotesInv'
  <2>1. \E c \in {NoChange, Stamping(change[t].notice)} : change' = [change EXCEPT ![t] = c]
    BY <1>4 DEF ReadsBack
  <2>2. \A c \in {NoChange, Stamping(change[t].notice)} : c.phase # "saving"
    BY DEF NoChange, Stamping
  <2>3. TakesIn(t) /\ UNCHANGED stored /\ added' \in Nat
    BY <1>4 DEF ReadsBack, NotesInv
  <2> QED BY <2>1, <2>2, <2>3, BegunStep
<1>5. ASSUME NEW t \in Tabs, StampsYield(t)
      PROVE  NotesInv'
  <2>1. /\ change' = [change EXCEPT ![t] = NoChange] /\ NoChange.phase # "saving"
        /\ UNCHANGED <<stored, cached, added>>
    BY <1>5 DEF StampsYield, NoChange
  <2>2. stored' \in Seq(Note) \cup {None}
    BY <2>1 DEF NotesInv
  <2> QED BY <2>1, <2>2, EndedStep
<1>6. ASSUME NEW t \in Tabs, ClearAll(t)
      PROVE  NotesInv'
  <2>1. /\ change' = [change EXCEPT ![t] = Saved(None)] /\ Saved(None).phase # "saving"
        /\ UNCHANGED <<cached, added>> /\ stored' \in Seq(Note)
    BY <1>6 DEF ClearAll, Saved
  <2> QED BY <2>1, EndedStep
<1>7. ASSUME NEW t \in Tabs, Renders(t)
      PROVE  NotesInv'
  <2>1. /\ TakesIn(t) /\ UNCHANGED <<stored, change, added>> /\ change[t].phase # "saving"
    BY <1>7 DEF Renders, Resting
  <2> QED BY <2>1, TakenIn DEF NotesInv
<1>8. CASE ToggleNotification \/ DayPasses \/ UNCHANGED noteVars
  BY <1>8 DEF ToggleNotification, DayPasses, noteVars, NotesInv
<1> QED BY <1>1, <1>2, <1>3, <1>4, <1>5, <1>6, <1>7, <1>8, ReadAllStep DEF NotesNext

\* However many tabs read, change and write the list in turns, a save that finds the item as
\* this tab read it loses nothing of it; what is lost otherwise is lost to a race. (null is
\* not an array.)
THEOREM RacesAlone ==
  ASSUME None \notin Seq(Note)
  PROVE  NotesSpec => LostToRacesOnly
<1>1. NotesInit => NotesInv
  BY DEF NotesInit, NotesInv, ListOf, NoChange
<1>2. NotesInv /\ [NotesNext]_noteVars => NotesInv'
  BY NotesStep
<1>3. NotesInv =>
        [\A t \in Tabs :
           SaveNotifications(t) /\ stored = cached[t].raw => Kept(ListOf(stored), ListOf(stored'))]_noteVars
  <2> SUFFICES ASSUME NotesInv, NEW t \in Tabs, SaveNotifications(t), stored = cached[t].raw
               PROVE  Kept(ListOf(stored), ListOf(stored'))
    OBVIOUS
  <2>1. stored' = change[t].list /\ change[t].phase = "saving"
    BY DEF SaveNotifications
  <2>2. cached[t].list = ListOf(stored) /\ change[t].list # None
    BY <2>1 DEF NotesInv
  <2> QED BY <2>1, <2>2 DEF NotesInv, ListOf
<1> QED BY <1>1, <1>2, <1>3, PTL DEF NotesSpec, LostToRacesOnly

-----------------------------------------------------------------------------
(***************************************************************************)
(* The verification of the testnet.                                        *)
(***************************************************************************)

ScenarioSet == {"A", "B", "C", "D", "E", "F"}
ReportSet   == [pass : BOOLEAN, skipped : BOOLEAN]

\* The transactions of scenario n that a PASS vouches for.
SettledBy(n, txs) ==
  \A i \in DOMAIN StepsOf[n] : StepsOf[n][i] \in Transactions \ {"redeem"} => <<n, StepsOf[n][i]>> \in txs

\* A scenario that was left with its checks passed settled, or was skipped.
Earned(n) == scenarioReports[n].pass => scenarioReports[n].skipped \/ SettledBy(n, settledTxs)

VerifyTypes ==
  /\ scenario \in 1 .. 7
  /\ stepNo \in Nat \ {0}
  /\ scenario <= 6 => stepNo <= Len(StepsOf[Name])
  /\ scenarioReports \in [ScenarioSet -> ReportSet]

\* The node tells nothing that did not settle, a purchase settles after its deposit, and the
\* steps that read on demand of an earlier transaction were only passed with it.
Witnessed ==
  /\ known \subseteq settledTxs
  /\ <<"D", "buy">> \in settledTxs => <<"D", "depositToBuy">> \in settledTxs
  /\ (scenario = 3 /\ stepNo > 3) => <<"C", "deposit">> \in settledTxs
  /\ (scenario = 6 /\ stepNo > 6) => <<"F", "deposit">> \in settledTxs

VerifyInv ==
  /\ VerifyTypes
  /\ Witnessed
  /\ \A k \in 1 .. 6 : k < scenario => Earned(ScenarioNames[k])
  /\ verdict = "PASS" => scenario = 7 /\ \A n \in ScenarioSet : scenarioReports[n].pass \/ scenarioReports[n].skipped

\* The six scenarios by number.
LEMMA Numbering ==
  /\ DOMAIN StepsOf = ScenarioSet
  /\ Len(ScenarioNames) = 6
  /\ ScenarioNames[1] = "A" /\ ScenarioNames[2] = "B" /\ ScenarioNames[3] = "C"
  /\ ScenarioNames[4] = "D" /\ ScenarioNames[5] = "E" /\ ScenarioNames[6] = "F"
<1>1. DOMAIN StepsOf = ScenarioSet
  BY DEF StepsOf, ScenarioSet
<1> QED BY <1>1 DEF ScenarioNames

\* What is next, by scenario.
LEMMA Schedule ==
  ASSUME scenario \in 1 .. 6, stepNo \in Nat \ {0}, stepNo <= Len(StepsOf[Name])
  PROVE  /\ Name = ScenarioNames[scenario] /\ Name \in ScenarioSet
         /\ scenario = 1 => /\ Name = "A" /\ Len(StepsOf[Name]) = 2
                            /\ \/ stepNo = 1 /\ DueStep = "fund"
                               \/ stepNo = 2 /\ DueStep = "check"
         /\ scenario = 2 => /\ Name = "B" /\ Len(StepsOf[Name]) = 3
                            /\ \/ stepNo = 1 /\ DueStep = "fund"
                               \/ stepNo = 2 /\ DueStep = "deposit"
                               \/ stepNo = 3 /\ DueStep = "check"
         /\ scenario = 3 => /\ Name = "C" /\ Len(StepsOf[Name]) = 5
                            /\ \/ stepNo = 1 /\ DueStep = "fund"
                               \/ stepNo = 2 /\ DueStep = "deposit"
                               \/ stepNo = 3 /\ DueStep = "read"
                               \/ stepNo = 4 /\ DueStep = "mint"
                               \/ stepNo = 5 /\ DueStep = "check"
         /\ scenario = 4 => /\ Name = "D" /\ Len(StepsOf[Name]) = 5
                            /\ \/ stepNo = 1 /\ DueStep = "fund"
                               \/ stepNo = 2 /\ DueStep = "deposit"
                               \/ stepNo = 3 /\ DueStep = "depositToBuy"
                               \/ stepNo = 4 /\ DueStep = "buy"
                               \/ stepNo = 5 /\ DueStep = "check"
         /\ scenario = 5 => /\ Name = "E" /\ Len(StepsOf[Name]) = 3
                            /\ \/ stepNo = 1 /\ DueStep = "fund"
                               \/ stepNo = 2 /\ DueStep = "skip"
                               \/ stepNo = 3 /\ DueStep = "check"
         /\ scenario = 6 => /\ Name = "F" /\ Len(StepsOf[Name]) = 7
                            /\ \/ stepNo = 1 /\ DueStep = "fund"
                               \/ stepNo = 2 /\ DueStep = "reserve"
                               \/ stepNo = 3 /\ DueStep = "read"
                               \/ stepNo = 4 /\ DueStep = "deposit"
                               \/ stepNo = 5 /\ DueStep = "check"
                               \/ stepNo = 6 /\ DueStep = "redeem"
                               \/ stepNo = 7 /\ DueStep = "check"
<1>1. Name = ScenarioNames[scenario] /\ Name \in ScenarioSet
  BY Numbering DEF Name, ScenarioSet
<1>2. ASSUME scenario = 1
      PROVE  /\ Name = "A" /\ Len(StepsOf[Name]) = 2
             /\ \/ stepNo = 1 /\ DueStep = "fund"
                \/ stepNo = 2 /\ DueStep = "check"
  <2>1. Name = "A" /\ StepsOf[Name] = <<"fund", "check">>
    BY <1>2, Numbering DEF Name, StepsOf
  <2>2. Len(StepsOf[Name]) = 2 /\ stepNo \in 1 .. 2
    BY <2>1
  <2>3. DueStep = <<"fund", "check">>[stepNo]
    BY <2>1 DEF DueStep
  <2> QED BY <2>1, <2>2, <2>3
<1>3. ASSUME scenario = 2
      PROVE  /\ Name = "B" /\ Len(StepsOf[Name]) = 3
             /\ \/ stepNo = 1 /\ DueStep = "fund"
                \/ stepNo = 2 /\ DueStep = "deposit"
                \/ stepNo = 3 /\ DueStep = "check"
  <2>1. Name = "B" /\ StepsOf[Name] = <<"fund", "deposit", "check">>
    BY <1>3, Numbering DEF Name, StepsOf
  <2>2. Len(StepsOf[Name]) = 3 /\ stepNo \in 1 .. 3
    BY <2>1
  <2>3. DueStep = <<"fund", "deposit", "check">>[stepNo]
    BY <2>1 DEF DueStep
  <2> QED BY <2>1, <2>2, <2>3
<1>4. ASSUME scenario = 3
      PROVE  /\ Name = "C" /\ Len(StepsOf[Name]) = 5
             /\ \/ stepNo = 1 /\ DueStep = "fund"
                \/ stepNo = 2 /\ DueStep = "deposit"
                \/ stepNo = 3 /\ DueStep = "read"
                \/ stepNo = 4 /\ DueStep = "mint"
                \/ stepNo = 5 /\ DueStep = "check"
  <2>1. Name = "C" /\ StepsOf[Name] = <<"fund", "deposit", "read", "mint", "check">>
    BY <1>4, Numbering DEF Name, StepsOf
  <2>2. Len(StepsOf[Name]) = 5 /\ stepNo \in 1 .. 5
    BY <2>1
  <2>3. DueStep = <<"fund", "deposit", "read", "mint", "check">>[stepNo]
    BY <2>1 DEF DueStep
  <2> QED BY <2>1, <2>2, <2>3
<1>5. ASSUME scenario = 4
      PROVE  /\ Name = "D" /\ Len(StepsOf[Name]) = 5
             /\ \/ stepNo = 1 /\ DueStep = "fund"
                \/ stepNo = 2 /\ DueStep = "deposit"
                \/ stepNo = 3 /\ DueStep = "depositToBuy"
                \/ stepNo = 4 /\ DueStep = "buy"
                \/ stepNo = 5 /\ DueStep = "check"
  <2>1. Name = "D" /\ StepsOf[Name] = <<"fund", "deposit", "depositToBuy", "buy", "check">>
    BY <1>5, Numbering DEF Name, StepsOf
  <2>2. Len(StepsOf[Name]) = 5 /\ stepNo \in 1 .. 5
    BY <2>1
  <2>3. DueStep = <<"fund", "deposit", "depositToBuy", "buy", "check">>[stepNo]
    BY <2>1 DEF DueStep
  <2> QED BY <2>1, <2>2, <2>3
<1>6. ASSUME scenario = 5
      PROVE  /\ Name = "E" /\ Len(StepsOf[Name]) = 3
             /\ \/ stepNo = 1 /\ DueStep = "fund"
                \/ stepNo = 2 /\ DueStep = "skip"
                \/ stepNo = 3 /\ DueStep = "check"
  <2>1. Name = "E" /\ StepsOf[Name] = <<"fund", "skip", "check">>
    BY <1>6, Numbering DEF Name, StepsOf
  <2>2. Len(StepsOf[Name]) = 3 /\ stepNo \in 1 .. 3
    BY <2>1
  <2>3. DueStep = <<"fund", "skip", "check">>[stepNo]
    BY <2>1 DEF DueStep
  <2> QED BY <2>1, <2>2, <2>3
<1>7. ASSUME scenario = 6
      PROVE  /\ Name = "F" /\ Len(StepsOf[Name]) = 7
             /\ \/ stepNo = 1 /\ DueStep = "fund"
                \/ stepNo = 2 /\ DueStep = "reserve"
                \/ stepNo = 3 /\ DueStep = "read"
                \/ stepNo = 4 /\ DueStep = "deposit"
                \/ stepNo = 5 /\ DueStep = "check"
                \/ stepNo = 6 /\ DueStep = "redeem"
                \/ stepNo = 7 /\ DueStep = "check"
  <2>1. Name = "F" /\ StepsOf[Name] = <<"fund", "reserve", "read", "deposit", "check", "redeem", "check">>
    BY <1>7, Numbering DEF Name, StepsOf
  <2>2. Len(StepsOf[Name]) = 7 /\ stepNo \in 1 .. 7
    BY <2>1
  <2>3. DueStep = <<"fund", "reserve", "read", "deposit", "check", "redeem", "check">>[stepNo]
    BY <2>1 DEF DueStep
  <2> QED BY <2>1, <2>2, <2>3
<1> QED BY <1>1, <1>2, <1>3, <1>4, <1>5, <1>6, <1>7

\* Where each kind of step stands.
LEMMA Standing ==
  ASSUME scenario \in 1 .. 6, stepNo \in Nat \ {0}, stepNo <= Len(StepsOf[Name])
  PROVE  /\ DueStep # "check" => stepNo < Len(StepsOf[Name])
         /\ DueStep \in Transactions => ~ (scenario = 3 /\ stepNo = 3)
         /\ (scenario = 6 /\ stepNo = 6) => Name = "F" /\ DueStep = "redeem"
         /\ (DueStep = "read" /\ Name = "C") => scenario = 3 /\ stepNo = 3
         /\ (DueStep = "read" /\ Name = "F") => scenario = 6 /\ stepNo = 3
         /\ DueStep = "reserve" => scenario = 6 /\ stepNo = 2
         /\ DueStep = "skip" => scenario = 5
         /\ DueStep = "fund" => stepNo = 1
         /\ (DueStep = "check" /\ scenario = 3) => Name = "C" /\ stepNo = 5
         /\ (DueStep = "check" /\ scenario = 6 /\ ~ (stepNo < Len(StepsOf[Name]))) => Name = "F" /\ stepNo = 7
         /\ scenario \in {1, 5} => Name \in {"A", "E"}
         /\ scenario = 2 => Name = "B"
         /\ scenario = 4 => Name = "D"
<1>1. CASE scenario = 1
  <2>1. /\ Name = "A" /\ Len(StepsOf[Name]) = 2
        /\ \/ stepNo = 1 /\ DueStep = "fund"
           \/ stepNo = 2 /\ DueStep = "check"
    BY <1>1, Schedule
  <2> QED BY <1>1, <2>1 DEF Transactions
<1>2. CASE scenario = 2
  <2>1. /\ Name = "B" /\ Len(StepsOf[Name]) = 3
        /\ \/ stepNo = 1 /\ DueStep = "fund"
           \/ stepNo = 2 /\ DueStep = "deposit"
           \/ stepNo = 3 /\ DueStep = "check"
    BY <1>2, Schedule
  <2> QED BY <1>2, <2>1 DEF Transactions
<1>3. CASE scenario = 3
  <2>1. /\ Name = "C" /\ Len(StepsOf[Name]) = 5
        /\ \/ stepNo = 1 /\ DueStep = "fund"
           \/ stepNo = 2 /\ DueStep = "deposit"
           \/ stepNo = 3 /\ DueStep = "read"
           \/ stepNo = 4 /\ DueStep = "mint"
           \/ stepNo = 5 /\ DueStep = "check"
    BY <1>3, Schedule
  <2> QED BY <1>3, <2>1 DEF Transactions
<1>4. CASE scenario = 4
  <2>1. /\ Name = "D" /\ Len(StepsOf[Name]) = 5
        /\ \/ stepNo = 1 /\ DueStep = "fund"
           \/ stepNo = 2 /\ DueStep = "deposit"
           \/ stepNo = 3 /\ DueStep = "depositToBuy"
           \/ stepNo = 4 /\ DueStep = "buy"
           \/ stepNo = 5 /\ DueStep = "check"
    BY <1>4, Schedule
  <2> QED BY <1>4, <2>1 DEF Transactions
<1>5. CASE scenario = 5
  <2>1. /\ Name = "E" /\ Len(StepsOf[Name]) = 3
        /\ \/ stepNo = 1 /\ DueStep = "fund"
           \/ stepNo = 2 /\ DueStep = "skip"
           \/ stepNo = 3 /\ DueStep = "check"
    BY <1>5, Schedule
  <2> QED BY <1>5, <2>1 DEF Transactions
<1>6. CASE scenario = 6
  <2>1. /\ Name = "F" /\ Len(StepsOf[Name]) = 7
        /\ \/ stepNo = 1 /\ DueStep = "fund"
           \/ stepNo = 2 /\ DueStep = "reserve"
           \/ stepNo = 3 /\ DueStep = "read"
           \/ stepNo = 4 /\ DueStep = "deposit"
           \/ stepNo = 5 /\ DueStep = "check"
           \/ stepNo = 6 /\ DueStep = "redeem"
           \/ stepNo = 7 /\ DueStep = "check"
    BY <1>6, Schedule
  <2> QED BY <1>6, <2>1 DEF Transactions
<1> QED BY <1>1, <1>2, <1>3, <1>4, <1>5, <1>6

\* What a PASS vouches for, by scenario.
LEMMA WhatIsSettled ==
  ASSUME NEW txs
  PROVE
  /\ SettledBy("A", txs) /\ SettledBy("E", txs)
  /\ <<"B", "deposit">> \in txs => SettledBy("B", txs)
  /\ {<<"C", "deposit">>, <<"C", "mint">>} \subseteq txs => SettledBy("C", txs)
  /\ {<<"D", "deposit">>, <<"D", "depositToBuy">>, <<"D", "buy">>} \subseteq txs => SettledBy("D", txs)
  /\ <<"F", "deposit">> \in txs => SettledBy("F", txs)
<1>1. SettledBy("A", txs) /\ SettledBy("E", txs)
  <2>1. StepsOf["A"] = <<"fund", "check">> /\ StepsOf["E"] = <<"fund", "skip", "check">>
    BY DEF StepsOf
  <2> QED BY <2>1 DEF SettledBy, Transactions
<1>2. <<"B", "deposit">> \in txs => SettledBy("B", txs)
  <2>1. StepsOf["B"] = <<"fund", "deposit", "check">>
    BY DEF StepsOf
  <2> QED BY <2>1 DEF SettledBy, Transactions
<1>3. {<<"C", "deposit">>, <<"C", "mint">>} \subseteq txs => SettledBy("C", txs)
  <2>1. StepsOf["C"] = <<"fund", "deposit", "read", "mint", "check">>
    BY DEF StepsOf
  <2> QED BY <2>1 DEF SettledBy, Transactions
<1>4. {<<"D", "deposit">>, <<"D", "depositToBuy">>, <<"D", "buy">>} \subseteq txs => SettledBy("D", txs)
  <2>1. StepsOf["D"] = <<"fund", "deposit", "depositToBuy", "buy", "check">>
    BY DEF StepsOf
  <2> QED BY <2>1 DEF SettledBy, Transactions
<1>5. <<"F", "deposit">> \in txs => SettledBy("F", txs)
  <2>1. StepsOf["F"] = <<"fund", "reserve", "read", "deposit", "check", "redeem", "check">>
    BY DEF StepsOf
  <2> QED BY <2>1 DEF SettledBy, Transactions
<1> QED BY <1>1, <1>2, <1>3, <1>4, <1>5

\* A step that stays in its scenario, or repeats, earns nothing and loses nothing.
StaysIn ==
  /\ scenario' = scenario /\ verdict' = verdict
  /\ settledTxs \subseteq settledTxs'
  /\ \A n \in ScenarioSet \ {Name} : scenarioReports'[n] = scenarioReports[n]
  /\ VerifyTypes' /\ Witnessed'

\* One that leaves it has earned what it reports.
LeavesIt ==
  /\ scenario' = scenario + 1 /\ verdict' = verdict /\ stepNo' = 1
  /\ settledTxs \subseteq settledTxs'
  /\ \A n \in ScenarioSet \ {Name} : scenarioReports'[n] = scenarioReports[n]
  /\ scenarioReports' \in [ScenarioSet -> ReportSet]
  /\ known' \subseteq settledTxs'
  /\ <<"D", "buy">> \in settledTxs' => <<"D", "depositToBuy">> \in settledTxs'
  /\ scenarioReports'[Name].pass => scenarioReports'[Name].skipped \/ SettledBy(Name, settledTxs')

\* What was earned stays earned.
LEMMA EarnedStays ==
  ASSUME NEW n \in ScenarioSet, Earned(n), settledTxs \subseteq settledTxs',
         scenarioReports'[n] = scenarioReports[n]
  PROVE  Earned(n)'
BY DEF Earned, SettledBy

\* A step within a scenario keeps what the earlier ones earned.
LEMMA StaysKeeps ==
  ASSUME VerifyInv, Running, None # "PASS", StaysIn
  PROVE  VerifyInv'
<1>1. verdict' # "PASS"
  BY DEF Running, StaysIn
<1>2. ASSUME NEW k \in 1 .. 6, k < scenario'
      PROVE  Earned(ScenarioNames[k])'
  <2>1. scenario \in 1 .. 6 /\ k < scenario /\ Earned(ScenarioNames[k])
    BY <1>2, Numbering DEF VerifyInv, VerifyTypes, StaysIn, Running
  <2>2. ScenarioNames[k] \in ScenarioSet \ {Name}
    BY <2>1, Numbering DEF Name, ScenarioSet
  <2> QED BY <2>1, <2>2, EarnedStays DEF StaysIn
<1> QED BY <1>1, <1>2 DEF VerifyInv, StaysIn

\* A scenario that is left has earned its report.
LEMMA LeavesKeeps ==
  ASSUME VerifyInv, Running, None # "PASS", LeavesIt
  PROVE  VerifyInv'
<1>1. verdict' # "PASS"
  BY DEF Running, LeavesIt
<1>2. scenario \in 1 .. 6 /\ scenario' = scenario + 1 /\ stepNo' = 1
  BY Numbering DEF VerifyInv, VerifyTypes, LeavesIt, Running
<1>3. ASSUME NEW k \in 1 .. 6, k < scenario'
      PROVE  Earned(ScenarioNames[k])'
  <2>1. CASE k = scenario
    BY <2>1 DEF LeavesIt, Earned, Name
  <2>2. CASE k # scenario
    <3>1. k < scenario /\ Earned(ScenarioNames[k])
      BY <1>2, <1>3, <2>2 DEF VerifyInv
    <3>2. ScenarioNames[k] \in ScenarioSet \ {Name}
      BY <1>2, <2>2, Numbering DEF Name, ScenarioSet
    <3> QED BY <3>1, <3>2, EarnedStays DEF LeavesIt
  <2> QED BY <2>1, <2>2
<1>4. VerifyTypes'
  <2>1. scenario' <= 6 => 1 <= Len(StepsOf[ScenarioNames[scenario']])
    <3>1. scenario' \in 2 .. 7
      BY <1>2
    <3> QED BY <3>1, Numbering DEF StepsOf
  <2> QED BY <1>2, <2>1 DEF VerifyTypes, LeavesIt, Name
<1>5. Witnessed'
  BY <1>2 DEF Witnessed, LeavesIt
<1> QED BY <1>1, <1>3, <1>4, <1>5 DEF VerifyInv

\* Where a step finds the script.
LEMMA Place ==
  ASSUME VerifyInv, NEW S, At(S)
  PROVE  /\ Running /\ scenario \in 1 .. 6 /\ stepNo \in Nat \ {0} /\ stepNo <= Len(StepsOf[Name])
         /\ Name \in ScenarioSet /\ Report \in ReportSet /\ DueStep \in S
<1>1. Running /\ scenario \in 1 .. 6 /\ stepNo \in Nat \ {0} /\ stepNo <= Len(StepsOf[Name]) /\ DueStep \in S
  BY Numbering DEF VerifyInv, VerifyTypes, At, Running
<1>2. Name \in ScenarioSet
  BY <1>1, Schedule
<1> QED BY <1>1, <1>2 DEF Report, VerifyInv, VerifyTypes

\* A scenario goes on to its next step.
LEMMA AdvanceKeeps ==
  ASSUME VerifyInv, None # "PASS", Running, scenario \in 1 .. 6, stepNo < Len(StepsOf[Name]),
         scenario' = scenario, stepNo' = stepNo + 1, verdict' = verdict,
         scenarioReports' \in [ScenarioSet -> ReportSet],
         \A n \in ScenarioSet \ {Name} : scenarioReports'[n] = scenarioReports[n],
         settledTxs \subseteq settledTxs', known' \subseteq settledTxs',
         <<"D", "buy">> \in settledTxs' => <<"D", "depositToBuy">> \in settledTxs',
         (scenario = 3 /\ stepNo = 3) => <<"C", "deposit">> \in settledTxs',
         (scenario = 6 /\ stepNo = 6) => <<"F", "deposit">> \in settledTxs'
  PROVE  VerifyInv'
<1>1. stepNo \in Nat \ {0} /\ stepNo + 1 <= Len(StepsOf[Name])
  <2>1. Len(StepsOf[Name]) \in Nat
    BY Schedule DEF VerifyInv, VerifyTypes
  <2> QED BY <2>1 DEF VerifyInv, VerifyTypes
<1>2. Name' = Name
  BY DEF Name
<1>3. VerifyTypes'
  BY <1>1, <1>2 DEF VerifyTypes
<1>4. Witnessed'
  <2>1. (scenario = 3 /\ stepNo > 3) => <<"C", "deposit">> \in settledTxs'
    BY DEF VerifyInv, Witnessed
  <2>2. (scenario = 6 /\ stepNo > 6) => <<"F", "deposit">> \in settledTxs'
    BY DEF VerifyInv, Witnessed
  <2> QED BY <1>1, <2>1, <2>2 DEF Witnessed
<1> QED BY <1>3, <1>4, StaysKeeps DEF StaysIn

\* A scenario is left with a report.
LEMMA ReportKeeps ==
  ASSUME VerifyInv, None # "PASS", Running, scenario \in 1 .. 6, NEW r \in ReportSet, Leaves(r),
         verdict' = verdict, known' = known, settledTxs \subseteq settledTxs',
         <<"D", "buy">> \in settledTxs' => <<"D", "depositToBuy">> \in settledTxs',
         r.pass => r.skipped \/ SettledBy(Name, settledTxs')
  PROVE  VerifyInv'
<1>1. Name \in ScenarioSet
  BY Numbering DEF Name, ScenarioSet
<1>2. /\ scenarioReports' \in [ScenarioSet -> ReportSet] /\ scenarioReports'[Name] = r
      /\ \A n \in ScenarioSet \ {Name} : scenarioReports'[n] = scenarioReports[n]
  BY <1>1 DEF Leaves, VerifyInv, VerifyTypes
<1>3. scenario' = scenario + 1 /\ stepNo' = 1
  BY DEF Leaves
<1>4. known' \subseteq settledTxs'
  BY DEF VerifyInv, Witnessed
<1> QED BY <1>2, <1>3, <1>4, LeavesKeeps DEF LeavesIt

\* One that throws promises nothing.
LEMMA ThrowKeeps ==
  ASSUME VerifyInv, None # "PASS", Running, scenario \in 1 .. 6, ScenarioThrows,
         verdict' = verdict, known' = known, settledTxs \subseteq settledTxs',
         <<"D", "buy">> \in settledTxs' => <<"D", "depositToBuy">> \in settledTxs'
  PROVE  VerifyInv'
<1> DEFINE r == [pass |-> FALSE, skipped |-> FALSE]
<1>1. r \in ReportSet /\ ~r.pass /\ Leaves(r)
  BY DEF ReportSet, ScenarioThrows
<1> HIDE DEF r
<1> QED BY <1>1, ReportKeeps

\* Another try changes nothing that counts.
LEMMA RetryKeeps ==
  ASSUME VerifyInv, None # "PASS", Running,
         UNCHANGED <<scenario, stepNo, scenarioReports, settledTxs, known, verdict>>
  PROVE  VerifyInv'
<1>1. VerifyTypes' /\ Witnessed'
  BY DEF VerifyInv, VerifyTypes, Witnessed, Name
<1> QED BY <1>1, StaysKeeps DEF StaysIn

\* The report of the scenario that runs, changed in one field.
LEMMA ReportChanged ==
  ASSUME VerifyInv, Name \in ScenarioSet, NEW r \in ReportSet,
         scenarioReports' = [scenarioReports EXCEPT ![Name] = r]
  PROVE  /\ scenarioReports' \in [ScenarioSet -> ReportSet]
         /\ \A n \in ScenarioSet \ {Name} : scenarioReports'[n] = scenarioReports[n]
BY DEF VerifyInv, VerifyTypes

\* Funding the wallet settles nothing a scenario vouches for.
LEMMA FundStep ==
  ASSUME VerifyInv, None # "PASS", FundWallet
  PROVE  VerifyInv'
<1>1. At({"fund"}) /\ UNCHANGED <<settledTxs, known, verdict>>
  BY DEF FundWallet
<1>2. /\ Running /\ scenario \in 1 .. 6 /\ stepNo \in Nat \ {0} /\ stepNo <= Len(StepsOf[Name])
      /\ DueStep = "fund"
  BY <1>1, Place
<1>3. stepNo = 1 /\ stepNo < Len(StepsOf[Name])
  BY <1>2, Standing
<1>4. CASE GoOn
  BY <1>1, <1>2, <1>3, <1>4, AdvanceKeeps DEF GoOn, VerifyInv, VerifyTypes, Witnessed
<1>5. CASE tries' = tries + 1 /\ UNCHANGED <<scenario, stepNo, scenarioReports>>
  BY <1>1, <1>2, <1>5, RetryKeeps
<1>6. CASE ScenarioThrows
  BY <1>1, <1>2, <1>6, ThrowKeeps DEF VerifyInv, Witnessed
<1> QED BY <1>4, <1>5, <1>6 DEF FundWallet

\* A transaction settles, fails in a ledger, or throws: what follows a purchase or a
\* redemption that was sent had been seen by the node.
LEMMA SubmitStep ==
  ASSUME VerifyInv, None # "PASS", Submit
  PROVE  VerifyInv'
<1>1. At(Transactions) /\ UNCHANGED <<known, verdict>>
  BY DEF Submit
<1>2. /\ Running /\ scenario \in 1 .. 6 /\ stepNo \in Nat \ {0} /\ stepNo <= Len(StepsOf[Name])
      /\ DueStep \in Transactions /\ Report \in ReportSet /\ Name \in ScenarioSet
  BY <1>1, Place
<1>3. stepNo < Len(StepsOf[Name])
  BY <1>2, Standing DEF Transactions
<1>4. ~ (scenario = 3 /\ stepNo = 3)
  BY <1>2, Standing DEF Transactions
<1>5. (scenario = 6 /\ stepNo = 6) => Name = "F" /\ DueStep = "redeem"
  BY <1>2, Standing
<1>6. (Able(known, DueStep) /\ scenario = 6 /\ stepNo = 6) => <<"F", "deposit">> \in settledTxs
  BY <1>5 DEF Able, Needs, Has, VerifyInv, Witnessed
<1> DEFINE sent == settledTxs \cup {<<Name, DueStep>>}
<1>7. Able(settledTxs, DueStep) =>
        (<<"D", "buy">> \in sent => <<"D", "depositToBuy">> \in sent)
  <2>1. CASE <<"D", "buy">> \in settledTxs
    BY <2>1 DEF VerifyInv, Witnessed
  <2>2. CASE Name = "D" /\ DueStep = "buy"
    BY <2>2 DEF Able, Needs, Has
  <2> QED BY <2>1, <2>2
<1>8. CASE Able(known, DueStep) /\ Able(settledTxs, DueStep) /\ settledTxs' = sent /\ GoOn
  <2>1. known' \subseteq settledTxs' /\ settledTxs \subseteq settledTxs'
    BY <1>1, <1>8 DEF VerifyInv, Witnessed
  <2>2. <<"D", "buy">> \in settledTxs' => <<"D", "depositToBuy">> \in settledTxs'
    BY <1>7, <1>8
  <2> HIDE DEF sent
  <2> QED BY <1>1, <1>2, <1>3, <1>4, <1>6, <1>8, <2>1, <2>2, AdvanceKeeps DEF GoOn, VerifyInv, VerifyTypes
<1>9. CASE Able(known, DueStep) /\ GoOn /\ UNCHANGED settledTxs
  BY <1>1, <1>2, <1>3, <1>4, <1>6, <1>9, AdvanceKeeps DEF GoOn, VerifyInv, VerifyTypes, Witnessed
<1>10. CASE /\ IF Name = "D" /\ DueStep # "deposit" THEN Leaves([Report EXCEPT !.skipped = TRUE]) ELSE ScenarioThrows
            /\ settledTxs' \in {settledTxs, IF Able(settledTxs, DueStep) THEN sent ELSE settledTxs}
  <2>1. settledTxs' = settledTxs \/ (Able(settledTxs, DueStep) /\ settledTxs' = sent)
    BY <1>10
  <2>2. /\ settledTxs \subseteq settledTxs'
        /\ <<"D", "buy">> \in settledTxs' => <<"D", "depositToBuy">> \in settledTxs'
    BY <1>7, <2>1 DEF VerifyInv, Witnessed
  <2>3. CASE ScenarioThrows
    BY <1>1, <1>2, <2>2, <2>3, ThrowKeeps
  <2>4. CASE Leaves([Report EXCEPT !.skipped = TRUE])
    <3> DEFINE r == [Report EXCEPT !.skipped = TRUE]
    <3>1. r \in ReportSet /\ r.skipped
      BY <1>2 DEF ReportSet
    <3> HIDE DEF r
    <3>2. Leaves(r)
      BY <2>4 DEF r
    <3> QED BY <1>1, <1>2, <2>2, <3>1, <3>2, ReportKeeps
  <2> QED BY <1>10, <2>3, <2>4
<1> QED BY <1>8, <1>9, <1>10 DEF Submit

\* The node catches up: it still tells nothing that did not settle.
LEMMA NodeStep ==
  ASSUME VerifyInv, None # "PASS", NodeCatchesUp
  PROVE  VerifyInv'
<1>1. Running /\ known' = settledTxs /\ UNCHANGED <<scenario, stepNo, settledTxs, scenarioReports, verdict>>
  BY DEF NodeCatchesUp
<1>2. VerifyTypes' /\ Witnessed'
  BY <1>1 DEF VerifyInv, VerifyTypes, Witnessed, Name
<1> QED BY <1>1, <1>2, StaysKeeps DEF StaysIn

\* A read that fails is tried again, or fails its scenario.
LEMMA ReadFailsStep ==
  ASSUME VerifyInv, None # "PASS", ReadFails
  PROVE  VerifyInv'
<1>1. At({"read", "check", "reserve"}) /\ UNCHANGED <<settledTxs, known, verdict>>
  BY DEF ReadFails
<1>2. Running /\ scenario \in 1 .. 6
  BY <1>1, Place
<1>3. CASE UNCHANGED <<scenario, stepNo, scenarioReports>>
  BY <1>1, <1>2, <1>3, RetryKeeps
<1>4. CASE ScenarioThrows
  BY <1>1, <1>2, <1>4, ThrowKeeps DEF VerifyInv, Witnessed
<1> QED BY <1>3, <1>4 DEF ReadFails

\* C mints what its deposit left, or throws.
LEMMA SharesStep ==
  ASSUME VerifyInv, None # "PASS", ReadsShares
  PROVE  VerifyInv'
<1>1. At({"read"}) /\ Name = "C" /\ UNCHANGED <<settledTxs, known, verdict>>
  BY DEF ReadsShares
<1>2. /\ Running /\ scenario \in 1 .. 6 /\ stepNo \in Nat \ {0} /\ stepNo <= Len(StepsOf[Name])
      /\ DueStep = "read"
  BY <1>1, Place
<1>3. scenario = 3 /\ stepNo = 3 /\ stepNo < Len(StepsOf[Name])
  BY <1>1, <1>2, Standing
<1>4. CASE Has(known, "deposit") /\ GoOn
  <2>1. <<"C", "deposit">> \in settledTxs'
    BY <1>1, <1>4 DEF Has, VerifyInv, Witnessed
  <2> QED BY <1>1, <1>2, <1>3, <1>4, <2>1, AdvanceKeeps DEF GoOn, VerifyInv, VerifyTypes, Witnessed
<1>5. CASE ScenarioThrows
  BY <1>1, <1>2, <1>5, ThrowKeeps DEF VerifyInv, Witnessed
<1> QED BY <1>4, <1>5 DEF ReadsShares

\* A step that changes the report of its scenario and goes on.
LEMMA NotedKeeps ==
  ASSUME VerifyInv, None # "PASS", Running, scenario \in 1 .. 6, stepNo < Len(StepsOf[Name]),
         Name \in ScenarioSet, NEW r \in ReportSet, scenarioReports' = [scenarioReports EXCEPT ![Name] = r],
         scenario' = scenario, stepNo' = stepNo + 1, UNCHANGED <<settledTxs, known, verdict>>,
         ~ (scenario = 3 /\ stepNo = 3), ~ (scenario = 6 /\ stepNo = 6)
  PROVE  VerifyInv'
<1>1. /\ scenarioReports' \in [ScenarioSet -> ReportSet]
      /\ \A n \in ScenarioSet \ {Name} : scenarioReports'[n] = scenarioReports[n]
  BY ReportChanged
<1> QED BY <1>1, AdvanceKeeps DEF VerifyInv, Witnessed

\* Reading the pool moves on within its scenario.
LEMMA PoolStep ==
  ASSUME VerifyInv, None # "PASS", ReadsPool
  PROVE  VerifyInv'
<1>1. /\ At({"read"}) /\ Name = "F" /\ UNCHANGED <<scenario, settledTxs, known, verdict>>
      /\ stepNo' = stepNo + 1
  BY DEF ReadsPool
<1>2. /\ Running /\ scenario \in 1 .. 6 /\ stepNo \in Nat \ {0} /\ stepNo <= Len(StepsOf[Name])
      /\ DueStep = "read" /\ Report \in ReportSet /\ Name \in ScenarioSet
  BY <1>1, Place
<1>3. scenario = 6 /\ stepNo = 3 /\ stepNo < Len(StepsOf[Name])
  BY <1>1, <1>2, Standing
<1>4. PICK agrees \in BOOLEAN : scenarioReports' = [scenarioReports EXCEPT ![Name].pass = @ /\ agrees]
  BY DEF ReadsPool, RateAgrees
<1> DEFINE r == [Report EXCEPT !.pass = @ /\ agrees]
<1>5. r \in ReportSet
  BY <1>2 DEF ReportSet
<1>6. scenarioReports' = [scenarioReports EXCEPT ![Name] = r]
  BY <1>4 DEF Report
<1> HIDE DEF r
<1>7. ~ (scenario = 3 /\ stepNo = 3) /\ ~ (scenario = 6 /\ stepNo = 6)
  BY <1>3
<1> QED BY <1>1, <1>2, <1>3, <1>5, <1>6, <1>7, NotedKeeps

\* What is skipped, and the read of the reserve, settle nothing.
LEMMA SkippedSteps ==
  ASSUME VerifyInv, None # "PASS", NothingToRedeem \/ ReadsReserve \/ Skips
  PROVE  VerifyInv'
<1>1. UNCHANGED <<settledTxs, known, verdict>>
  BY DEF NothingToRedeem, ReadsReserve, Skips
<1>2. CASE NothingToRedeem
  <2>1. Running /\ scenario \in 1 .. 6 /\ Report \in ReportSet
    BY <1>2, Place DEF NothingToRedeem
  <2> DEFINE r == [Report EXCEPT !.skipped = TRUE]
  <2>2. r \in ReportSet /\ r.skipped
    BY <2>1 DEF ReportSet
  <2>3. Leaves(r)
    BY <1>2 DEF NothingToRedeem
  <2> HIDE DEF r
  <2> QED BY <1>1, <2>1, <2>2, <2>3, ReportKeeps DEF VerifyInv, Witnessed
<1>3. CASE ReadsReserve
  <2>1. At({"reserve"})
    BY <1>3 DEF ReadsReserve
  <2>2. /\ Running /\ scenario \in 1 .. 6 /\ stepNo \in Nat \ {0} /\ stepNo <= Len(StepsOf[Name])
        /\ DueStep = "reserve"
    BY <2>1, Place
  <2>3. scenario = 6 /\ stepNo = 2 /\ stepNo < Len(StepsOf[Name])
    BY <2>2, Standing
  <2>4. CASE GoOn
    BY <1>1, <2>2, <2>3, <2>4, AdvanceKeeps DEF GoOn, VerifyInv, VerifyTypes, Witnessed
  <2> DEFINE r == [pass |-> FALSE, skipped |-> TRUE]
  <2>5. CASE Leaves(r)
    <3>1. r \in ReportSet /\ ~r.pass
      BY DEF ReportSet
    <3> HIDE DEF r
    <3> QED BY <1>1, <2>2, <2>5, <3>1, ReportKeeps DEF VerifyInv, Witnessed
  <2> QED BY <1>3, <2>4, <2>5 DEF ReadsReserve
<1>4. CASE Skips
  <2>1. At({"skip"})
    BY <1>4 DEF Skips
  <2>2. /\ Running /\ scenario \in 1 .. 6 /\ stepNo \in Nat \ {0} /\ stepNo <= Len(StepsOf[Name])
        /\ DueStep = "skip" /\ Report \in ReportSet /\ Name \in ScenarioSet
    BY <2>1, Place
  <2>3. scenario = 5 /\ stepNo < Len(StepsOf[Name])
    BY <2>2, Standing
  <2> DEFINE r == [Report EXCEPT !.skipped = TRUE]
  <2>4. r \in ReportSet
    BY <2>2 DEF ReportSet
  <2>5. /\ scenarioReports' = [scenarioReports EXCEPT ![Name] = r]
        /\ stepNo' = stepNo + 1 /\ scenario' = scenario
    BY <1>4 DEF Skips, Report
  <2> HIDE DEF r
  <2>6. ~ (scenario = 3 /\ stepNo = 3) /\ ~ (scenario = 6 /\ stepNo = 6)
    BY <2>3
  <2> QED BY <1>1, <2>2, <2>3, <2>4, <2>5, <2>6, NotedKeeps
<1> QED BY <1>2, <1>3, <1>4

\* The last checks of a scenario pass only if the node shows what its transactions leave.
LEMMA ChecksStep ==
  ASSUME VerifyInv, None # "PASS", Checks
  PROVE  VerifyInv'
<1>1. At({"check"}) /\ UNCHANGED <<settledTxs, known, verdict>>
  BY DEF Checks
<1>2. /\ Running /\ scenario \in 1 .. 6 /\ stepNo \in Nat \ {0} /\ stepNo <= Len(StepsOf[Name])
      /\ DueStep = "check" /\ Report \in ReportSet /\ Name \in ScenarioSet
  BY <1>1, Place
<1>3. PICK pass \in Passes :
         IF stepNo < Len(StepsOf[Name])
         THEN /\ scenarioReports' = [scenarioReports EXCEPT ![Name].pass = @ /\ pass]
              /\ stepNo' = stepNo + 1 /\ tries' = 0 /\ UNCHANGED scenario
         ELSE Leaves([Report EXCEPT !.pass = @ /\ pass])
  BY DEF Checks
<1> DEFINE r == [Report EXCEPT !.pass = @ /\ pass]
<1>4. pass \in BOOLEAN
  <2>1. \A tx : Found(tx) \in BOOLEAN
    BY DEF Found, Has
  <2>2. Passes \subseteq BOOLEAN
    BY <1>2, <2>1, Zenon DEF Passes, RateAgrees, ScenarioSet
  <2> QED BY <2>2
<1>5. r \in ReportSet /\ (r.pass => pass)
  BY <1>2, <1>4 DEF ReportSet
<1>6. CASE stepNo < Len(StepsOf[Name])
  <2>1. /\ scenarioReports' = [scenarioReports EXCEPT ![Name] = r]
        /\ stepNo' = stepNo + 1 /\ scenario' = scenario
    BY <1>3, <1>6 DEF Report
  <2>2. ~ (scenario = 3 /\ stepNo = 3) /\ ~ (scenario = 6 /\ stepNo = 6)
    BY <1>2, Standing
  <2> HIDE DEF r
  <2> QED BY <1>1, <1>2, <1>5, <1>6, <2>1, <2>2, NotedKeeps
<1>7. CASE ~ (stepNo < Len(StepsOf[Name]))
  <2>1. Leaves(r)
    BY <1>3, <1>7
  <2>2. pass => SettledBy(Name, settledTxs)
    <3>1. \A tx : Found(tx) => <<Name, tx>> \in settledTxs
      BY DEF Found, Has, VerifyInv, Witnessed
    <3>2. CASE scenario \in {1, 5}
      BY <1>2, <3>2, Standing, WhatIsSettled
    <3>3. CASE scenario = 2
      <4>1. Name = "B" /\ (pass => Found("deposit"))
        BY <1>2, <1>3, <3>3, Standing DEF Passes
      <4> QED BY <3>1, <4>1, WhatIsSettled
    <3>4. CASE scenario = 3
      <4>1. Name = "C" /\ stepNo > 3
        BY <1>2, <3>4, Standing
      <4>2. pass => Found("mint")
        BY <4>1 DEF Passes
      <4>3. <<"C", "deposit">> \in settledTxs
        BY <3>4, <4>1 DEF VerifyInv, Witnessed
      <4> QED BY <3>1, <4>1, <4>2, <4>3, WhatIsSettled
    <3>5. CASE scenario = 4
      <4>1. Name = "D" /\ (pass => Found("deposit") /\ Found("buy"))
        BY <1>2, <1>3, <3>5, Standing DEF Passes
      <4> QED BY <3>1, <4>1, WhatIsSettled DEF VerifyInv, Witnessed
    <3>6. CASE scenario = 6
      <4>1. Name = "F" /\ stepNo > 6
        BY <1>2, <1>7, <3>6, Standing
      <4>2. <<"F", "deposit">> \in settledTxs
        BY <3>6, <4>1 DEF VerifyInv, Witnessed
      <4> QED BY <4>1, <4>2, WhatIsSettled
    <3> QED BY <1>2, <3>2, <3>3, <3>4, <3>5, <3>6
  <2> HIDE DEF r
  <2> QED BY <1>1, <1>2, <1>5, <2>1, <2>2, ReportKeeps DEF VerifyInv, Witnessed
<1> QED BY <1>6, <1>7

\* The verdict is made of the reports of all six.
LEMMA VerdictSteps ==
  ASSUME VerifyInv, None # "PASS", PrintReport \/ Preflight \/ UNCHANGED verifyVars
  PROVE  VerifyInv'
<1>1. UNCHANGED <<scenario, stepNo, settledTxs, known, scenarioReports>>
  BY DEF PrintReport, Preflight, verifyVars
<1>2. VerifyTypes' /\ Witnessed' /\ \A k \in 1 .. 6 : k < scenario' => Earned(ScenarioNames[k])'
  BY <1>1 DEF VerifyInv, VerifyTypes, Witnessed, Name, Earned
<1>3. verdict' = "PASS" => scenario = 7 /\ \A n \in ScenarioSet : scenarioReports[n].pass \/ scenarioReports[n].skipped
  <2>1. CASE PrintReport
    BY <2>1, Numbering DEF PrintReport, VerifyInv, VerifyTypes
  <2>2. CASE Preflight
    BY <2>2 DEF Preflight
  <2>3. CASE UNCHANGED verifyVars
    BY <2>3 DEF verifyVars, VerifyInv
  <2> QED BY <2>1, <2>2, <2>3
<1> QED BY <1>1, <1>2, <1>3 DEF VerifyInv

\* A run of the verification that says PASS did what it says, although no status of a
\* transaction is looked at, the node may lag and others move the pool.
THEOREM PassIsEarned ==
  ASSUME None # "PASS"
  PROVE  VerifySpec => []PassMeansSettled
<1>1. VerifyInit => VerifyInv
  <2> SUFFICES ASSUME VerifyInit PROVE VerifyInv
    OBVIOUS
  <2>1. 1 <= Len(StepsOf[ScenarioNames[1]])
    BY Numbering DEF StepsOf
  <2>2. VerifyTypes
    BY <2>1, Numbering DEF VerifyInit, VerifyTypes, ReportSet, Name
  <2> QED BY <2>2 DEF VerifyInit, VerifyInv, Witnessed
<1>2. VerifyInv /\ [VerifyNext]_verifyVars => VerifyInv'
  BY FundStep, SubmitStep, NodeStep, ReadFailsStep, SharesStep, PoolStep, SkippedSteps, ChecksStep,
     VerdictSteps DEF VerifyNext
<1>3. VerifyInv => PassMeansSettled
  <2> SUFFICES ASSUME VerifyInv, verdict = "PASS", NEW n \in ScenarioSet, ~scenarioReports[n].skipped
               PROVE  SettledBy(n, settledTxs)
    BY Numbering DEF PassMeansSettled, SettledBy
  <2>1. \E k \in 1 .. 6 : n = ScenarioNames[k]
    BY Numbering DEF ScenarioSet
  <2>2. Earned(n) /\ scenarioReports[n].pass
    BY <2>1 DEF VerifyInv
  <2> QED BY <2>2 DEF Earned
<1> QED BY <1>1, <1>2, <1>3, PTL DEF VerifySpec

-----------------------------------------------------------------------------
(***************************************************************************)
(* The portfolio.                                                          *)
(***************************************************************************)

Assessment ==
  [next : 1 .. Len(ReadOrder) + 1, spot : Nat, ptPrice : Nat, ytPrice : Nat, sy : Nat, pt : Nat,
   yt : Nat, owed : Nat, complete : BOOLEAN, moved : BOOLEAN]

\* The four rows an assessment may give.
PtRow(a)    == Row("pt", a.pt, a.ptPrice * a.spot, a.pt * a.ptPrice * a.spot, None)
YtRow(a)    == Row("yt", a.yt, a.ytPrice * a.spot, a.yt * a.ytPrice * a.spot, None)
ShareRow(a) == Row("vault", a.sy, a.spot * One, a.sy * a.spot * One, None)
Rollup(a)   == Row("vault", a.pt, a.spot * One,
                   a.pt * a.ptPrice * a.spot + a.yt * a.ytPrice * a.spot, a.owed * a.spot * One)

\* What they come to.
PtValue(a)    == a.pt * a.ptPrice * a.spot
YtValue(a)    == a.yt * a.ytPrice * a.spot
ShareValue(a) == a.sy * a.spot * One
YieldValue(a) == a.owed * a.spot * One

\* Rows the table p, y, v, q of four, with which values; and what tells them apart.
Four(rows, p, y, v, q, a, x, z, w, c) ==
  /\ rows \subseteq {p, y, v, q}
  /\ p \in rows <=> a.pt > 0
  /\ y \in rows <=> a.yt > 0
  /\ v \in rows <=> a.sy > 0
  /\ q \in rows <=> a.pt > 0 \/ a.yt > 0
  /\ p.type = "pt" /\ y.type = "yt" /\ v.type = "vault" /\ q.type = "vault"
  /\ ~IsRollup(p) /\ ~IsRollup(y) /\ ~IsRollup(v) /\ IsRollup(q)
  /\ p.value = x /\ y.value = z /\ v.value = w /\ q.claimable = c
  /\ v.balance = a.sy /\ q.balance = a.pt
  /\ x \in Nat /\ z \in Nat /\ w \in Nat /\ c \in Nat
  /\ (a.pt = 0 => x = 0) /\ (a.yt = 0 => z = 0) /\ (a.sy = 0 => w = 0)
  /\ a.pt \in Nat /\ a.yt \in Nat /\ a.sy \in Nat

\* The rows of an assessment are those four, each there when what it shows is.
LEMMA RowsAreFour ==
  ASSUME None \notin Nat, NEW a \in Assessment
  PROVE  Four(Rows(a), PtRow(a), YtRow(a), ShareRow(a), Rollup(a), a,
              PtValue(a), YtValue(a), ShareValue(a), YieldValue(a))
<1> DEFINE p == PtRow(a)
           y == YtRow(a)
           v == ShareRow(a)
           q == Rollup(a)
           x == a.pt * a.ptPrice * a.spot
           z == a.yt * a.ytPrice * a.spot
           w == a.sy * a.spot * One
           c == a.owed * a.spot * One
<1>1. /\ a.pt \in Nat /\ a.yt \in Nat /\ a.sy \in Nat /\ a.owed \in Nat /\ a.spot \in Nat
      /\ a.ptPrice \in Nat /\ a.ytPrice \in Nat /\ One \in Nat
  BY DEF Assessment, One
<1>2. /\ x \in Nat /\ z \in Nat /\ w \in Nat /\ c \in Nat
      /\ (a.pt = 0 => x = 0) /\ (a.yt = 0 => z = 0) /\ (a.sy = 0 => w = 0)
  <2>1. \A i, j \in Nat : i * j \in Nat /\ 0 * j = 0
    OBVIOUS
  <2>2. a.pt * a.ptPrice \in Nat /\ a.yt * a.ytPrice \in Nat /\ a.sy * a.spot \in Nat /\ a.owed * a.spot \in Nat
    BY <1>1, <2>1
  <2> QED BY <1>1, <2>1, <2>2
<1>3. /\ p.type = "pt" /\ y.type = "yt" /\ v.type = "vault" /\ q.type = "vault"
      /\ p.balance = a.pt /\ y.balance = a.yt /\ v.balance = a.sy /\ q.balance = a.pt
      /\ p.value = x /\ y.value = z /\ v.value = w
      /\ p.claimable = None /\ y.claimable = None /\ v.claimable = None /\ q.claimable = c
  BY DEF PtRow, YtRow, ShareRow, Rollup, Row
<1>4. Rows(a) = {r \in {p, y, v} : r.balance > 0} \cup (IF a.pt > 0 \/ a.yt > 0 THEN {q} ELSE {})
  BY DEF Rows, PtRow, YtRow, ShareRow, Rollup
<1> HIDE DEF p, y, v, q, x, z, w, c
<1>5. ~IsRollup(p) /\ ~IsRollup(y) /\ ~IsRollup(v) /\ IsRollup(q)
  BY <1>2, <1>3 DEF IsRollup
<1>6. p # y /\ p # v /\ y # v /\ q # p /\ q # y /\ q # v
  BY <1>3, <1>5
<1>7. /\ Rows(a) \subseteq {p, y, v, q}
      /\ p \in Rows(a) <=> a.pt > 0
      /\ y \in Rows(a) <=> a.yt > 0
      /\ v \in Rows(a) <=> a.sy > 0
      /\ q \in Rows(a) <=> a.pt > 0 \/ a.yt > 0
  BY <1>3, <1>4, <1>6
<1>8. Four(Rows(a), p, y, v, q, a, x, z, w, c)
  BY <1>1, <1>2, <1>3, <1>5, <1>7 DEF Four
<1> QED BY <1>8 DEF p, y, v, q, x, z, w, c, PtValue, YtValue, ShareValue, YieldValue

\* The sums over the rows.
LEMMA RowSums ==
  ASSUME None \notin Nat, NEW a \in Assessment
  PROVE  /\ ValueOfParts(Rows(a)) = PtValue(a) + YtValue(a) + ShareValue(a)
         /\ ClaimableOf(Rows(a)) = (IF a.pt > 0 \/ a.yt > 0 THEN YieldValue(a) ELSE 0)
         /\ Values({r \in Rows(a) : r.type \in {"pt", "yt"}}) = PtValue(a) + YtValue(a)
         /\ Values({r \in VaultRows(Rows(a)) : ~IsRollup(r)}) = ShareValue(a)
<1> DEFINE rows == Rows(a)
           p == PtRow(a)
           y == YtRow(a)
           v == ShareRow(a)
           q == Rollup(a)
           x == PtValue(a)
           z == YtValue(a)
           w == ShareValue(a)
           c == YieldValue(a)
<1>0. Four(rows, p, y, v, q, a, x, z, w, c)
  BY RowsAreFour
<1> HIDE DEF rows, p, y, v, q, x, z, w, c
<1>1. /\ p # y /\ p # v /\ y # v /\ q # p /\ q # y /\ q # v
      /\ x \in Nat /\ z \in Nat /\ w \in Nat /\ c \in Nat
      /\ a.pt \in Nat /\ a.yt \in Nat /\ a.sy \in Nat
  BY <1>0 DEF Four
<1>2. ASSUME NEW S, S \subseteq rows \cap {p, y, v}
      PROVE  Values(S) = (IF p \in S THEN x ELSE 0) + (IF y \in S THEN z ELSE 0) + (IF v \in S THEN w ELSE 0)
  <2> DEFINE f == [r \in S |-> r.value]
  <2>1. /\ Values(S) = SumOver(f, S)
        /\ p \in S => f[p] = x
        /\ y \in S => f[y] = z
        /\ v \in S => f[v] = w
    BY <1>0, <1>2 DEF Values, SumOfAll, Four
  <2>2. S \subseteq {p, y, v}
    BY <1>2
  <2> HIDE DEF f
  <2>3. \A r \in S : f[r] \in Int
    BY <1>1, <2>1, <2>2
  <2>4. SumOver(f, S) = (IF p \in S THEN f[p] ELSE 0) + (IF y \in S THEN f[y] ELSE 0)
                           + (IF v \in S THEN f[v] ELSE 0)
    BY <1>1, <2>2, <2>3, SumOfThree
  <2> QED BY <2>1, <2>4
<1>3. ValueOfParts(rows) = x + z + w
  <2> DEFINE S == {r \in rows : ~IsRollup(r)}
  <2>1. S \subseteq rows \cap {p, y, v} /\ (p \in S <=> a.pt > 0) /\ (y \in S <=> a.yt > 0) /\ (v \in S <=> a.sy > 0)
    BY <1>0 DEF Four
  <2>2. ValueOfParts(rows) = Values(S)
    BY DEF ValueOfParts
  <2> HIDE DEF S
  <2>3. (IF p \in S THEN x ELSE 0) = x /\ (IF y \in S THEN z ELSE 0) = z /\ (IF v \in S THEN w ELSE 0) = w
    BY <1>0, <1>1, <2>1 DEF Four
  <2> QED BY <1>2, <2>1, <2>2, <2>3
<1>4. Values({r \in rows : r.type \in {"pt", "yt"}}) = x + z
  <2> DEFINE S == {r \in rows : r.type \in {"pt", "yt"}}
  <2>1. S \subseteq rows \cap {p, y, v} /\ (p \in S <=> a.pt > 0) /\ (y \in S <=> a.yt > 0) /\ v \notin S
    BY <1>0 DEF Four
  <2> HIDE DEF S
  <2>2. (IF p \in S THEN x ELSE 0) = x /\ (IF y \in S THEN z ELSE 0) = z /\ (IF v \in S THEN w ELSE 0) = 0
    BY <1>0, <1>1, <2>1 DEF Four
  <2>3. Values(S) = x + z + 0
    BY <1>2, <2>1, <2>2
  <2> QED BY <1>1, <2>3 DEF S
<1>5. Values({r \in VaultRows(rows) : ~IsRollup(r)}) = w
  <2> DEFINE S == {r \in VaultRows(rows) : ~IsRollup(r)}
  <2>1. S \subseteq rows \cap {p, y, v} /\ p \notin S /\ y \notin S /\ (v \in S <=> a.sy > 0)
    BY <1>0 DEF Four, VaultRows
  <2> HIDE DEF S
  <2>2. (IF p \in S THEN x ELSE 0) = 0 /\ (IF y \in S THEN z ELSE 0) = 0 /\ (IF v \in S THEN w ELSE 0) = w
    BY <1>0, <1>1, <2>1 DEF Four
  <2>3. Values(S) = 0 + 0 + w
    BY <1>2, <2>1, <2>2
  <2> QED BY <1>1, <2>3 DEF S
<1>6. ClaimableOf(rows) = (IF q \in rows THEN c ELSE 0)
  <2> DEFINE S == {r \in rows : IsRollup(r)}
             f == [r \in S |-> r.claimable]
  <2>1. ClaimableOf(rows) = SumOver(f, S)
    BY DEF ClaimableOf, SumOfAll
  <2>2. S = IF q \in rows THEN {q} ELSE {}
    BY <1>0 DEF Four
  <2>3. q \in rows => f[q] = c
    BY <1>0 DEF Four
  <2>4. SumOver(f, {}) = 0
    BY SumEmpty
  <2> HIDE DEF S, f
  <2>5. CASE q \in rows
    <3>1. f[q] = c /\ f[q] \in Int
      BY <1>1, <2>3, <2>5
    <3>2. SumOver(f, {q}) = f[q]
      BY <3>1, SumOfOne
    <3> QED BY <2>1, <2>2, <2>5, <3>1, <3>2
  <2>6. CASE q \notin rows
    BY <2>1, <2>2, <2>4, <2>6
  <2> QED BY <2>5, <2>6
<1>7. q \in rows <=> a.pt > 0 \/ a.yt > 0
  BY <1>0 DEF Four
<1> QED BY <1>3, <1>4, <1>5, <1>6, <1>7 DEF rows, p, y, v, q, x, z, w, c


\* The allocation is of the parts, and shares them out, rounding down.
LEMMA AllocationSums ==
  ASSUME None \notin Nat, NEW a \in Assessment
  PROVE  /\ SumOfAll([e \in Allocation(Rows(a)) |-> e.row.value]) = PtValue(a) + YtValue(a) + ShareValue(a)
         /\ SumOfAll([e \in Allocation(Rows(a)) |-> e.percent]) <= 100
<1> DEFINE rows == Rows(a)
           p == PtRow(a)
           y == YtRow(a)
           v == ShareRow(a)
           q == Rollup(a)
           x == PtValue(a)
           z == YtValue(a)
           w == ShareValue(a)
           c == YieldValue(a)
<1>0. Four(rows, p, y, v, q, a, x, z, w, c)
  BY RowsAreFour
<1>1. ValueOfParts(rows) = x + z + w
  BY RowSums
<1> HIDE DEF rows, p, y, v, q, x, z, w, c
<1> DEFINE V == ValueOfParts(rows)
           Share(r) == IF V > 0 THEN (r.value * 100) \div V ELSE 0
           e1 == [row |-> p, percent |-> Share(p)]
           e2 == [row |-> y, percent |-> Share(y)]
           e3 == [row |-> v, percent |-> Share(v)]
           S == Allocation(rows)
           f == [e \in S |-> e.row.value]
           g == [e \in S |-> e.percent]
<1>2. /\ p # y /\ p # v /\ y # v
      /\ x \in Nat /\ z \in Nat /\ w \in Nat /\ a.pt \in Nat /\ a.yt \in Nat /\ a.sy \in Nat
      /\ p.value = x /\ y.value = z /\ v.value = w
      /\ (a.pt = 0 => x = 0) /\ (a.yt = 0 => z = 0) /\ (a.sy = 0 => w = 0)
  BY <1>0 DEF Four
<1>3. /\ S \subseteq {e1, e2, e3}
      /\ (e1 \in S <=> a.pt > 0) /\ (e2 \in S <=> a.yt > 0) /\ (e3 \in S <=> a.sy > 0)
  <2> DEFINE parts == {r \in rows : ~IsRollup(r)}
  <2>1. S = {[row |-> r, percent |-> Share(r)] : r \in parts}
    BY DEF Allocation
  <2>2. parts \subseteq {p, y, v} /\ (p \in parts <=> a.pt > 0) /\ (y \in parts <=> a.yt > 0) /\ (v \in parts <=> a.sy > 0)
    BY <1>0 DEF Four
  <2> HIDE DEF parts, S, Share
  <2> QED BY <1>2, <2>1, <2>2
<1>4. e1 # e2 /\ e1 # e3 /\ e2 # e3
  <2> HIDE DEF Share
  <2> QED BY <1>2
<1>5. /\ e1.row.value = x /\ e2.row.value = z /\ e3.row.value = w
      /\ e1.percent = Share(p) /\ e2.percent = Share(y) /\ e3.percent = Share(v)
  <2> HIDE DEF Share
  <2> QED BY <1>2
<1>6. V \in Nat /\ V = x + z + w
  BY <1>1, <1>2
<1>7. ASSUME NEW r, r.value \in Nat
      PROVE  Share(r) \in Nat /\ Share(r) * V <= r.value * 100 /\ (r.value = 0 => Share(r) = 0)
  <2> DEFINE n == r.value
  <2>1. n \in Nat
    BY <1>7
  <2>2. CASE V > 0
    <3> HIDE DEF V, n
    <3>1. V \in Nat \ {0} /\ 100 \in Nat
      BY <1>6, <2>2
    <3>2. MulDivFloor(n, 100, V) \in Nat /\ MulDivFloor(n, 100, V) * V <= n * 100
      BY <2>1, <3>1, FloorBound
    <3>3. n = 0 => MulDivFloor(n, 100, V) = 0
      BY <1>6, <2>1, <2>2 DEF MulDivFloor
    <3> QED BY <2>2, <3>2, <3>3 DEF MulDivFloor, n
  <2>3. CASE V = 0
    <3> HIDE DEF V, n
    <3>1. Share(r) = 0
      BY <2>3
    <3> QED BY <2>1, <2>3, <3>1 DEF n
  <2> HIDE DEF V
  <2> QED BY <1>6, <2>2, <2>3
<1> DEFINE s1 == Share(p)
           s2 == Share(y)
           s3 == Share(v)
<1>8. /\ s1 \in Nat /\ s1 * V <= x * 100 /\ (x = 0 => s1 = 0)
      /\ s2 \in Nat /\ s2 * V <= z * 100 /\ (z = 0 => s2 = 0)
      /\ s3 \in Nat /\ s3 * V <= w * 100 /\ (w = 0 => s3 = 0)
  <2> HIDE DEF V, Share
  <2> QED BY <1>2, <1>7
<1>9. /\ e1 \in S => f[e1] = x /\ g[e1] = s1
      /\ e2 \in S => f[e2] = z /\ g[e2] = s2
      /\ e3 \in S => f[e3] = w /\ g[e3] = s3
  <2> HIDE DEF S, Share
  <2> QED BY <1>5
<1>10. SumOfAll(f) = SumOver(f, S) /\ SumOfAll(g) = SumOver(g, S)
  BY DEF SumOfAll
<1> HIDE DEF V, Share, S, f, g, e1, e2, e3, s1, s2, s3
<1>11. \A e \in S : f[e] \in Int /\ g[e] \in Int
  BY <1>2, <1>3, <1>8, <1>9
<1>12. SumOver(f, S) = x + z + w
  <2>1. SumOver(f, S) = (IF e1 \in S THEN f[e1] ELSE 0) + (IF e2 \in S THEN f[e2] ELSE 0)
                          + (IF e3 \in S THEN f[e3] ELSE 0)
    BY <1>3, <1>4, <1>11, SumOfThree
  <2> QED BY <1>2, <1>3, <1>9, <2>1
<1>13. SumOver(g, S) = s1 + s2 + s3
  <2>1. SumOver(g, S) = (IF e1 \in S THEN g[e1] ELSE 0) + (IF e2 \in S THEN g[e2] ELSE 0)
                          + (IF e3 \in S THEN g[e3] ELSE 0)
    BY <1>3, <1>4, <1>11, SumOfThree
  <2> QED BY <1>2, <1>3, <1>8, <1>9, <2>1
<1>14. s1 + s2 + s3 <= 100
  <2>1. CASE V = 0
    BY <1>2, <1>6, <1>8, <2>1
  <2>2. CASE V > 0
    <3> DEFINE t == s1 + s2 + s3
    <3>1. t \in Nat /\ t * V = s1 * V + s2 * V + s3 * V
      BY <1>6, <1>8
    <3>2. s1 * V \in Int /\ s2 * V \in Int /\ s3 * V \in Int
      BY <1>6, <1>8
    <3> HIDE DEF t
    <3>3. t * V <= 100 * V
      BY <1>2, <1>6, <1>8, <3>1, <3>2
    <3>4. t <= 100
      BY <1>6, <2>2, <3>1, <3>3, TimesCancels
    <3> QED BY <3>4 DEF t
  <2> QED BY <1>6, <2>1, <2>2
<1> QED BY <1>10, <1>12, <1>13, <1>14 DEF f, g, S, rows, x, z, w

\* Yield Positions shows the PT and YT together; Vault Positions the shares and the
\* claimable yield.
LEMMA TableSums ==
  ASSUME None \notin Nat, NEW a \in Assessment, NEW s, s.rows = Rows(a)
  PROVE  /\ YieldPositions(s) # {} <=> a.pt > 0 \/ a.yt > 0
         /\ SumOfAll([e \in YieldPositions(s) |-> e.value]) = PtValue(a) + YtValue(a)
         /\ SumOfAll([e \in VaultPositions(s) |-> e.claimable])
              = (IF a.pt > 0 \/ a.yt > 0 THEN YieldValue(a) ELSE 0)
         /\ Cardinality(VaultRows(Rows(a)))
              = (IF a.pt > 0 \/ a.yt > 0 THEN 1 ELSE 0) + (IF a.sy > 0 THEN 1 ELSE 0)
<1> DEFINE rows == Rows(a)
           p == PtRow(a)
           y == YtRow(a)
           v == ShareRow(a)
           q == Rollup(a)
           x == PtValue(a)
           z == YtValue(a)
           w == ShareValue(a)
           c == YieldValue(a)
<1>0. Four(rows, p, y, v, q, a, x, z, w, c)
  BY RowsAreFour
<1>1. Values({r \in rows : r.type \in {"pt", "yt"}}) = x + z
  BY RowSums
<1> HIDE DEF rows, p, y, v, q, x, z, w, c
<1>2. /\ x \in Nat /\ z \in Nat /\ c \in Nat /\ a.pt \in Nat /\ a.yt \in Nat /\ a.sy \in Nat
      /\ v # q /\ (a.pt = 0 => x = 0) /\ (a.yt = 0 => z = 0)
      /\ (q \in rows <=> a.pt > 0 \/ a.yt > 0) /\ (v \in rows <=> a.sy > 0)
  BY <1>0 DEF Four
<1> DEFINE mine == {r \in s.rows : r.type \in {"pt", "yt"}}
<1>3. mine # {} <=> q \in rows
  BY <1>0, <1>2 DEF Four, rows
<1>4. Values(mine) = x + z
  BY <1>1 DEF rows
<1>5. (YieldPositions(s) # {} <=> q \in rows) /\ SumOfAll([e \in YieldPositions(s) |-> e.value]) = x + z
  <2> DEFINE Y == YieldPositions(s)
             f == [e \in Y |-> e.value]
             one == [value |-> Values(mine),
                     pt |-> SumOfAll([r \in {r \in mine : r.type = "pt"} |-> r.balance]),
                     yt |-> SumOfAll([r \in {r \in mine : r.type = "yt"} |-> r.balance])]
  <2>1. Y = IF mine = {} THEN {} ELSE {one}
    BY DEF YieldPositions
  <2>2. one.value = Values(mine)
    OBVIOUS
  <2> HIDE DEF mine, one, Y
  <2>3. SumOfAll(f) = SumOver(f, Y)
    BY DEF SumOfAll
  <2>4. one \in Y => f[one] = x + z
    BY <1>4, <2>2
  <2> HIDE DEF f
  <2>5. CASE mine = {}
    <3>1. SumOver(f, {}) = 0
      BY SumEmpty
    <3> QED BY <1>2, <1>3, <2>1, <2>3, <2>5, <3>1 DEF Y, f
  <2>6. CASE mine # {}
    <3>1. f[one] = x + z /\ f[one] \in Int
      BY <1>2, <2>1, <2>4, <2>6
    <3>2. SumOver(f, {one}) = f[one]
      BY <3>1, SumOfOne
    <3> QED BY <1>3, <2>1, <2>3, <2>6, <3>1, <3>2 DEF Y, f
  <2> QED BY <2>5, <2>6
<1> DEFINE R == VaultRows(rows)
<1>6. R \subseteq {v, q} /\ (v \in R <=> v \in rows) /\ (q \in R <=> q \in rows)
  BY <1>0 DEF Four, VaultRows
<1>7. SumOfAll([e \in VaultPositions(s) |-> e.claimable]) = IF q \in rows THEN c ELSE 0
  <2> DEFINE D(r) == [deposit |-> r.balance, claimable |-> IF IsRollup(r) THEN r.claimable ELSE 0]
             P == VaultPositions(s)
             f == [e \in P |-> e.claimable]
             d == D(v)
             g == D(q)
  <2>1. P = {D(r) : r \in R}
    BY DEF VaultPositions, rows
  <2>2. d.claimable = 0 /\ g.claimable = c
    BY <1>0 DEF Four
  <2>3. (d \in P => f[d] = 0) /\ (g \in P => f[g] = c)
    BY <2>2
  <2>4. SumOfAll(f) = SumOver(f, P)
    BY DEF SumOfAll
  <2>5. P = {D(r) : r \in R} /\ (q \in R => g \in P) /\ (v \in R => d \in P) /\ P \subseteq {d, g}
            /\ (d \in P => v \in R \/ (q \in R /\ d = g)) /\ (g \in P => q \in R \/ (v \in R /\ d = g))
    <3> HIDE DEF P, R, D
    <3> QED BY <1>6, <2>1
  <2> HIDE DEF D, P, f, d, g, R
  <2>6. \A e \in P : f[e] \in Int
    BY <1>2, <2>3, <2>5
  <2>7. (d = g) => c = 0
    BY <2>2
  <2>8. SumOver(f, P) = IF q \in R THEN c ELSE 0
    <3>1. SumOver(f, {}) = 0 /\ (d \in P => SumOver(f, {d}) = f[d]) /\ (g \in P => SumOver(f, {g}) = f[g])
      BY <2>6, SumEmpty, SumOfOne
    <3>2. CASE P = {}
      BY <2>5, <3>1, <3>2
    <3>3. CASE P = {d}
      BY <1>2, <2>3, <2>5, <2>7, <3>1, <3>3
    <3>4. CASE P = {g}
      BY <1>2, <2>3, <2>5, <2>7, <3>1, <3>4
    <3>5. CASE P = {d, g} /\ d # g
      <4>1. P \ {d} = {g} /\ IsFiniteSet(P)
        <5>1. P \subseteq {d, g} /\ d # g
          BY <3>5
        <5>2. IsFiniteSet(P)
          BY <5>1, CountOfTwo
        <5>3. P \ {d} = {g}
          BY <3>5
        <5> QED BY <5>2, <5>3
      <4>2. SumOver(f, P) = f[d] + SumOver(f, P \ {d})
        BY <2>6, <3>5, <4>1, SumAt
      <4> QED BY <1>2, <2>3, <2>5, <3>1, <3>5, <4>1, <4>2
    <3> QED BY <2>5, <3>2, <3>3, <3>4, <3>5
  <2> QED BY <1>6, <2>4, <2>8 DEF P, f
<1>8. Cardinality(R) = (IF q \in rows THEN 1 ELSE 0) + (IF v \in rows THEN 1 ELSE 0)
  <2> HIDE DEF R
  <2>1. Cardinality(R) = (IF v \in R THEN 1 ELSE 0) + (IF q \in R THEN 1 ELSE 0)
    BY <1>2, <1>6, CountOfTwo
  <2> QED BY <1>6, <2>1
<1> QED BY <1>2, <1>5, <1>7, <1>8 DEF rows, x, z, c

-----------------------------------------------------------------------------
\* What the chain says of the account, and the market, while the account rests.
Typed ==
  /\ position \in [sy : Nat, pt : Nat, yt : Nat, owed : Nat]
  /\ market \in [spot : Nat, quote : Nat, rate : Nat \ {0}]

\* A figure that is not read yet, or was not answered, counts for nothing; when all reads
\* so far were answered, those that were made are right.
Reads(n, complete, read, figure, right) ==
  figure \in {0, right} /\ (complete /\ n > read => figure = right)

\* What an assessment of an account at rest says.
Says(a) ==
  /\ Reads(a.next, a.complete, 1, a.spot, market.spot)
  /\ Reads(a.next, a.complete, 2, a.ptPrice, PtPrice(market))
  /\ Reads(a.next, a.complete, 2, a.ytPrice, YtPriceOf(PtPrice(market)))
  /\ Reads(a.next, a.complete, 3, a.sy, position.sy * market.rate)
  /\ Reads(a.next, a.complete, 4, a.pt, position.pt)
  /\ Reads(a.next, a.complete, 5, a.yt, position.yt)
  /\ Reads(a.next, a.complete, 6, a.owed, position.owed)

Assessed ==
  assessment # None => assessment \in Assessment /\ (~assessment.moved => Says(assessment))

\* The prices of PT and YT, and the underlying of the shares, are amounts.
LEMMA PricesAreNat ==
  ASSUME Typed
  PROVE  /\ PtPrice(market) \in Nat /\ YtPriceOf(PtPrice(market)) \in Nat
         /\ position.sy * market.rate \in Nat
<1>1. market.quote \in Nat /\ market.rate \in Nat /\ position.sy \in Nat
  BY DEF Typed
<1>2. PtPrice(market) \in Nat /\ position.sy * market.rate \in Nat
  BY <1>1 DEF PtPrice
<1>3. YtPriceOf(PtPrice(market)) \in Nat
  <2> DEFINE m == PtPrice(market)
  <2>1. m \in Nat
    BY <1>2
  <2> HIDE DEF m
  <2>2. YtPriceOf(m) \in Nat
    BY <2>1 DEF YtPriceOf, One
  <2> QED BY <2>2 DEF m
<1> QED BY <1>2, <1>3

\* What an account is worth, one kind of holding at a time.
LEMMA WorthByParts ==
  ASSUME Typed
  PROVE  /\ ValueOfHoldings(position, market)
               = position.pt * PtPrice(market) * market.spot
                 + position.yt * YtPriceOf(PtPrice(market)) * market.spot
                 + position.sy * market.rate * market.spot * One
         /\ position.owed * One * market.spot = position.owed * market.spot * One
<1> DEFINE A == position.pt * PtPrice(market)
           B == position.yt * YtPriceOf(PtPrice(market))
           C == position.sy * market.rate
           s == market.spot
           o == position.owed
<1>1. /\ s \in Nat /\ o \in Nat /\ position.pt \in Nat /\ position.yt \in Nat
      /\ PtPrice(market) \in Nat /\ YtPriceOf(PtPrice(market)) \in Nat /\ C \in Nat
  BY PricesAreNat DEF Typed
<1>2. A \in Nat /\ B \in Nat
  BY <1>1
<1>3. ValueOfHoldings(position, market) = (A + B + C * One) * s
  BY DEF ValueOfHoldings
<1> HIDE DEF A, B, C, s, o
<1>4. (A + B + C * One) * s = A * s + B * s + C * s * One
  BY <1>1, <1>2 DEF One
<1>5. o * One * s = o * s * One
  BY <1>1 DEF One
<1> QED BY <1>3, <1>4, <1>5 DEF A, B, C, s, o

\* The summary of an assessment of an account at rest adds up.
LEMMA SummaryAddsUp ==
  ASSUME None \notin Nat, Typed, NEW a \in Assessment, Says(a), a.next > Len(ReadOrder)
  PROVE  AddsUp(SummaryOf(a))
<1> DEFINE s == SummaryOf(a)
           x == PtValue(a)
           z == YtValue(a)
           w == ShareValue(a)
           c == YieldValue(a)
           held == a.pt > 0 \/ a.yt > 0
           H == ValueOfHoldings(position, market)
           o == position.owed * One * market.spot
           P == PtPrice(market)
           Y == YtPriceOf(PtPrice(market))
           C == position.sy * market.rate
<1>1. /\ s.rows = Rows(a) /\ s.total = ValueOfParts(Rows(a)) + ClaimableOf(Rows(a))
      /\ s.allocation = Allocation(Rows(a)) /\ s.claimable = ClaimableOf(Rows(a))
      /\ s.vaultLp = Values({r \in VaultRows(Rows(a)) : ~IsRollup(r)})
      /\ s.active = Cardinality(VaultRows(Rows(a))) /\ s.complete = a.complete
      /\ s.worth = Independent(position, market) /\ s.transcribed = AppFormula(position, market)
  BY DEF SummaryOf
<1>2. /\ s.total = x + z + w + (IF held THEN c ELSE 0)
      /\ s.claimable = (IF held THEN c ELSE 0)
      /\ s.vaultLp = w
  BY <1>1, RowSums
<1>3. /\ SumOfAll([e \in s.allocation |-> e.row.value]) = x + z + w
      /\ SumOfAll([e \in s.allocation |-> e.percent]) <= 100
  BY <1>1, AllocationSums
<1>4. /\ YieldPositions(s) # {} <=> held
      /\ SumOfAll([e \in YieldPositions(s) |-> e.value]) = x + z
      /\ SumOfAll([e \in VaultPositions(s) |-> e.claimable]) = (IF held THEN c ELSE 0)
      /\ s.active = (IF held THEN 1 ELSE 0) + (IF a.sy > 0 THEN 1 ELSE 0)
  BY <1>1, TableSums
<1>5. KpiCards(s).value = s.total
  BY DEF KpiCards
<1>6. /\ a.next > 1 /\ a.next > 2 /\ a.next > 3 /\ a.next > 4 /\ a.next > 5 /\ a.next > 6
  BY DEF Assessment, ReadOrder
<1>7. /\ a.spot \in Nat /\ a.ptPrice \in Nat /\ a.ytPrice \in Nat /\ a.sy \in Nat
      /\ a.pt \in Nat /\ a.yt \in Nat /\ a.owed \in Nat 
      /\ market.spot \in Nat /\ market.rate \in Nat \ {0}
      /\ position.sy \in Nat /\ position.pt \in Nat /\ position.yt \in Nat /\ position.owed \in Nat
      /\ P \in Nat /\ Y \in Nat /\ C \in Nat /\ One \in Nat
  BY PricesAreNat DEF Typed, Assessment, One
<1>8. /\ a.spot \in {0, market.spot} /\ a.ptPrice \in {0, P} /\ a.ytPrice \in {0, Y} /\ a.sy \in {0, C}
      /\ a.pt \in {0, position.pt} /\ a.yt \in {0, position.yt} /\ a.owed \in {0, position.owed}
  BY DEF Says, Reads
<1>9. a.complete => /\ a.spot = market.spot /\ a.ptPrice = P /\ a.ytPrice = Y /\ a.sy = C
                    /\ a.pt = position.pt /\ a.yt = position.yt /\ a.owed = position.owed
  BY <1>6 DEF Says, Reads
<1>10. /\ H = position.pt * P * market.spot + position.yt * Y * market.spot + C * market.spot * One
       /\ o = position.owed * market.spot * One
  BY WorthByParts
<1>11. s.worth.total = H + o /\ s.transcribed.total = H + (IF HasTokenized(position) THEN o ELSE 0)
       /\ s.transcribed.active = Positions(position) /\ s.transcribed.shared = H
  BY <1>1 DEF Independent, AppFormula
<1>12. a.sy > 0 <=> (position.sy > 0 /\ a.sy = C)
  <2>1. position.sy = 0 => C = 0
    BY <1>7
  <2>2. position.sy > 0 => 1 * market.rate <= C
    BY <1>7, TimesMonotone
  <2> HIDE DEF C
  <2> QED BY <1>7, <1>8, <2>1, <2>2
<1> HIDE DEF P, Y, C
<1>13. /\ a.spot <= market.spot /\ a.ptPrice <= P /\ a.ytPrice <= Y /\ a.sy <= C
       /\ a.pt <= position.pt /\ a.yt <= position.yt /\ a.owed <= position.owed
  BY <1>7, <1>8
<1>14. /\ x \in Nat /\ x <= position.pt * P * market.spot /\ position.pt * P * market.spot \in Nat
       /\ z \in Nat /\ z <= position.yt * Y * market.spot /\ position.yt * Y * market.spot \in Nat
       /\ w \in Nat /\ w <= C * market.spot * One /\ C * market.spot * One \in Nat
       /\ c \in Nat /\ c <= position.owed * market.spot * One /\ position.owed * market.spot * One \in Nat
  <2>1. /\ a.pt * a.ptPrice * a.spot <= position.pt * P * market.spot
        /\ a.pt * a.ptPrice * a.spot \in Nat /\ position.pt * P * market.spot \in Nat
    BY <1>7, <1>13, ProductBelow
  <2>2. /\ a.yt * a.ytPrice * a.spot <= position.yt * Y * market.spot
        /\ a.yt * a.ytPrice * a.spot \in Nat /\ position.yt * Y * market.spot \in Nat
    BY <1>7, <1>13, ProductBelow
  <2> DEFINE T == One
  <2>3. T \in Nat /\ T <= T
    BY DEF One
  <2> HIDE DEF T
  <2>4. /\ a.sy * a.spot * T <= C * market.spot * T
        /\ a.sy * a.spot * T \in Nat /\ C * market.spot * T \in Nat
    BY <1>7, <1>13, <2>3, ProductBelow
  <2>5. /\ a.owed * a.spot * T <= position.owed * market.spot * T
        /\ a.owed * a.spot * T \in Nat /\ position.owed * market.spot * T \in Nat
    BY <1>7, <1>13, <2>3, ProductBelow
  <2> QED BY <2>1, <2>2, <2>4, <2>5 DEF PtValue, YtValue, ShareValue, YieldValue, T
<1>15. a.complete => /\ x + z + w = H /\ c = o
                     /\ (held <=> HasTokenized(position))
                     /\ Positions(position) = (IF held THEN 1 ELSE 0) + (IF a.sy > 0 THEN 1 ELSE 0)
  <2> SUFFICES ASSUME a.complete
               PROVE  /\ x + z + w = H /\ c = o
                      /\ (held <=> HasTokenized(position))
                      /\ Positions(position) = (IF held THEN 1 ELSE 0) + (IF a.sy > 0 THEN 1 ELSE 0)
    OBVIOUS
  <2>1. x + z + w = H /\ c = o
    BY <1>9, <1>10 DEF PtValue, YtValue, ShareValue, YieldValue
  <2>2. held <=> HasTokenized(position)
    BY <1>9 DEF HasTokenized
  <2>3. Positions(position) = (IF held THEN 1 ELSE 0) + (IF a.sy > 0 THEN 1 ELSE 0)
    BY <1>9, <1>12, <2>2 DEF Positions, HasRawLp
  <2> QED BY <2>1, <2>2, <2>3
<1>16. H \in Nat /\ o \in Nat /\ x + z + w <= H /\ c <= o
  <2> DEFINE i == position.pt * P * market.spot
             j == position.yt * Y * market.spot
             k == C * market.spot * One
  <2> HIDE DEF x, z, w, i, j, k, H, o, c
  <2>1. x \in Nat /\ z \in Nat /\ w \in Nat /\ x <= i /\ z <= j /\ w <= k /\ i \in Nat /\ j \in Nat /\ k \in Nat
    BY <1>14 DEF i, j, k
  <2>2. H = i + j + k
    BY <1>10 DEF i, j, k
  <2> QED BY <1>10, <1>14, <2>1, <2>2
<1> HIDE DEF s, x, z, w, c, held, H, o
<1>17. s.total <= s.worth.total
  BY <1>2, <1>14, <1>11, <1>16
<1>18. (s.complete /\ YieldPositions(s) # {}) => s.total = s.worth.total
  BY <1>1, <1>2, <1>4, <1>11, <1>15
<1>19. s.complete => /\ s.total = s.transcribed.total
                     /\ s.active = s.transcribed.active
                     /\ s.total - s.claimable = s.transcribed.shared
  <2>1. s.complete => s.total = s.transcribed.total
    BY <1>1, <1>2, <1>11, <1>15
  <2>2. s.complete => s.active = s.transcribed.active
    BY <1>1, <1>4, <1>11, <1>15
  <2>3. s.complete => s.total - s.claimable = s.transcribed.shared
    BY <1>1, <1>2, <1>11, <1>14, <1>15, <1>16
  <2> QED BY <2>1, <2>2, <2>3
<1>20. SumOfAll([e \in YieldPositions(s) |-> e.value]) + s.vaultLp
         + SumOfAll([e \in VaultPositions(s) |-> e.claimable]) = KpiCards(s).value
  BY <1>2, <1>4, <1>5, <1>14
<1>21. SumOfAll([e \in s.allocation |-> e.row.value]) = s.total - s.claimable
  BY <1>2, <1>3, <1>14
<1>22. AddsUp(s)
  BY <1>3, <1>17, <1>18, <1>19, <1>20, <1>21 DEF AddsUp
<1> QED BY <1>22 DEF s

\* A figure is left as it was unless its read is the one at hand and is answered.
Follows(n, complete, read, before, after, right) ==
  /\ after = before \/ (n = read /\ after = right)
  /\ complete /\ n = read => after = right

\* A read, answered or not, keeps what the assessment says.
LEMMA ReadAnswersStep ==
  ASSUME Typed, Assessed, ReadAnswers
  PROVE  assessment' \in Assessment /\ (~assessment'.moved => Says(assessment)')
<1> DEFINE a == assessment
           n == a.next
<1>1. a \in Assessment /\ n \in 1 .. 6 /\ (~a.moved => Says(a)) /\ UNCHANGED <<position, market>>
  BY DEF ReadAnswers, Assessed, Assessment, ReadOrder
<1>2. /\ market.spot \in Nat /\ PtPrice(market) \in Nat /\ YtPriceOf(PtPrice(market)) \in Nat
      /\ position.sy * market.rate \in Nat
      /\ position.pt \in Nat /\ position.yt \in Nat /\ position.owed \in Nat
  BY PricesAreNat DEF Typed
<1> DEFINE P == PtPrice(market)
           Y == YtPriceOf(PtPrice(market))
           C == position.sy * market.rate
<1>3. /\ a \in [next : 1 .. 7, spot : Nat, ptPrice : Nat, ytPrice : Nat, sy : Nat, pt : Nat, yt : Nat,
               owed : Nat, complete : BOOLEAN, moved : BOOLEAN]
  BY <1>1 DEF Assessment, ReadOrder
<1> DEFINE T == [next : 1 .. 7, spot : Nat, ptPrice : Nat, ytPrice : Nat, sy : Nat, pt : Nat, yt : Nat,
                 owed : Nat, complete : BOOLEAN, moved : BOOLEAN]
           Step(b) == /\ b \in T /\ b.next = n + 1 /\ b.moved = a.moved /\ (b.complete => a.complete)
                      /\ Follows(n, b.complete, 1, a.spot, b.spot, market.spot)
                      /\ Follows(n, b.complete, 2, a.ptPrice, b.ptPrice, P)
                      /\ Follows(n, b.complete, 2, a.ytPrice, b.ytPrice, Y)
                      /\ Follows(n, b.complete, 3, a.sy, b.sy, C)
                      /\ Follows(n, b.complete, 4, a.pt, b.pt, position.pt)
                      /\ Follows(n, b.complete, 5, a.yt, b.yt, position.yt)
                      /\ Follows(n, b.complete, 6, a.owed, b.owed, position.owed)
<1>4. Step(a')
  <2>1. CASE a' = [a EXCEPT !.next = @ + 1, !.complete = FALSE]
    <3> HIDE DEF P, Y, C
    <3>1. n + 1 \in 1 .. 7 /\ n + 1 # n
      BY <1>1
    <3>2. a' \in T
      BY <1>3, <2>1, <3>1
    <3>3. /\ a'.next = n + 1 /\ a'.moved = a.moved /\ a'.complete = FALSE /\ a'.spot = a.spot
          /\ a'.ptPrice = a.ptPrice /\ a'.ytPrice = a.ytPrice /\ a'.sy = a.sy /\ a'.pt = a.pt
          /\ a'.yt = a.yt /\ a'.owed = a.owed
      BY <1>3, <2>1
    <3> QED BY <3>2, <3>3 DEF Follows
  <2>2. CASE a' = [Answer(a, ReadOrder[n]) EXCEPT !.next = @ + 1]
    <3>1. /\ n = 1 => Answer(a, ReadOrder[n]) = [a EXCEPT !.spot = market.spot]
          /\ n = 2 => Answer(a, ReadOrder[n]) = [a EXCEPT !.ptPrice = P, !.ytPrice = Y]
          /\ n = 3 => Answer(a, ReadOrder[n]) = [a EXCEPT !.sy = C]
          /\ n = 4 => Answer(a, ReadOrder[n]) = [a EXCEPT !.pt = position.pt]
          /\ n = 5 => Answer(a, ReadOrder[n]) = [a EXCEPT !.yt = position.yt]
          /\ n = 6 => Answer(a, ReadOrder[n]) = [a EXCEPT !.owed = position.owed]
      BY DEF Answer, ReadOrder
    <3>2. P \in Nat /\ Y \in Nat /\ C \in Nat
      BY <1>2
    <3> HIDE DEF P, Y, C
    <3>3. CASE n = 1
      BY <1>1, <1>2, <1>3, <2>2, <3>1, <3>3 DEF Follows
    <3>4. CASE n = 2
      <4> DEFINE b == [a EXCEPT !.ptPrice = P, !.ytPrice = Y]
      <4>1. b \in T
        BY <1>3, <3>2
      <4>2. /\ b.moved = a.moved /\ b.complete = a.complete /\ b.spot = a.spot /\ b.next = n
            /\ b.ptPrice = P /\ b.ytPrice = Y /\ b.sy = a.sy /\ b.pt = a.pt
            /\ b.yt = a.yt /\ b.owed = a.owed
        BY <1>3
      <4>3. a' = [b EXCEPT !.next = @ + 1]
        BY <2>2, <3>1, <3>4
      <4> HIDE DEF b
      <4>4. a' \in T
        BY <3>4, <4>1, <4>2, <4>3
      <4>5. /\ a'.next = 3 /\ a'.moved = a.moved /\ a'.complete = a.complete /\ a'.spot = a.spot
            /\ a'.ptPrice = P /\ a'.ytPrice = Y /\ a'.sy = a.sy /\ a'.pt = a.pt
            /\ a'.yt = a.yt /\ a'.owed = a.owed
        BY <3>4, <4>1, <4>2, <4>3
      <4> QED BY <3>4, <4>4, <4>5 DEF Follows
    <3>5. CASE n = 3
      BY <1>1, <1>3, <2>2, <3>1, <3>2, <3>5 DEF Follows
    <3>6. CASE n = 4
      BY <1>1, <1>2, <1>3, <2>2, <3>1, <3>6 DEF Follows
    <3>7. CASE n = 5
      BY <1>1, <1>2, <1>3, <2>2, <3>1, <3>7 DEF Follows
    <3>8. CASE n = 6
      BY <1>1, <1>2, <1>3, <2>2, <3>1, <3>8 DEF Follows
    <3>9. n = 1 \/ n = 2 \/ n = 3 \/ n = 4 \/ n = 5 \/ n = 6
      BY <1>1
    <3> QED BY <3>3, <3>4, <3>5, <3>6, <3>7, <3>8, <3>9
  <2> QED BY <2>1, <2>2 DEF ReadAnswers
<1>5. ASSUME Says(a) PROVE Says(a)'
  <2> DEFINE b == a'
             m == n + 1
             old == a.complete
             new == b.complete
  <2>1. b = a' /\ b.next = m /\ n \in 1 .. 6 /\ (new => old) /\ new = b.complete /\ old \in BOOLEAN /\ new \in BOOLEAN
    BY <1>1, <1>3, <1>4
  <2>2. ASSUME NEW i \in 1 .. 6, NEW figure, NEW next, NEW right,
               Reads(n, old, i, figure, right), Follows(n, new, i, figure, next, right)
        PROVE  Reads(m, new, i, next, right)
    <3> HIDE DEF n, old, new
    <3> QED BY <2>1, <2>2 DEF Reads, Follows, m
  <2> HIDE DEF m, b, new, old
  <2>3. /\ Reads(m, new, 1, b.spot, market.spot)
        /\ Reads(m, new, 2, b.ptPrice, P)
        /\ Reads(m, new, 2, b.ytPrice, Y)
        /\ Reads(m, new, 3, b.sy, C)
        /\ Reads(m, new, 4, b.pt, position.pt)
        /\ Reads(m, new, 5, b.yt, position.yt)
        /\ Reads(m, new, 6, b.owed, position.owed)
    BY <1>4, <1>5, <2>2 DEF Says, b, new, old
  <2> QED BY <1>1, <2>1, <2>3 DEF Says
<1> QED BY <1>1, <1>4, <1>5 DEF Assessment, ReadOrder

\* A move of the account is marked in the fetch under way.
LEMMA PositionMovesStep ==
  ASSUME Typed, Assessed, PositionMoves
  PROVE  Typed' /\ Assessed'
<1>1. /\ position.sy \in Nat /\ position.pt \in Nat /\ position.yt \in Nat
      /\ position.owed \in Nat /\ market.rate \in Nat /\ UNCHANGED market
  BY DEF Typed, PositionMoves
<1>2. position' \in [sy : Nat, pt : Nat, yt : Nat, owed : Nat]
  <2>1. position \in [sy : Nat, pt : Nat, yt : Nat, owed : Nat]
    BY DEF Typed
  <2>2. CASE position.sy > 0 /\ position' = [position EXCEPT !.sy = @ - 1, !.pt = @ + market.rate, !.yt = @ + market.rate]
    <3>1. position.sy - 1 \in Nat /\ position.pt + market.rate \in Nat /\ position.yt + market.rate \in Nat
      BY <1>1, <2>2
    <3> QED BY <2>1, <2>2, <3>1
  <2>3. CASE position' = [position EXCEPT !.owed = 0]
    BY <2>1, <2>3
  <2> QED BY <2>2, <2>3 DEF PositionMoves
<1>3. assessment # None => assessment' \in Assessment /\ assessment'.moved
  BY DEF PositionMoves, Assessed, Assessment
<1>4. assessment = None => assessment' = None
  BY DEF PositionMoves
<1> QED BY <1>1, <1>2, <1>3, <1>4 DEF Typed, Assessed

\* The property CountedOnce of every portfolio, whatever the account holds, the market says
\* and reads fail: the inductive invariant adds what an assessment under way says so far.
THEOREM Counted ==
  ASSUME None \notin Nat
  PROVE  ValueSpec => []CountedOnce
<1> DEFINE Inv == Typed /\ Assessed /\ CountedOnce
<1>1. ValueInit => Inv
  <2> SUFFICES ASSUME ValueInit PROVE Inv
    OBVIOUS
  <2>1. Typed
    BY PortfolioValueAssumption DEF ValueInit, Typed
  <2> QED BY <2>1 DEF ValueInit, Assessed, CountedOnce
<1>2. Inv /\ [ValueNext]_valueVars => Inv'
  <2> SUFFICES ASSUME Inv, [ValueNext]_valueVars PROVE Inv'
    OBVIOUS
  <2>1. CASE StartFetch
    <3>1. /\ assessment' = [next |-> 1, spot |-> 0, ptPrice |-> 0, ytPrice |-> 0, sy |-> 0, pt |-> 0,
                            yt |-> 0, owed |-> 0, complete |-> TRUE, moved |-> FALSE]
          /\ UNCHANGED <<position, market, summary>>
      BY <2>1 DEF StartFetch
    <3>2. assessment' \in Assessment
      BY <3>1 DEF Assessment, ReadOrder
    <3>3. Says(assessment)'
      BY <3>1 DEF Says, Reads
    <3> QED BY <3>1, <3>2, <3>3 DEF Typed, Assessed, CountedOnce
  <2>2. CASE ReadAnswers
    <3>1. UNCHANGED <<position, market, summary>>
      BY <2>2 DEF ReadAnswers
    <3>2. Assessed'
      BY <2>2, ReadAnswersStep DEF Assessed
    <3> QED BY <3>1, <3>2 DEF Typed, CountedOnce
  <2>3. CASE FetchDone
    <3>1. /\ assessment \in Assessment /\ assessment.next > Len(ReadOrder)
          /\ ~assessment.moved => Says(assessment)
          /\ summary' = SummaryOf(assessment) /\ assessment' = None /\ UNCHANGED <<position, market>>
      BY <2>3 DEF FetchDone, Assessed
    <3>2. summary'.moved = assessment.moved
      BY <3>1 DEF SummaryOf
    <3>3. ~assessment.moved => AddsUp(summary')
      BY <3>1, SummaryAddsUp
    <3>4. CountedOnce'
      BY <3>2, <3>3 DEF CountedOnce
    <3> QED BY <3>1, <3>4 DEF Typed, Assessed
  <2>4. CASE PositionMoves
    <3>1. UNCHANGED summary
      BY <2>4 DEF PositionMoves
    <3>2. CountedOnce'
      BY <3>1 DEF CountedOnce
    <3> QED BY <2>4, <3>2, PositionMovesStep
  <2>5. CASE UNCHANGED valueVars
    BY <2>5 DEF valueVars, Typed, Assessed, Says, CountedOnce
  <2> QED BY <2>1, <2>2, <2>3, <2>4, <2>5 DEF ValueNext
<1> QED BY <1>1, <1>2, PTL DEF ValueSpec

=============================================================================
