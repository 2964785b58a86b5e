-------------------------------- MODULE MCWeb --------------------------------
(***************************************************************************)
(* The web application part by part, with the script that verifies the network  *)
(* it runs on: a behaviour is one of any part, the others at rest. Parts that   *)
(* share state are one module already, the wallet and the portfolio that         *)
(* follows it.                                                             *)
(***************************************************************************)
EXTENDS TradeQuotes, TradeExecution, MintFlow, Wallet,
        PriceOracle, Verification, PortfolioValue, Notifications

VARIABLE part     \* the part this behaviour is of

formVars  == <<quotesVars, tradeVars, mintVars, walletVars>>
asideVars == <<oracleVars, verifyVars, valueVars, noteVars>>
webVars   == <<part, formVars, asideVars>>

\* Two states of the pool, its PT at a discount in both.
Below     == [pt |-> 9, yt |-> 1, apy |-> 0, reserve |-> 200, rate |-> 1]
Earns     == [pt |-> 8, yt |-> 2, apy |-> 5, reserve |-> 100, rate |-> 2]
MCMarkets == {Below, Earns}

\* Accounts that can buy, sell, or redeem SY they had before.
Buyer      == [und |-> 2, sy |-> 0, token |-> 0]
Seller     == [und |-> 0, sy |-> 2, token |-> 2]
Depositor  == [und |-> 2, sy |-> 2, token |-> 0]
MCHoldings == {Buyer, Seller, Depositor}

MCVaults == <<"blend", "xlm">>

\* What an account holds, and the market, while the portfolio rests.
MCNothing == [sy |-> 0, pt |-> 0, yt |-> 0, owed |-> 0]
MCMarket  == [spot |-> 3, quote |-> 4, rate |-> 2]

\* A part at rest is in one of its initial states; the pool starts in the same one always.
AtRest ==
  /\ pool = Below
  /\ part # "trade" => poolPrice = 1 /\ purse = Buyer
  /\ part # "mint" => balance = 0
  /\ part # "wallet" => ~freighter.available /\ freighter.network = TargetNetwork
  /\ part # "portfolio" => position = MCNothing /\ market = MCMarket

Init ==
  /\ part \in {"quotes", "trade", "mint", "wallet",
              "oracle", "verification", "portfolio", "notifications"}
  /\ QuotesInit /\ TradeInit /\ MintInit /\ WalletInit
  /\ OracleInit /\ VerifyInit /\ ValueInit /\ NotesInit
  /\ AtRest

Next ==
  /\ UNCHANGED part
  /\ \/ /\ part = "quotes" /\ QuotesNext
        /\ UNCHANGED <<tradeVars, mintVars, walletVars, asideVars>>
     \/ /\ part = "trade" /\ TradeNext
        /\ UNCHANGED <<quotesVars, mintVars, walletVars, asideVars>>
     \/ /\ part = "mint" /\ MintNext
        /\ UNCHANGED <<quotesVars, tradeVars, walletVars, asideVars>>
     \/ /\ part = "wallet" /\ WalletNext
        /\ UNCHANGED <<quotesVars, tradeVars, mintVars, asideVars>>
     \/ /\ UNCHANGED formVars
        /\ \/ /\ part = "oracle" /\ OracleNext
              /\ UNCHANGED <<verifyVars, valueVars, noteVars>>
           \/ /\ part = "verification" /\ VerifyNext
              /\ UNCHANGED <<oracleVars, valueVars, noteVars>>
           \/ /\ part = "portfolio" /\ ValueNext
              /\ UNCHANGED <<oracleVars, verifyVars, noteVars>>
           \/ /\ part = "notifications" /\ NotesNext
              /\ UNCHANGED <<oracleVars, verifyVars, valueVars>>

\* Timers fire, a request to the network or to the extension is answered or refused, and
\* the trade that was sent ends. The user is owed nothing, and owes nothing; nor is any
\* progress owed to the parts that no liveness property is about.
Fairness ==
  /\ WF_quotesVars(part = "quotes" /\ TimerFires)
  /\ WF_quotesVars(part = "quotes" /\ FetchMarket)
  /\ WF_quotesVars(part = "quotes" /\ (TradeSucceeds \/ TradeFails))
  /\ \A s \in Slots : WF_quotesVars(part = "quotes" /\ (QuoteFails(s) \/ QuoteAnswers(s)))
  /\ \A s \in FetchSlots : WF_quotesVars(part = "quotes" /\ (MarketAnswers(s) \/ MarketFails(s)))
  /\ \A h \in Handlers :
       WF_mintVars(/\ part = "mint"
                   /\ Previewed(h) \/ Throws(h) \/ DepositAnswers(h) \/ SplitAnswers(h))
  /\ WF_walletVars(part = "wallet" /\ FetchAnswers(wallet) /\ UNCHANGED serviceVars)
  /\ \A h \in Operations : WF_walletVars(part = "wallet" /\ ServiceAnswers(h))

Spec == Init /\ [][Next]_webVars /\ Fairness
=============================================================================
