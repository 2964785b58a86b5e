--------------------------- MODULE MCTradeExecution ---------------------------
(* Model values for the run of TradeExecution on its own: one trade of a       *)
(* buyer, and one transaction that goes wrong.                               *)
EXTENDS TradeExecution

MCHoldings == {[und |-> 2, sy |-> 2, token |-> 0]}
=============================================================================
