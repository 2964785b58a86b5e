-------------------------------- MODULE MCAmm --------------------------------
(***************************************************************************)
(* The market for TLC, in two parts: its accounts, on the eve of maturity    *)
(* and after it, and its price record over time, with one LP.  WAD is 6: a   *)
(* rate of 9 is one and a half assets per share, so conversions round and    *)
(* flash splits leave dust; and it is just as large as a window of 2 needs. *)
(***************************************************************************)
EXTENDS Market, FiniteSets, TLC

CONSTANTS
  MaxRecordReserve,   \* bounds on the market whose record is kept
  MaxRecordLp,
  AccountsRate        \* the implied rate of the market whose accounts are watched

VARIABLE part     \* the part this behaviour is of

\* The market under the record: enough to open, trade, drain and donate to.
SmallMarket ==
  /\ totalPt <= MaxRecordReserve /\ totalSy <= MaxRecordReserve
  /\ custodyPt <= MaxRecordReserve /\ custodySy <= MaxRecordReserve
  /\ custodyYt = 0 /\ feeShare = 0
  /\ totalLp <= MaxRecordLp
  /\ Cardinality({h \in Holders : lp[h] > 0}) <= 1

MarketParts ==
  /\ part \in {"accounts", "record"}
  /\ MarketInit
  /\ now = IF part = "accounts" THEN Maturity - 1 ELSE 0

\* The accounts do not depend on the rate the curve is left at, nor on more times than one
\* before maturity and one after.
MarketPartsNext ==
  /\ UNCHANGED part
  /\ MarketNext
  /\ part = "accounts" => lastLnRate' \in {0, AccountsRate}
  /\ part = "record" => SmallMarket'

MarketPartsSpec == MarketParts /\ [][MarketPartsNext]_<<part, marketVars>>

Symmetry == Permutations(Holders) \cup Permutations(Treasuries)
=============================================================================
