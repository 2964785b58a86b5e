------------------------------ MODULE ShareFund ------------------------------
(***************************************************************************)
(* What the SY wrapper promises its holders, with the pool and the holders   *)
(* abstracted away: a supply of shares, what backs them, and the price of a  *)
(* unit of the position the backing is invested in.                         *)
(*                                                                         *)
(*   - shares are issued at most for what they bring in, at the rate before; *)
(*   - who leaves an open fund costs those who stay at most one unit of the   *)
(*     position, who leaves a closed one costs them nothing;                 *)
(*   - the backing of an open fund moves with the price of its position and   *)
(*     not with gifts; that of a closed one can only be added to;             *)
(*   - a fund closes once, and issues nothing afterwards.                    *)
(*                                                                         *)
(* Actions are relations between two states, so that any implementation     *)
(* whose steps respect them refines this module.                           *)
(***************************************************************************)
EXTENDS FixedPoint

CONSTANTS Unit, Scale

VARIABLES
  supply,    \* shares
  backing,   \* what backs them, in the underlying
  price,     \* price of a unit of the position, over Scale
  closed     \* whether the position was wound down

fundVars == <<supply, backing, price, closed>>

FundInit == supply = 0 /\ backing = 0 /\ price = Scale /\ closed = FALSE

Rate == IF supply = 0 THEN Unit ELSE MulDivFloor(backing, Unit, supply)

\* What those who stay may lose to one exit.
Dust == IF closed THEN 0 ELSE MulDivCeil(1, price, Scale)

Issue ==
  /\ ~closed
  /\ supply' > supply
  /\ (supply' - supply) * Rate <= (backing' - backing) * Unit
  /\ UNCHANGED <<price, closed>>

Leave ==
  /\ supply' < supply
  /\ (backing' + Dust) * supply >= backing * supply'
  /\ UNCHANGED <<price, closed>>

Revalue ==
  /\ closed => backing' = backing
  /\ price' >= price => backing' >= backing
  /\ price' <= price => backing' <= backing
  /\ UNCHANGED <<supply, closed>>

Gift ==
  /\ closed
  /\ backing' >= backing
  /\ UNCHANGED <<supply, price, closed>>

\* What is recovered may be less than what the position was worth.
Close ==
  /\ ~closed /\ closed' = TRUE
  /\ backing' \in Nat
  /\ UNCHANGED <<supply, price>>

FundNext == Issue \/ Leave \/ Revalue \/ Gift \/ Close

FundSpec == FundInit /\ [][FundNext]_fundVars

=============================================================================
