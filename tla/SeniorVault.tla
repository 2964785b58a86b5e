----------------------------- MODULE SeniorVault -----------------------------
(***************************************************************************)
(* What the tokenizer promises holders of principal, with everything else   *)
(* abstracted away: an escrow of SY shares stands against an outstanding    *)
(* principal in asset units, valued at a rate that is on record.            *)
(*                                                                         *)
(*   - principal is issued only against shares worth at least as much;      *)
(*   - principal leaves for at most its face, and never for more than its   *)
(*     share of the escrow;                                                *)
(*   - anything else that leaves (yield) leaves the outstanding principal   *)
(*     covered;                                                            *)
(*   - once the rate is sealed it never changes, and nothing is issued.     *)
(*                                                                         *)
(* Actions are relations between two states, so that any implementation     *)
(* whose steps respect them refines this module.                           *)
(***************************************************************************)
EXTENDS Integers

CONSTANTS Unit, None

VARIABLES
  shares,       \* SY shares in escrow
  principal,    \* outstanding principal, in asset units
  rate,         \* the rate on record, or None
  sealed        \* whether the rate is final

vaultVars == <<shares, principal, rate, sealed>>

VaultInit ==
  /\ shares = 0
  /\ principal = 0
  /\ rate = None
  /\ sealed = FALSE

Covered(s, p, r) == s * r >= p * Unit

\* The rate on record may be replaced until it is sealed; sealing keeps the
\* rate on record when there is one.
RateStep ==
  /\ rate' \in Nat \cup {None}
  /\ sealed => sealed' /\ rate' = rate
  /\ sealed' /\ rate # None => rate' = rate

Issue ==
  /\ RateStep
  /\ ~sealed'
  /\ rate' # None
  /\ shares' > shares
  /\ principal' > principal
  /\ Covered(shares' - shares, principal' - principal, rate')

Redeem ==
  /\ RateStep
  /\ rate' # None
  /\ principal' < principal
  /\ shares' <= shares
  /\ (shares - shares') * rate' <= (principal - principal') * Unit
  /\ shares' * principal >= shares * principal'

PayYield ==
  /\ RateStep
  /\ rate' # None
  /\ principal' = principal
  /\ shares' < shares
  /\ Covered(shares', principal', rate')

\* Principal given up, or shares given to the vault, for nothing in return.
Forfeit ==
  /\ UNCHANGED <<rate, sealed>>
  /\ principal' <= principal
  /\ shares' >= shares

Observe == RateStep /\ UNCHANGED <<shares, principal>>

VaultNext == Issue \/ Redeem \/ PayYield \/ Forfeit \/ Observe

VaultSpec == VaultInit /\ [][VaultNext]_vaultVars

=============================================================================
