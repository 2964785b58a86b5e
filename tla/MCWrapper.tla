------------------------------ MODULE MCWrapper ------------------------------
(***************************************************************************)
(* The surfaces of a contract like the SY wrapper: its accounts over the pool,  *)
(* its governance, and the allowances of a SEP-41 ledger. No entry point of one  *)
(* touches the state of another but for the pause and the renounce, which the    *)
(* wrapper's own accounts model for themselves: a behaviour is one of any of     *)
(* the three, the others at rest.                                           *)
(***************************************************************************)
EXTENDS SyWrapper, Governance, Sep41, TLC

VARIABLE part     \* the surface this behaviour is of

wrapperVars == <<part, syVars, vars, sep41Vars>>

WrapperInit ==
  /\ part \in {"shares", "governance", "allowances"}
  /\ SyInit /\ Init /\ Sep41Init
  /\ part # "governance" => admin = CHOOSE a \in Accounts : TRUE
  /\ part # "governance" => wasm = CHOOSE w \in Wasms : TRUE

WrapperNext ==
  /\ UNCHANGED part
  /\ \/ part = "shares" /\ SyNext /\ UNCHANGED <<vars, sep41Vars>>
     \/ part = "governance" /\ Next /\ UNCHANGED <<syVars, sep41Vars>>
     \/ part = "allowances" /\ Sep41Next /\ UNCHANGED <<syVars, vars>>

WrapperSpec == WrapperInit /\ [][WrapperNext]_wrapperVars

\* Every variable of the three has its type, and the supplies of the share and of the token
\* ledger are the sums of their balances.
TypesHold == SyTypeOK /\ TypeOK /\ Sep41TypeOK

Symmetry == Permutations(SyHolders) \cup Permutations(Holders)
=============================================================================
