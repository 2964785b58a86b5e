------------------------------ MODULE Governance ------------------------------
(***************************************************************************)
(* The governance surface shared by the SY wrapper, the tokenizer and the   *)
(* AMM: a two-step admin transfer, a guardian that may pause, an unpause    *)
(* kept by the admin, upgrades behind a timelock, a sweep of foreign tokens *)
(* and a renounce.  The three contracts carry the same code except for      *)
(* which entry points refuse to run once governance is renounced:           *)
(* RenounceGated names those.                                              *)
(*                                                                         *)
(* Every entry point is an atomic invocation authorised by one account.     *)
(***************************************************************************)
EXTENDS Integers

CONSTANTS
  Accounts,       \* the accounts that may take part
  Wasms,          \* the code the contract may run
  Timelock,       \* UPGRADE_TIMELOCK_SECONDS
  MaxTime,        \* bound on the ledger timestamp
  RenounceGated,  \* the entry points that call require_not_renounced
  None            \* "this entry was never stored"

ASSUME GovernanceAssumption ==
  /\ Timelock \in Nat
  /\ MaxTime \in Nat
  /\ None \notin Accounts
  /\ None \notin Wasms \X Nat

VARIABLES
  admin,          \* config.admin
  pendingAdmin,   \* PendingAdmin
  guardian,       \* Guardian
  paused,         \* Paused
  wasm,           \* the code the contract runs
  pendingUpgrade, \* PendingUpgrade: <<wasm, eta>> or None
  renounced,      \* Renounced
  stray,          \* foreign tokens sent to the contract
  now,            \* ledger timestamp
  caller,         \* history: who authorised the last call, None for the network
  announced       \* history: when the pending upgrade was proposed

keys == <<admin, pendingAdmin, guardian>>
upgrade == <<wasm, pendingUpgrade, announced>>
vars == <<keys, upgrade, paused, renounced, stray, now, caller>>

Init ==
  /\ admin \in Accounts
  /\ pendingAdmin = None
  /\ guardian = None
  /\ paused = FALSE
  /\ wasm \in Wasms
  /\ pendingUpgrade = None
  /\ renounced = FALSE
  /\ stray = 0
  /\ now = 0
  /\ caller = None
  /\ announced = 0

NotRenounced(entrypoint) == entrypoint \in RenounceGated => ~renounced

(***************************************************************************)
(* Keys.                                                                   *)
(***************************************************************************)
ProposeAdmin(a) ==
  /\ pendingAdmin' = a
  /\ caller' = admin
  /\ UNCHANGED <<admin, guardian, upgrade, paused, renounced, stray, now>>

AcceptAdmin ==
  /\ pendingAdmin # None
  /\ admin' = pendingAdmin
  /\ pendingAdmin' = None
  /\ caller' = pendingAdmin
  /\ UNCHANGED <<guardian, upgrade, paused, renounced, stray, now>>

SetGuardian(a) ==
  /\ guardian' = a
  /\ caller' = admin
  /\ UNCHANGED <<admin, pendingAdmin, upgrade, paused, renounced, stray, now>>

(***************************************************************************)
(* Pausing.                                                                *)
(***************************************************************************)

\* The one account pause() accepts: the guardian, or the admin while none is set.
Pauser == IF guardian = None THEN admin ELSE guardian

Pause(a) ==
  /\ a = Pauser
  /\ paused' = TRUE
  /\ caller' = a
  /\ UNCHANGED <<keys, upgrade, renounced, stray, now>>

Unpause ==
  /\ paused' = FALSE
  /\ caller' = admin
  /\ UNCHANGED <<keys, upgrade, renounced, stray, now>>

(***************************************************************************)
(* Upgrades.                                                               *)
(***************************************************************************)

\* Variant: proposing other code keeps the deadline of the pending one.
ProposeUpgradeKeepsEta(w) ==
  /\ NotRenounced("propose_upgrade")
  /\ pendingUpgrade' = <<w, IF pendingUpgrade = None THEN now + Timelock ELSE pendingUpgrade[2]>>
  /\ announced' = now
  /\ caller' = admin
  /\ UNCHANGED <<keys, wasm, paused, renounced, stray, now>>

ProposeUpgrade(w) ==
  /\ NotRenounced("propose_upgrade")
  /\ pendingUpgrade' = <<w, now + Timelock>>
  /\ announced' = now
  /\ caller' = admin
  /\ UNCHANGED <<keys, wasm, paused, renounced, stray, now>>

CancelUpgrade ==
  /\ pendingUpgrade' = None
  /\ caller' = admin
  /\ UNCHANGED <<keys, wasm, announced, paused, renounced, stray, now>>

\* execute_upgrade checks the deadline, not the renouncement: it relies on
\* renounce_admin to have dropped the proposal.
ExecuteUpgrade ==
  /\ pendingUpgrade # None
  /\ now >= pendingUpgrade[2]
  /\ wasm' = pendingUpgrade[1]
  /\ pendingUpgrade' = None
  /\ caller' = admin
  /\ UNCHANGED <<keys, announced, paused, renounced, stray, now>>

(***************************************************************************)
(* Renouncing, and sweeping foreign tokens.                                 *)
(***************************************************************************)

\* Variant: a proposed upgrade survives the renouncement.
RenounceKeepsUpgrade ==
  /\ renounced' = TRUE
  /\ pendingAdmin' = None
  /\ caller' = admin
  /\ UNCHANGED <<admin, guardian, upgrade, paused, stray, now>>

RenounceAdmin ==
  /\ renounced' = TRUE
  /\ pendingAdmin' = None
  /\ pendingUpgrade' = None
  /\ caller' = admin
  /\ UNCHANGED <<admin, guardian, wasm, announced, paused, stray, now>>

\* The whole foreign balance leaves; the contract's own assets are refused.
Sweep ==
  /\ NotRenounced("sweep")
  /\ stray > 0
  /\ stray' = 0
  /\ caller' = admin
  /\ UNCHANGED <<keys, upgrade, paused, renounced, now>>

(***************************************************************************)
(* The network.                                                            *)
(***************************************************************************)
ReceiveStray ==
  /\ stray = 0
  /\ stray' = 1
  /\ caller' = None
  /\ UNCHANGED <<keys, upgrade, paused, renounced, now>>

Tick ==
  /\ now < MaxTime
  /\ now' = now + 1
  /\ caller' = None
  /\ UNCHANGED <<keys, upgrade, paused, renounced, stray>>

Next ==
  \/ AcceptAdmin \/ Unpause \/ CancelUpgrade \/ ExecuteUpgrade \/ RenounceAdmin
  \/ Sweep \/ ReceiveStray \/ Tick
  \/ \E a \in Accounts : ProposeAdmin(a) \/ SetGuardian(a) \/ Pause(a)
  \/ \E w \in Wasms : ProposeUpgrade(w)

Spec == Init /\ [][Next]_vars

-----------------------------------------------------------------------------
(***************************************************************************)
(* Properties.                                                             *)
(***************************************************************************)
TypeOK ==
  /\ admin \in Accounts
  /\ pendingAdmin \in Accounts \cup {None}
  /\ guardian \in Accounts \cup {None}
  /\ paused \in BOOLEAN
  /\ wasm \in Wasms
  /\ pendingUpgrade \in (Wasms \X Nat) \cup {None}
  /\ renounced \in BOOLEAN
  /\ stray \in Nat
  /\ now \in Nat
  /\ caller \in Accounts \cup {None}
  /\ announced \in Nat

\* The contract changes hands only by the new admin's own call, so a mistyped
\* nominee can never hold it (propose_admin, accept_admin).
AdminConsents == [][admin' # admin => caller' = admin']_vars

\* New code runs only after the timelock measured from the proposal of that
\* very code, whatever proposals, cancellations and admin changes came between.
UpgradeIsAdvertised ==
  [][ExecuteUpgrade => pendingUpgrade[1] = wasm' /\ now - announced >= Timelock]_vars

\* After renounce_admin the contract runs the same code forever.
UpgradesEnd == [][renounced => wasm' = wasm]_vars

=============================================================================
