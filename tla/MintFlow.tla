------------------------------- MODULE MintFlow -------------------------------
(***************************************************************************)
(* The mint dialog: an amount is previewed, reviewed, deposited and split.     *)
(* Its handlers are asynchronous and nothing stops them: closing the dialog    *)
(* resets the step and the amount, and a handler that is still running sets     *)
(* the step of whatever the dialog shows by then.                            *)
(***************************************************************************)
EXTENDS Web

CONSTANTS
  MintAmounts,     \* amounts the user types
  Balances,        \* balances the wallet reports
  Vaults, XlmVault, \* the vaults, in the order of the list, and the one of XLM
  Handlers,        \* handlers that may be running at a time
  MaxOpenings,     \* bound on the times the dialog is opened
  MaxReviews,      \* bound on reviews and confirmations
  MaxReports       \* bound on balances reported

VARIABLES
  isOpen, step, amount, selectedVault, balance,
  simulationData,  \* the previewed amount, kept from the last preview
  running,         \* the handlers under way
  previewed,       \* history: the amounts the contracts previewed
  deposited,       \* history: the amounts deposited
  openings, reviews, reports

mintVars == <<isOpen, step, amount, selectedVault, balance, simulationData,
              running, previewed, deposited, openings, reviews, reports>>
dialog   == <<isOpen, selectedVault, balance, openings, reports>>

BusySteps == {"simulating", "signing", "broadcasting"}

-----------------------------------------------------------------------------
(***************************************************************************)
(* What the dialog offers.                                                  *)
(***************************************************************************)

FormPanel   == isOpen /\ step \in {"idle", "error"}
ReviewPanel == isOpen /\ step = "review" /\ simulationData # None

\* The vaults load when the dialog opens and when the balances change: the selection goes
\* back to the XLM vault for an account with XLM, and to the first one otherwise.
DefaultVault(b) == IF b > 0 /\ XlmVault \in {Vaults[i] : i \in DOMAIN Vaults} THEN XlmVault ELSE Vaults[1]

Open ==
  /\ ~isOpen /\ openings < MaxOpenings
  /\ isOpen' = TRUE /\ openings' = openings + 1
  /\ selectedVault' = DefaultVault(balance)
  /\ UNCHANGED <<step, amount, balance, simulationData, running, previewed,
                 deposited, reviews, reports>>

BalancesReported ==
  /\ reports < MaxReports /\ reports' = reports + 1
  /\ balance' \in Balances \ {balance}
  /\ selectedVault' = IF isOpen THEN DefaultVault(balance') ELSE selectedVault
  /\ UNCHANGED <<isOpen, step, amount, simulationData, running, previewed,
                 deposited, openings, reviews>>

SelectVault ==
  /\ FormPanel
  /\ \E i \in DOMAIN Vaults : selectedVault' = Vaults[i] /\ selectedVault' # selectedVault
  /\ UNCHANGED <<isOpen, step, amount, balance, simulationData, running,
                 previewed, deposited, openings, reviews, reports>>

TypeAmount ==
  /\ FormPanel
  /\ amount' \in (MintAmounts \cup {balance}) \ {amount}    \* balance: the Max button
  /\ UNCHANGED <<dialog, step, simulationData, running, previewed, deposited, reviews>>

-----------------------------------------------------------------------------
(***************************************************************************)
(* handleMint.                                                             *)
(***************************************************************************)

CanReview == FormPanel /\ amount > 0 /\ amount <= balance /\ selectedVault # None

HandleMint ==
  \E h \in Handlers :
    /\ CanReview /\ running[h] = None /\ reviews < MaxReviews
    /\ reviews' = reviews + 1
    /\ step' = "simulating"
    /\ running' = [running EXCEPT ![h] = [does |-> "preview", amount |-> amount]]
    /\ UNCHANGED <<dialog, amount, simulationData, previewed, deposited>>

Previewed(h) ==
  /\ running[h] # None /\ running[h].does = "preview"
  /\ simulationData' = running[h].amount
  /\ previewed' = previewed \cup {running[h].amount}
  /\ step' = "review"
  /\ running' = [running EXCEPT ![h] = None]
  /\ UNCHANGED <<dialog, amount, deposited, reviews>>

\* Variant: a handler that throws leaves the step as it is.
StepKept == step

StepOnError == "error"

\* A read fails, the user declines, or the network does not take the transaction.
Throws(h) ==
  /\ running[h] # None
  /\ step' = StepOnError
  /\ running' = [running EXCEPT ![h] = None]
  /\ UNCHANGED <<dialog, amount, simulationData, previewed, deposited, reviews>>

-----------------------------------------------------------------------------
(***************************************************************************)
(* handleConfirm.                                                          *)
(***************************************************************************)

\* The deposit takes the amount that was previewed.
AmountToDeposit == simulationData

HandleConfirm ==
  \E h \in Handlers :
    /\ ReviewPanel /\ running[h] = None
    /\ step' = "signing"
    /\ running' = [running EXCEPT ![h] =
                     [does |-> "deposit", amount |-> AmountToDeposit]]
    /\ UNCHANGED <<dialog, amount, simulationData, previewed, deposited, reviews>>

DepositAnswers(h) ==
  /\ running[h] # None /\ running[h].does = "deposit"
  /\ deposited' = deposited \cup {running[h].amount}
  /\ step' = "broadcasting"
  /\ running' = [running EXCEPT ![h].does = "split"]
  /\ UNCHANGED <<dialog, amount, simulationData, previewed, reviews>>

SplitAnswers(h) ==
  /\ running[h] # None /\ running[h].does = "split"
  /\ step' = "success"
  /\ running' = [running EXCEPT ![h] = None]
  /\ UNCHANGED <<dialog, amount, simulationData, previewed, deposited, reviews>>

-----------------------------------------------------------------------------
(***************************************************************************)
(* Leaving.                                                                *)
(***************************************************************************)

Cancel ==
  /\ ReviewPanel
  /\ step' = "idle"
  /\ UNCHANGED <<dialog, amount, simulationData, running, previewed, deposited, reviews>>

\* The cross closes the dialog at any step, the Done button after a mint.
HandleClose ==
  /\ isOpen
  /\ isOpen' = FALSE /\ step' = "idle" /\ amount' = 0
  /\ UNCHANGED <<selectedVault, balance, simulationData, running, previewed,
                 deposited, openings, reviews, reports>>

MintInit ==
  /\ isOpen = FALSE /\ step = "idle" /\ amount = 0 /\ selectedVault = None
  /\ balance \in Balances /\ simulationData = None
  /\ running = [h \in Handlers |-> None]
  /\ previewed = {} /\ deposited = {}
  /\ openings = 0 /\ reviews = 0 /\ reports = 0

MintNext ==
  \/ Open \/ BalancesReported \/ SelectVault \/ TypeAmount \/ HandleMint \/ HandleConfirm
  \/ Cancel \/ HandleClose
  \/ \E h \in Handlers : Previewed(h) \/ Throws(h) \/ DepositAnswers(h) \/ SplitAnswers(h)

MintSpec == MintInit /\ [][MintNext]_mintVars

-----------------------------------------------------------------------------
(***************************************************************************)
(* Properties.                                                             *)
(***************************************************************************)

\* Whatever is closed, reopened, typed and confirmed while earlier handlers run, a deposit
\* takes an amount the contracts previewed, never the contents of the form.
DepositsWerePreviewed == deposited \subseteq previewed

\* The dialog never stays on a spinner: each of its busy steps ends, although closing and
\* reopening lets several handlers write the step.
MintNeverHangs == (step \in BusySteps) ~> (step \notin BusySteps)
=============================================================================
