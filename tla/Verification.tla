----------------------------- MODULE Verification -----------------------------
(***************************************************************************)
(* verify-testnet: six scenarios one after the other, each with an account of  *)
(* its own, transactions on the deployed contracts, reads of what they left     *)
(* and checks of the reads; the verdict is made of the checks alone. A           *)
(* transaction may fail in a ledger without a word, the node that is read may     *)
(* lag behind the ledger, and other users move the pool.                     *)
(***************************************************************************)
EXTENDS Web

CONSTANTS
  FundTries,    \* requests to the faucet
  ReadTries     \* tries of a read

ASSUME VerificationAssumption == FundTries \in Nat \ {0} /\ ReadTries \in Nat \ {0}

VARIABLES
  scenario,     \* number of the scenario that runs
  stepNo,         \* the step of it that is next
  tries,
  settledTxs,         \* external: the transactions that settled, with their scenario
  known,         \* external: those the node that is read knows of
  scenarioReports,      \* of each scenario: whether its checks passed, whether it was skipped
  verdict

verifyVars == <<scenario, stepNo, tries, settledTxs, known, scenarioReports, verdict>>

ScenarioNames == <<"A", "B", "C", "D", "E", "F">>

\* The steps of each scenario; a purchase is a deposit and a swap.
StepsOf ==
  [A |-> <<"fund", "check">>,
   B |-> <<"fund", "deposit", "check">>,
   C |-> <<"fund", "deposit", "read", "mint", "check">>,
   D |-> <<"fund", "deposit", "depositToBuy", "buy", "check">>,
   E |-> <<"fund", "skip", "check">>,
   F |-> <<"fund", "reserve", "read", "deposit", "check", "redeem", "check">>]

Transactions == {"deposit", "mint", "depositToBuy", "buy", "redeem"}

Name       == ScenarioNames[scenario]
Running    == verdict = None /\ scenario <= Len(ScenarioNames)
DueStep    == StepsOf[Name][stepNo]
At(steps)  == Running /\ stepNo <= Len(StepsOf[Name]) /\ DueStep \in steps
Has(set, tx) == <<Name, tx>> \in set

\* What a transaction needs of the account.
Needs(tx) == CASE tx = "mint" -> {"deposit"} [] tx = "buy" -> {"depositToBuy"}
               [] tx = "redeem" -> {"deposit"} [] OTHER -> {}

Able(set, tx) == \A need \in Needs(tx) : Has(set, need)

-----------------------------------------------------------------------------
(***************************************************************************)
(* Steps.                                                                  *)
(***************************************************************************)

GoOn      == stepNo' = stepNo + 1 /\ tries' = 0 /\ UNCHANGED <<scenario, scenarioReports>>
Leaves(r) == /\ scenarioReports' = [scenarioReports EXCEPT ![Name] = r]
             /\ scenario' = scenario + 1 /\ stepNo' = 1 /\ tries' = 0
Report    == scenarioReports[Name]

\* A scenario that throws is reported once more, with a check that failed: having been
\* skipped does not hide that one.
ScenarioThrows == Leaves([pass |-> FALSE, skipped |-> FALSE])

\* The faucet is asked again only when it is busy.
FundWallet ==
  /\ At({"fund"})
  /\ \/ GoOn
     \/ tries + 1 < FundTries /\ tries' = tries + 1 /\ UNCHANGED <<scenario, stepNo, scenarioReports>>
     \/ ScenarioThrows
  /\ UNCHANGED <<settledTxs, known, verdict>>

\* A transaction is simulated on what the node knows, sent and awaited: it settles, fails
\* in a ledger, or is refused or late and throws. Only a purchase that throws is excused.
Submit ==
  /\ At(Transactions)
  /\ \/ /\ Able(known, DueStep) /\ Able(settledTxs, DueStep)
        /\ settledTxs' = settledTxs \cup {<<Name, DueStep>>} /\ GoOn
     \/ Able(known, DueStep) /\ GoOn /\ UNCHANGED settledTxs
     \/ /\ IF Name = "D" /\ DueStep # "deposit" THEN Leaves([Report EXCEPT !.skipped = TRUE]) ELSE ScenarioThrows
        /\ settledTxs' \in {settledTxs, IF Able(settledTxs, DueStep) THEN settledTxs \cup {<<Name, DueStep>>} ELSE settledTxs}
  /\ UNCHANGED <<known, verdict>>

\* The wait after a transaction may or may not be enough for the node.
NodeCatchesUp ==
  /\ Running /\ known # settledTxs
  /\ known' = settledTxs
  /\ UNCHANGED <<scenario, stepNo, tries, settledTxs, scenarioReports, verdict>>

ReadFails ==
  /\ At({"read", "check", "reserve"})
  /\ IF tries + 1 < ReadTries
     THEN tries' = tries + 1 /\ UNCHANGED <<scenario, stepNo, scenarioReports>>
     ELSE ScenarioThrows
  /\ UNCHANGED <<settledTxs, known, verdict>>

\* The first read of C is the amount of its mint, which refuses to mint nothing.
ReadsShares ==
  /\ At({"read"}) /\ Name = "C"
  /\ IF Has(known, "deposit") THEN GoOn ELSE ScenarioThrows
  /\ UNCHANGED <<settledTxs, known, verdict>>

\* checkEqualBigInt: the wrapper's rate against the one derived from its position and the
\* pool's rate; the four are separate reads, between which others may move the pool.
RateAgrees == BOOLEAN

\* That of F compares the rates before its deposit.
ReadsPool ==
  /\ At({"read"}) /\ Name = "F"
  /\ \E agrees \in RateAgrees :
       scenarioReports' = [scenarioReports EXCEPT ![Name].pass = @ /\ agrees]
  /\ stepNo' = stepNo + 1 /\ tries' = 0
  /\ UNCHANGED <<scenario, settledTxs, known, verdict>>

\* With no supply left there is nothing to redeem.
NothingToRedeem ==
  /\ At({"redeem"})
  /\ Leaves([Report EXCEPT !.skipped = TRUE])
  /\ UNCHANGED <<settledTxs, known, verdict>>

\* A pool whose reserve is disabled has nothing to propagate.
ReadsReserve ==
  /\ At({"reserve"})
  /\ GoOn \/ Leaves([pass |-> FALSE, skipped |-> TRUE])
  /\ UNCHANGED <<settledTxs, known, verdict>>

Skips ==
  /\ At({"skip"})
  /\ scenarioReports' = [scenarioReports EXCEPT ![Name].skipped = TRUE]
  /\ stepNo' = stepNo + 1 /\ tries' = 0
  /\ UNCHANGED <<scenario, settledTxs, known, verdict>>

\* Variant: what the balances hold after the transactions is not checked.
FoundAnything(tx) == TRUE

\* The checks compare balances with zero.
Found(tx) == Has(known, tx)

\* What the balances must show: the shares of B and D, the PT of C and D. The checks of F
\* compare the supply of the pool with itself before, and other users move it too.
Passes ==
  CASE Name \in {"A", "E"} -> {TRUE}
    [] Name = "B"          -> {Found("deposit")}
    [] Name = "C"          -> {Found("mint")}
    [] Name = "D"          -> {Found("deposit") /\ Found("buy")}
    [] Name = "F"          -> RateAgrees

Checks ==
  /\ At({"check"})
  /\ \E pass \in Passes :
       IF stepNo < Len(StepsOf[Name])
       THEN /\ scenarioReports' = [scenarioReports EXCEPT ![Name].pass = @ /\ pass]
            /\ stepNo' = stepNo + 1 /\ tries' = 0 /\ UNCHANGED scenario
       ELSE Leaves([Report EXCEPT !.pass = @ /\ pass])
  /\ UNCHANGED <<settledTxs, known, verdict>>

\* printReport: the checks of a scenario that was skipped do not count.
PrintReport ==
  /\ verdict = None /\ scenario > Len(ScenarioNames)
  /\ verdict' = IF \A n \in DOMAIN scenarioReports : scenarioReports[n].pass \/ scenarioReports[n].skipped THEN "PASS" ELSE "FAIL"
  /\ UNCHANGED <<scenario, stepNo, tries, settledTxs, known, scenarioReports>>

\* Without the node, the faucet, or before maturity nothing runs.
Preflight == verdict' = "FAIL" /\ verdict = None /\ scenario = 1 /\ stepNo = 1
             /\ UNCHANGED <<scenario, stepNo, tries, settledTxs, known, scenarioReports>>

VerifyInit ==
  /\ scenario = 1 /\ stepNo = 1 /\ tries = 0 /\ settledTxs = {} /\ known = {} /\ verdict = None
  /\ scenarioReports = [n \in DOMAIN StepsOf |-> [pass |-> TRUE, skipped |-> FALSE]]

VerifyNext ==
  \/ Preflight \/ FundWallet \/ Submit \/ NodeCatchesUp \/ ReadFails \/ ReadsShares \/ ReadsPool \/ ReadsReserve
  \/ NothingToRedeem \/ Skips \/ Checks \/ PrintReport

VerifySpec == VerifyInit /\ [][VerifyNext]_verifyVars

-----------------------------------------------------------------------------
(***************************************************************************)
(* Properties.                                                             *)
(***************************************************************************)

\* A run that says PASS did what it says: each transaction of a scenario that was not
\* skipped settled, although none of their statuses is looked at and a node that lags may
\* be read. The redemption of F is not covered: the supply may have fallen by another's.
PassMeansSettled ==
  verdict = "PASS" =>
    \A n \in DOMAIN StepsOf : scenarioReports[n].skipped \/
      \A i \in DOMAIN StepsOf[n] : StepsOf[n][i] \in Transactions \ {"redeem"} => <<n, StepsOf[n][i]>> \in settledTxs
=============================================================================
