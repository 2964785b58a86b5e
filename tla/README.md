# Novaire: models, checks and proofs

Novaire splits a yield-bearing share (SY) into principal (PT) and yield (YT) on
Soroban, trades them on an AMM, keeps a Postgres index of what happened, and offers
all of it in a web application. This directory holds TLA+ models of the contracts, of
the services and of the web application's stateful parts, the TLC configurations that
check them, and TLAPS proofs about them. Paths below are relative to the repository
root.

Contents: [1 The system](#1-the-system) · [2 Hazards](#2-what-is-hard-here) ·
[3 Modules and code](#3-modules-and-how-they-correspond-to-the-code) ·
[4 Runs](#4-what-each-run-checks) · [5 Proofs](#5-what-is-proved) ·
[6 Disagreements](#6-where-code-and-documentation-disagree) ·
[7 Not modelled](#7-what-is-not-modelled-and-why) · [8 Plan](#8-plan)

## 1. The system

| Component | State | Operations | What makes it correct |
|---|---|---|---|
| **SY wrapper** `contracts/sy-wrapper`, `contracts/blend-adapter` | share balances, principal per holder, total supply, paused / emergency / renounced, reserve index; the position itself lives in the Blend pool | deposit, redeem, transfer, emergency_withdraw_all, migrate_reserve_index, pause | supply = sum of balances; a redemption does not short who stays; wind-down is one-way and its exits need nobody |
| **Tokenizer** `contracts/tokenizer` | SY escrow, last observed rate, maturity rate, paused | split, recombine, redeem_at_maturity, claim_yield, observe_rate | PT is senior: covered escrow stays covered; one maturity rate for everybody; in a shortfall exits are pro rata |
| **PT token** `contracts/pt-token` | balances, supply, allowances with expiry ledger | mint and burn (tokenizer), transfer, approve, transfer_from, burn, burn_from | supply = sum; nobody is debited without consent |
| **YT token** `contracts/yt-token` | as PT, and per holder a rate checkpoint and an accrued-yield ledger | as PT, and settle, consume | yield owed survives transfers, burns and the order of claims |
| **AMM** `contracts/amm` | accounted reserves, LP shares, fee ledger, TWAP, pause, config | four swaps (two through the tokenizer), add/remove_liquidity, fee switch, sweep | custody covers accounts; LPs are not diluted and can leave; donations are inert; the average stays among the rates observed and says when it is young |
| **Governance surface** (the same code in tokenizer, wrapper and AMM) | admin, pending admin, guardian, pending upgrade, renounced | two-step hand-over, guardian, pause, timelocked upgrade, sweep, renounce | consent of the nominee; code changes only after the timelock and never after renouncing |
| **Indexer** `apps/indexer/src/{index,processor}.ts`, `prisma/schema.prisma` | in-memory cursor, polls in flight, SyncState and rows in Postgres | start, poll (getLatestLedger, getEvents, plan, flush transaction, advance) | no resume point past an event without a row; every event eventually has one; rows add up to balances |
| **Snapshotter** `apps/indexer/src/snapshotter.ts`, `api/protocol-history`, `utils/underlyingApy.ts` | rows of the protocol history, snapshots in flight | read, check, insert; serve a page; derive an APY | no jumps on record (violated); a real move is not refused for ever unless it is a jump; the APY spans enough time |
| **Price oracle** `services/priceOracleService.ts` | ticker in memory with its time, copy in localStorage, requests in flight | getTicker with retries and fallbacks | what is served from memory is fresh |
| **Trade flow** `hooks/useTrade.ts`, `components/trade/TradeInterface.tsx` | form, debounce timer, quote and market requests in flight, the running trade | quote, fetch market, trade in two transactions | the quote shown is the form's; a trade spends once, within its tolerance, and stops when a leg fails |
| **Mint dialog** `components/modals/MintModal.tsx` | step, amount, preview, handlers in flight | preview, review, deposit and split, close | deposits were previewed; it never hangs |
| **Wallet and portfolio feed** `services/walletService.ts`, `hooks/usePortfolio.ts` | account, network, balances, operations in flight; the shared portfolio | init, connect, disconnect, refresh; fetch on every change | connected means on the target network; the portfolio ends up that of the wallet |
| **Portfolio valuation** `services/portfolioService.ts` and the cards and tables over it | answers of one fetch | read, make rows, total, allocate | nothing is counted twice |
| **Notifications** `services/notificationService.ts` | one list in localStorage, a cache per tab, preferences | add, read, clear, daily yield notice | what a save loses it loses to a race of tabs alone |
| **Waitlist** `components/JoinIn.tsx`, `api/waitlist` | the form, the table | submit, POST | not modelled, section 7 |
| **Testnet verification** `scripts/verify-testnet.ts`, `scripts/verify_testnet` | accounts, reports, verdict | six scenarios of transactions, reads and checks | PASS means the transactions settled |
| **Other scripts**, **deploy scripts**, **bindings**, **trait definitions**, **display components** | none of their own, or outside the repository | | not modelled, section 7 |

Interactions:

* AMM and users call the tokenizer; the tokenizer calls PT, YT and the SY token
  (pull and push), and reads the SY `exchange_rate`.
* The YT token calls back: before it settles anybody it asks the tokenizer for
  the rate to use, which may *freeze* the maturity rate as a side effect, and the
  tokenizer settles and consumes through the YT token when it pays yield.
* The SY wrapper calls the Blend pool; its rate moves with the pool's `b_rate`
  and with nothing else.
* All of them emit events; the indexer polls for these; the web application
  reads contracts, history rows and the exchange, and sends transactions through the
  Freighter extension. The wallet service notifies the portfolio of every change.

Within one contract call everything is atomic (a trap rolls the whole
transaction back), so the interesting interleavings on chain are *sequences of
calls by different actors around rate moves, maturity, pausing and
governance*. Off chain, every `await` is a point where something else happens: polls,
snapshots, handlers and wallet operations really are concurrent, and the code cancels
none of them.

## 2. What is hard here

The full list with lines is in `PROJECT.json` under `hazards`. The clusters are:

* **The freeze** (tokenizer `effective_rate`). Whichever call comes first after
  maturity fixes the redemption rate for good.
* **Rate dips.** Blend can take losses. Checkpoints are held on a dip, the escrow
  may be short, claims and exits interleave with it.
* **Rounding** in seven places, each of which has a side that it must favour.
* **Reads of the SY rate while the pool misbehaves**: partial withdrawals,
  refusals, re-indexing, wind-down.
* **Accounts and custody of the AMM** drifting apart on flash routes and
  through donations.
* **Governance sequences**: propose, replace, renounce, execute.
* **Indexer**: overlapping polls, lost acknowledgements, crashes between
  commit and advance, full pages, batches that can never be flushed, events delivered
  again.
* **Two-transaction trades**: a leg that fails on chain, is declined or times out and
  lands later, while the pool moves between quote and ledger.
* **Handlers that nobody cancels**: quotes, previews, reconnections and fetches whose
  answers arrive for a form, dialog or account that has changed since.
* **Look, then write, without a lock**: snapshots that overlap, tabs that share a list.
* **Copies**: the ticker in memory, the list cached in each tab, a node that lags.

## 3. Modules and how they correspond to the code

`PROJECT.json` `map` gives every definition its lines. Definitions introduced by
"Variant:" in a comment are single-bug versions of a definition; no specification
uses them, they exist to show that each property can fail.

### Contracts

**FixedPoint.** `mul_div_floor`, `mul_div_ceil` as the contracts compute them. 256-bit
intermediates never overflow, so plain integers are exact. Where the code uses
128-bit multiplication (`owed_shares` in the YT token) the overflow *is* modelled
(`OwedFits`, `MaxI128`).

**Ledgers.** What the ledgers share: `Moved`, the debit and then the credit of `move_balance`
(the receiver is read after the sender is stored, so a move to oneself changes nothing), and
`SumOver` and `SumOfAll`, the totals a supply is compared with. The contracts never add
balances up; the decoder's rows and the portfolio's totals are sums of the same kind.

**PtToken, YtToken, Sep41.** `PtToken` and `YtToken` declare the balances and, as
operators without allowances, the internal operations (`PtMove` = `move_balance`,
`PtBurn` = `burn_balance`, `SettleAll` = `settle_into_ledger`, `YtSettleAndConsume` =
`settle` followed by `consume`). `Sep41` adds allowances with expiry and the
public entry points, and is a specification of its own; the tokenizer's model
uses the internal operations directly, since *who* authorised a movement does not
matter there. The YT token's allowance code is the same code.

**Tokenizer.** Composes PT, YT, the SY balances and the escrow. `RecordRate` is the side
effect of `effective_rate`: remember the observation before maturity, freeze afterwards.
`EffectiveRate` is the rate it returns. Each entry point is one action with the
whole cross-contract call inside; `PtTransfer`, `YtTransfer`, `PtBurnDirect` and
`YtBurnDirect` are the tokens' public entry points, of which those of YT commit
the rate. `RateMoves`, `Mature`, `SyTransfer` and `SyDonate` are the environment.

**SeniorVault.** What the tokenizer promises about principal: issue only against full
value, redeem for at most face and at most pro rata, let yield out only if principal
stays covered, seal one rate. The tokenizer implements it under the mapping
`escrow ↦ shares`, `ptSupply ↦ principal`, rate on record ↦ `rate`,
`maturityRate # NoRate ↦ sealed`.

**Governance.** Admin hand-over, guardian, pause, timelocked upgrade, sweep and renounce,
with the set of entry points gated by `require_not_renounced` as a constant
(`RenounceGated`), because the contracts differ there: the tokenizer and the AMM
gate `propose_upgrade`, the wrapper does not.

**SyWrapper.** Shares and principal over a position in a pool that credits rounded down,
burns rounded up, may release less than asked, may refuse, may re-index its reserve and
moves its rate either way. `Redeem` includes the three branches of `redeem` (full,
partial fill, wind-down as `RedeemWindDown`).

**Amm.** Reserves, custody, LP shares, the fee ledger. The curve is a black box: a trade
moves *any* amount that its guards and the bound "PT never prices above par" admit
(`CurvePays`, `CurveCharges`); what the solver would return is one of them, so
whatever holds here holds for the logarithmic curve. `PoolMoves` is the net effect
of the token transfers of a call, and fails as they do. The flash routes model the
split (`minted` may exceed the YT sold: dust) and the recombine (may return less
when the tokenizer's escrow is short). `MINIMUM_LIQUIDITY` belongs to nobody.

**ShareFund.** What the wrapper promises its holders, without pool or holders: shares issued
at most for what they bring in, exits that cost those who stay at most one unit of the
position and nothing after the fund closed, a backing that follows the price of its position
and ignores gifts until it closes, and one closing, after which nothing is issued. The wrapper
implements it under `totalShares ↦ supply`, `Assets ↦ backing`, `bRate ↦ price`,
`emergency ↦ closed`. Its actions are relations between two states, so the refinement says
something of any pool behaviour.

**Market.** The AMM with its price record. A call of the AMM is one step: `Trade` is any
`Swap` of `Amm`, then the rate it leaves (`Leaves`), then `sync_twap` (`SyncTwap`); `Open` is the
seeding branch of `add_liquidity`; `Otherwise` is every call that leaves the record alone;
`Tick` advances the ledger time and matures the market. The rate the curve implies is as
much a black box as what it pays, any member of `LnRates`. `observed`, `observedAt` and
`decided` are history: the rates left so far, when the last was, and when one observation
last made the average on its own.

### Services

**Indexer.** A poll is a record with a phase per `await`: `asked` (getLatestLedger),
`fetching` (getEvents), `flushing` (the transaction), `flushed` (committed, cursor
not yet advanced). Slots of `Polls` run concurrently because `setInterval` does not
wait for the previous callback. `PollFails` covers an RPC or database refusal at any
await *and* a commit whose acknowledgement is lost. `origin` and `missed` are history
variables: where the indexer's responsibility begins (a start without SyncState
begins ten ledgers before the head) and what a full page left out.

**EventDecoder.** What a page of events becomes: `planEvent` by topic (required fields,
users, rows), then the inserts of `flushBatch`, which skip what exists. A page is any
stretch of the emitted events, delivered any number of times; any event may be
malformed. `Movement` is what an event means for an account, `Credited` what its row says.

**Snapshotter.** A snapshot is a record with a phase per `await`: reading (each read may
fail on its own), checking against the last rated row, creating. `ServedPage` is the
query of the endpoint, `ApyObservations` the two rows the APY is annualised over. Several
snapshots may be in flight (`Takes`), since the interval does not wait.

**PriceOracle.** `GetTicker` reads the memory or begins a fetch that remembers when it was
asked for; `FetchWithRetry` and `FallsBack` are the failed attempts and what is served
after the last. `of` is, as history, when the server gave a ticker.

**Verification.** `StepsOf` lists what each scenario sends and reads. A transaction may fail
in a ledger without the script looking at its status; the node it reads may not have
caught up (`NodeCatchesUp`); checks are made of reads alone (`Found`).

**PortfolioValue.** A fetch is its sequence of reads, each answered with what the contract
says then, or failing into nothing; the rows, the totals, the allocation, the KPI cards
and the two tables are operators over the answers. `Independent` and `AppFormula` are the
reference the scripts keep (`expected.ts`).

**Notifications.** Each tab reads the whole list, changes it and writes it back. The code is
synchronous, so a tab does nothing else meanwhile (`Resting`); but tabs may be processes of their
own and `localStorage` has no lock between them, so every call of the storage is a step:
the read with the change made of it (`AddNotification`, `NotifyYield`, `MarkAllAsRead`), the write
(`SaveNotifications`), the read of the listeners (`ReadsBack`) and the stamp of a yield notice
(`StampsYield`). The preferences are read with the list. `CacheOfTab` (a variant) trusts a tab's cache.

### Web application

**Web** holds what the web modules share. **TradeQuotes** is the form: `Edit`, the debounce
timer, requests in slots that answer in any order with the form and the market they were
made with, the market fetch of every 15 seconds, the error line, the button.
**TradeExecution** is `executeTrade`, leg by leg: simulate and assemble, sign or decline,
send, and then confirmed, failed on chain, or timed out and possibly landing later
(`late`). A transaction consumes the account's sequence number, so only one prepared for
the next number can land. `floor` records, as history, the least the user agreed to.

**MintFlow** keeps the dialog's step, amount and preview, and handlers that go on after it
was closed. **Wallet** (over **PortfolioFeed**) has every operation of `walletService` as a
chain of answers of the extension, Horizon and the token contracts; each `setState` tells
the portfolio, whose fetch takes the address and the balances it began with and is run
once more however many changes came meanwhile.

### Compositions and proof modules

`MCTokenizer`, `MCGovernance`, `MCSyWrapper` and `MCTradeExecution`
give one module its model values and symmetry. `MCAmm` checks `Market` in two parts, its accounts around
maturity and its price record over time: every behaviour of either is one of `Market`. `MCWrapper`, `MCService`
and `MCWeb` check several specifications that share no state in one run: a variable `part`
chooses one of them at the start and the others rest, so that the reachable states are the
*sum* of those of the parts and not their product. Modules that do share state are
composed as such: tokenizer with both tokens, wallet with portfolio feed, AMM with its price record.

Eight modules hold the proofs, see section 5: `ArithmeticProofs` (rounding, sums, extremes of
finite sets; the others cite its lemmas), `TokenizerProofs` and over it `BackingProofs` (yield),
`SurfaceProofs` (SEP-41 ledgers and governance) and over it `WrapperProofs` (the wrapper's
shares, their refinement of `ShareFund`, and the composition `MCWrapper` of its surfaces),
`AmmProofs` (accounts, and over them the price record), `IndexerProofs` (indexer,
decoder, snapshotter) and `WebProofs` (trade, mint dialog, wallet, price oracle, notifications,
verification, portfolio valuation).

## 4. What each run checks

`cfg` files give constants values and replace nothing. Bounds are guards, named `Max…`
in the cfg. Holders are symmetric where nothing distinguishes them. Symmetry is not
used with liveness.

| Run | Question | Bounds and why they are enough |
|---|---|---|
| `tokenizer` | Types, the freeze is the last observation, its fallback harmless, coverage kept, exits fair, banked yield paid in full, frozen yield independent of order, refinement of `SeniorVault`; rates may fall | `WAD` = 2 and rates 2, 3, 4: every division rounds somewhere; a rise then a dip below the last observation then maturity is reachable; two holders can be on both sides of a transfer |
| `tokenizer_rising` | With rates that never fall: all yield owed is covered by the surplus; a YT transfer conserves the yield owed up to rounding (at most seven shares down, three up, the derived bound) | one amount (7) and four rates up to 7, so that a bug shows as more than rounding; supply up to 21 |
| `wrapper` | *shares*: principal follows shares; entry and exit cost those who stay at most one bToken; wind-down open to every holder and at no worse a rate when the pool pays in full; refinement of `ShareFund`. *governance*: code runs only a full timelock after the proposal of that very code, upgrades end with renouncing. *allowances*: supply = sum of balances, debits are authorised | partial fills and a failing pool on, bToken rates 2 and 3 over a scalar of 2, so one bToken is worth a fraction; three accounts, two codes, timelock 2 in time 0..4 so that replace-and-wait fits; two token accounts, each owner, spender and receiver, and two ledgers so that an allowance lives in one and is dead in the next |
| `governance_wrapper` | `UpgradesEnd` with the wrapper's gates: violated | same accounts and codes |
| `sy_wrapper_failing` | Wind-down keeps the rate also when the pool refuses: violated | full fills only |
| `amm` | *accounts*: custody covers reserves and accrued fees; LPs can leave under pause and maturity; donations inert; no dilution. *record*: the average stays among the observed rates; an average made by one trade is called warm only a window later | accounts: amounts 1..3, reserves to 5, share rates 1 and 1.5, the last ledger before maturity and maturity: flash dust, zero legs and fee cuts of a whole reserve are all reachable. Record: one LP, reserves to 3, no fee cut; `WAD` 6 and a window of 2, so that `Window * (Window + 1) <= WAD`, a blend weighs both rates and rounds; implied rates 9 and 20, above `Drift` = 6, so that the lower bound excludes something; times 0 to 5, so that a gap of a window, a snap, its warm-up and a blend after it fit |
| `market_late_deposit` | A warm average has seen a window: violated | one LP, one share rate, the same times and implied rates as `amm` |
| `indexer_swap` | Every decodable event is indexed: violated | one poll, no faults, no full page: the swap alone is enough |
| `snapshots_overlap` | Implausible jumps are rejected: violated | two snapshots in flight, no refusal, no crash: the overlap alone is enough |
| `service` | *indexer*: no resume point past an event without a row, and every decodable event is indexed unless the process stops, a page was full or a batch is wedged. *snapshotter*: the APY spans the minimum interval and as much of the page as it can, the history grows unless the rate jumped. *decoder*: rows add up to balances | two concurrent polls, one fault (failure or crash), page limit 1 so that two events overflow it, three kinds of event; rates 1, 2, 3 (1 and 3 are a jump apart, 2 is near both), three rows over three times, one refusal or crash, one snapshot at a time; three events of three topics in any overlapping pages |
| `web` | *quotes*: what stays on display is the quote of the form and the pool. *trade*: spent once, within the tolerance. *mint*: the dialog never hangs. *wallet*: the portfolio follows. *oracle*: memory is fresh. *verification*: PASS means settled. *portfolio*: counted once. *notifications*: lost to races only | two edits and two quote requests with a fetch of the market, one move of the pool, one failure; two clicks, two moves of the market, one transaction that goes wrong, three kinds of account; two handlers over two openings; two overlapping operations, two accounts and networks, one switch in the extension; two callers, two retries, a cache of two ticks within four; every step of a scenario failing or not, two tries; an account that moves once during a fetch, every subset of failing reads; two tabs, a list of two, three additions, two days |
| `trade_failed_leg` | A failed leg stops the trade: violated | one click, one failed transaction |

The contract models have deadlock checking on (the environment can always move); the
services and the web application really may come to rest within their bounds, so theirs is off.

**Fairness.** Contracts: none, nothing there is obliged to happen.
Indexer (`FairSpec`, repeated in `MCService` for behaviours of the indexer): `WF(CloseLedger)`, ledgers close; `WF(PollStep(p))`, `setInterval`
fires again whatever became of the last callback, and a call that never ends blocks
nobody in the code, which has no limit on polls in flight, so the bounded slots of the model
are each required to be free again in the end. Snapshotter (in `MCService`): the interval fires, its awaits
end, and a read of *everything* succeeds infinitely often if tried infinitely often
(`SF`). A restart is *not* assumed: nothing in the repository restarts the process, hence
`~up` and `~alive` among the outcomes. Web: timers fire, and every request, to the network
or to the extension, is answered *or refused*; the user is owed nothing and owes nothing.
A handler of the mint dialog may end in any of its outcomes.

### Properties worth a word

* `CoverageIsKept`, `ExitsAreFair`, `ImplementsVault`: seniority of PT, at the rate
  the operation used; the reservation rounds up, payouts round down and are capped
  pro rata.
* `FrozenYieldIsFixed`: after the freeze a holder's yield falls only by what it is
  paid, whatever order others act in.
* `YieldIsBacked`: the surplus over the reservation for principal covers everything the YT
  ledger owes all holders at once. Only while the rate does not fall; a dip is what the
  pro-rata exits and the coverage check on claims are for.
* `TransferConservesYield`: what all holders together are owed moves by at most seven shares
  down and three up, the sum of what the six divisions of the two settlements can lose or gain.
* `ShortedByOneBTokenOnly`: SY-03 at the precision of the rate, a deposit never lowers it;
  GOV-08 exactly, a wind-down exit takes nothing from who stays; SY-04 up to one bToken, because
  the pool rounds the bTokens it burns up and the wrapper does not pass this on to
  the one who leaves.
* `CustodyCoversReserves` is stronger than the code's `untracked_balance` view: it
  sets accrued fees aside as well.
* `ImplementsFund`: also that transfers to an open wrapper are stutters of the fund, since its own
  balance of the underlying backs the shares only in wind-down.
* `AverageOfObserved`: a blend rounds down twice, and a day of one-second blends rounds down 172,800
  times; the bound says that this does not add up. `TrustedAfterSnap` is about averages made by
  a trade after an idle gap; the same for the first deposit is violated (`market_late_deposit`).
* `NothingSkipped`: both resume points, the stored and the in-memory one.
* `NoJumps` is violated as soon as two snapshots are in flight, each of them checked
  against the same last row (`snapshots_overlap`).
* `LostToRacesOnly`: two tabs that both read before either writes lose a notification or bring
  back a cleared one, in the model as in the code. The property is that this is the only way:
  a save that finds the item as this tab read it, whatever happened to the item before, keeps all
  of it, so that the caches lose nothing.
* `SpentOnce`: per click. A user who was told of a failure may click again and spend again
  when the first transaction lands late.
* `SettlesWithinSlippage`: against the quote the code takes after the click, not the one
  on display.
* `PassMeansSettled` leaves out the redemption of scenario F, whose check (the supply fell)
  another user's redemption can satisfy.
* `CountedOnce` is about accounts that rest during the fetch; one that moves can be counted
  before and after (section 6).

## 5. What is proved

TLAPS checks these for every value of the constants that satisfies the named
assumption of the module. The assumptions are about domains: naturals, positive units, finitely
many holders (a total over them is otherwise not defined), `None` is not a treasury or an
amount. Two are values the contracts fix or enforce: `AmmAssumption` has
`FeeBps < BPS_DENOMINATOR`, which `initialize` checks, and `MINIMUM_LIQUIDITY > 0`, a constant of
the code. TLC evaluates each of them.

Every safety property of a passing run, invariant or action property, is stated by a theorem; the
exceptions are at the end of this section. Five more are left to the proofs, being consequences of a
refinement or of one action each: `WindDownNeverFalls`, `OneRatePerLedger`, `AdminConsents`,
`DepositsWerePreviewed` and `ConnectedOnTarget`.

**Arithmetic.** `FloorBound`, `CeilBound`: each rounding is a natural number on the
right side of the quotient, `FloorTight` and `CeilTight` within less than a unit of it;
`TimesMonotone` and `TimesCancels` for products of inequalities. Sums: adding up a finite set in
any order gives one result (`AddsUnique`), so that a sum splits off an element (`SumAt`),
splits by parts (`SumByParts`) and bounds its terms (`SumBound`). All of these are instances of
`SetInduction`, well-founded induction on the finite subsets ordered by inclusion, with the
statement given as the set of subsets it holds of. `EndsExist`: a finite nonempty set of
naturals has a least and a greatest element.

**Tokenizer.** `TypeCorrect` is inductive as it stands, and includes that PT and YT supply are the
sums of their balances. `FreezeCorrect` (the frozen rate
is the last observation) and `FreezeFinality` (once frozen it never changes) follow from it
and from the one action that writes the rates. `TokenizerIsSeniorVault` is the refinement:
every action is shown to be an `Issue`, a `Redeem`, a `PayYield`, a `Forfeit`, an
`Observe` or a stutter of the vault (`SplitIsIssue`, `ExitIsRedeem`,
`ClaimIsPayYield`). `FairExits` and `CoverageKept` are then consequences of the *abstract*
step: that no vault step can break them needs no detail of the tokenizer
(`VaultKeepsCoverage`). `UnusedFallback` needs a strengthening: as long as no rate was
observed all ledgers are empty. `BankedYield` and `FrozenYield` rest on one lemma
(`StepOfYield`): a step keeps what a holder is owed at the rate it is priced at, or pays part of it
and leaves the rest banked. Both are about *all* the holder is owed: a claim pays banked yield
together with what was still pending, so the payment is compared with the sum of the two.

**Yield** (`BackingProofs`). `YieldBacked` assumes `RatesMayFall = FALSE`. `YieldIsBacked` is not
inductive: that the surplus covers the yield at the present rate does not say that it covers
the yield of the next one, after some holders were settled and others were not. The invariant
`Solvent` (types, the freeze, rates that rise, `Backed`) gives every holder a *claim* on the
escrow: the yield it has banked, and for its YT the shares that were worth them at the holder's own
checkpoint; principal without a YT beside it is reserved for at the rate on record. Claims
and reservations together fit in the escrow. When the rate rises a claim turns, share for
share, from what is reserved for principal into yield, and its total need not change; this is what
makes the invariant hold at every rate to come. It is stated without rounding, in a unit fine
enough for the divisions by the rate on record to be exact, so every action may choose a finer
one (`CoversFiner`); the existence of the unit and of the claims is quantified over the
naturals, so TLC checks only its consequence, `YieldIsBacked`. That rates never fall is a hypothesis about
the share: the wrapper's own rate can fall with a loss of the pool, and by up to one bToken with a redemption
(`ShortedByOneBTokenOnly`), after which only the theorems without that hypothesis speak.
`YieldConserved` assumes further that no rate is below par (every rate is at least `WAD`, where
the wrapper starts): the lemma `OwedWithin` bounds what rounding can leave out of one
settlement, `HandoverConserves` adds up the settlements of sender and receiver and what both are
owed afterwards, and every other action is excluded by what it changes.

**Surface** (`SurfaceProofs`). `SupplyIsTheSum` and `Authorised` for any accounts, amounts and
ledgers. One lemma per ledger operation says
whom it debits and by how much, one (`SpendFacts`) that a positive amount is only spent from an
allowance that has not expired; each entry point combines two of them.
`RenouncedCodeIsFinal` needs "renounced ⇒ nothing pending", since
`execute_upgrade` itself does not check the renouncement; it assumes that
`propose_upgrade` is gated, the assumption the wrapper does not satisfy.
`AdvertisedUpgrades` is an action property of the timelock; `HandoverIsConsented` follows from each
action alone.

**Wrapper** (`WrapperProofs`). For any holders, deposits, cap, scale of bTokens and moves of the
pool. The invariant `Kept` is the types, with supply = sum of shares since every rate divides by
it, and `PrincipalFollowsShares` (`SyInvariance`, `NoStalePrincipal`): redemptions and transfers
take principal in proportion, so that the last share takes the last of it. `StayersAreKept`
follows action by action: a full redemption pays less than the pool takes by at most one bToken, a
partial one burns shares for what the pool released, in wind-down the payment is rounded down over
what the wrapper holds. `WrapperIsShareFund` is the refinement: a deposit is an `Issue`, a redemption in each of its branches
a `Leave`, a move of the pool's rate a `Revalue`, a donation a `Gift` in wind-down and a stutter
before, everything else a stutter. `WindDownIsFinal` then follows from the steps of the abstract fund alone,
with the types: a closed fund has no dust, so `Leave` keeps the rate and `Gift` raises it. `SolventWindDown`: recovering everything leaves at least the rate of the
position. `FundedExits` is what `WindDownExitsOpen` comes to without `ENABLED`: for all of
anybody's shares the payment is at most what the wrapper holds. `SurfacesCompose` shows that every
behaviour of `MCWrapper` is one of each of its parts, so that the theorems about shares,
governance and allowances hold there, and `CompositionTypes` states `TypesHold`.

**Indexer.** `ResumePointsAreSafe` for any number of concurrent polls, failures and
crashes. `NothingSkipped` is not inductive. The invariant adds, for every poll in
flight (`PollSound`), that everything due below its start has a row, that a fetched
batch holds all that is due up to its head (or it is in `missed`), and that a
committed poll has persisted everything up to the head it read; and (`Shape`) that
starts and heads never exceed the latest ledger and that events are only added above
it. A late commit then moves the resume point back, never past anything.

**Decoder** (in `IndexerProofs`). `RowsAreTheBalances` for any pages in any order, overlapping and
repeated. The invariant `Booked` says that the table holds exactly the rows of the events
delivered so far; that the insert which skips existing keys skips nothing else is the lemma
`KeyTells`: a key names its event and its leg, and with them all of the row. The credits of an
account are then added up event by event (`SumByParts`), and each event credits what it moves.

**Snapshotter** (in `IndexerProofs`). `ApySpans`: rows are stamped in order and never ahead of
the clock (`StampInv`), so the oldest and the newest of a page exist and the pair the
APY takes is as far apart as it must be, however many snapshots overlap.

**Amm.** `TypeCorrect`, `CustodyCovers`, `NeverUnseeded`, `DonationsAreInert`,
`NoDilution`, for any curve. The inductive invariant is types ∧ custody ∧ "seeded
reserves are positive" ∧ "unseeded reserves are zero". The core is one lemma
(`Together`): a call whose transfers match its accounts, with a fee cut moved from
reserve to ledger, leaves the untracked balances as they were. Every swap and every
change of liquidity is shown to be such a call; only `Donate` moves the untracked
balance. `NeverUnseeded` rests on `AccrueFacts` (a cut that would take everything is
not taken) and `SliceBelow` (fewer than all shares never take all of a reserve);
`NoDilution` on the direction of rounding in `Join` and `RemoveLiquidity`.
`CoveredExits` is what `ExitsOpen` comes to without `ENABLED`: whatever part of a position an LP takes
out, shares and both reserves remain and custody covers the payment. It adds to the
invariant that the shares of a seeded market are those of its LPs and the minimum that is
nobody's (`LpAddsUp`), which is why even the last LP cannot take all of them.

**Price record** (in `AmmProofs`). `RecordIsInert`: every step of `Market` is a step or a stutter of
`Amm`, so that all of the theorems about accounts hold of the market with its record. The
invariant `RecordInv` is the types, `Stamped` (nothing is observed before the first deposit or ahead of
the clock, and what was observed in the present ledger has stamped the record) and `WarmsFromSnap` (while a snap is what decided the
average, the warm-up ends a window after it). `WarmAfterSnap` and `OneObservationPerLedger` follow from it.
`AverageIsBounded` needs that the lower bound survives a blend. A blend of two rates
rounds down by less than two, and takes the average towards the new rate by the weight of the time
passed, at least that of one second; an average that is `Drift = 2 * (Window + 1)` too low is therefore
raised by no less than it is rounded (`DriftPays`). This uses `Window * (Window + 1) <= WAD`, the hypothesis of the theorem: the weight of
one second is itself rounded, to a multiple of `1/WAD`. With `WAD` = 10^18 it admits
every window up to thirty years.

**Trade** (in `WebProofs`). `SpendsOnce` and `WithinSlippage` for any amounts, prices and number of
trades, failures and late transactions. The invariant partitions the transactions of a click
into settled, awaited in vain (`late`) and still to be sent by the running trade
(`Pending`), and says that no leg of a click is in two of them: a timeout moves the leg to
`late` and ends the trade in the same step. Each also carries a minimum equal to its floor.

**Web.** `PreviewedFirst`: the preview on display and the amount of every handler that deposits
were previewed, however many handlers outlive their dialog. `OnTarget`: an operation sets the
account, the network and the flag together or keeps all three. `FreshMemory`: every request knows a
time at which it was asked that is not after the time the server answered (`FetchSound`), and the
stamp of the memory is that time (`MemorySound`). `RacesAlone`: for any number of tabs, each cache
holds the list of the item its tab read last, and what a tab is about to save is that list with its
own change (`NotesInv`); so a save that finds this item again keeps all of it.

**Verification** (in `WebProofs`). `PassIsEarned`: the invariant `VerifyInv` follows the script
through its scenarios. The node tells nothing that did not settle; a step that reads on demand of an
earlier transaction was only passed with it (`Witnessed`); each scenario behind the
present one that reports a pass had its transactions settled (`Earned`); and PASS is only
given after the last.

**Portfolio** (in `WebProofs`). `Counted`, for any position, market and failing reads. The rows a
fetch can make are four (PT, YT, the SY shares, and the rollup of PT and YT), each present or not;
total, allocation and tables are sums over them, computed for each case from the reads and the
answers. The invariant (`Assessed`) is about the fetch in flight: unless the account moved, each
answer so far is the right figure or counts for nothing, and is right if every read was answered.
A read that failed can then only lower the total, by as much in the allocation and the tables, and
a fetch in which none failed gives the independent valuation. `None` must not be a number, as in
the code, where it is `null`.

**Only model-checked.** Liveness under fairness (`IndexedUnlessWedged`, `GrowsUnlessJumped`,
`Settles`, `MintNeverHangs`, `PortfolioFollowsWallet`) and `ENABLED` (`ExitsOpen`,
`WindDownExitsOpen`) are out of the prover's reach. Of the two about exits, `CoveredExits` and
`FundedExits` prove the arithmetic on which the guards of the exit depend; that the action is
enabled when it holds is TLC's part.

## 6. Where code and documentation disagree

Demonstrated by a run (`PROJECT.json` `findings`): `governance_wrapper`,
`sy_wrapper_failing`, `market_late_deposit`, `indexer_swap`, `snapshots_overlap`,
`trade_failed_leg`.

Noticed while reading and modelled as the code has it, without a run of their own.

Contracts:

* "Yield is conserved across transfers and claims" (`docs/PROTOCOL_INVARIANTS.md:86`) does not
  hold during a dip: units sent then accrue from the receiver's checkpoint
  (`yt-token/src/lib.rs:475`).
* "a compromised admin cannot redirect an already-accrued balance" (`amm/src/lib.rs:534`):
  `set_protocol_fee` replaces the treasury, which then withdraws what was accrued.
* `pause` and `unpause` work after `renounce_admin`, contrary to GOV-05
  (`docs/PROTOCOL_INVARIANTS.md:171`).
* Once a guardian is set the admin can no longer pause (`tokenizer/src/lib.rs:268`),
  contrary to "guardian OR the admin".
* "The frozen rate is at most the true maturity rate, which favors PT"
  (`tokenizer/src/lib.rs:873`) holds only while the rate does not fall after the last
  observation.
* `preview_rate` between maturity and the freeze shows the live rate, which is not the one that
  will be frozen (`yt-token/src/lib.rs:422`).
* SY-04 "redemption never shorts remaining holders" holds up to one bToken.
* `emergency_withdraw_all` first values the position, so it is closed in the very
  case (unreadable position) its comment names, until `migrate_reserve_index` succeeds.
* `remove_liquidity` guards against *both* legs being zero, but the tokens refuse a
  transfer of zero, so an exit with one zero leg traps; "an LP must always be able to
  withdraw" then needs a larger position.
* The first `add_liquidity` computes the initial implied rate from SY *shares*, where
  every later computation uses their asset value.
* The warm-up of the average is started by a trade after an idle gap, not by the gap (`amm/src/lib.rs:717`,
  `:1911`): a market nobody trades in stays "warm" on an average of any age.

Services:

* `getEvents` is asked for one page of 1000 events; what does not fit is lost
  (`missed` in the model).
* Only the price and the APY read are guarded ("write nothing rather than let a transient outage
  silently corrupt history", `snapshotter.ts:167`): when the supply or a quote fails alone, a row
  with TVL 0 or price 1 is written.
* `api/protocol-history/route.ts:25` orders ascending and takes 5000 rows: after 5000 minutes no
  new snapshot is served.
* `/api/prices` revalidates every 10 seconds by serving the stale copy first, so prices "from the
  exchange" can be older than the oracle's own cache allows.
* `verify-testnet.ts` leaves the checks of skipped scenarios out of the verdict, although
  `chain.ts:141-142` says the safe-math path is verified unconditionally. `waitForTransaction`
  accepts a failed transaction, so the traction script counts it as done.
* The waitlist is "simulated" and the indexer a stub according to `README.md`; neither is.
* "A visitor who is told they are on the list must actually be on the list"
  (`api/waitlist/route.ts:29`): the form says "Sent" without calling that route (`JoinIn.tsx:28`).

Web application:

* `TradeInterface.tsx:369` compares the TWAP *APY in percent* with the price 1.0 and calls YT
  worthless whenever the fixed yield is one percent or more; the row labelled "XLM" (`:438`) shows
  SY without the exchange rate.
* "The frontend refuses to compute financial numbers from a not-yet-warm TWAP"
  (`docs/protocol/CONTRACTS.md:97`, and `amm/src/lib.rs:1912`): `useTrade.ts:165` takes up the average
  whenever the read succeeds; nothing in the application or the indexer asks `twap_warming_up`.
* The mint dialog's review estimates from the form's amount, its deposit takes the amount
  previewed; after a late preview of an earlier opening the two differ.
* A refresh that answers after a disconnect, or for an earlier account, still sets its balances;
  an init in flight can reconnect after a disconnect. When the PT or YT read fails the balances
  are dropped, against "DO NOT clear balances" (`walletService.ts:332`, `:340`).
* A portfolio is read contract by contract, at different ledgers; a failed read counts as zero
  silently; claimable yield is dropped when the holder has neither PT nor YT.
  `expected.ts:6-7` calls `computeAppFormula` the exact arithmetic of the service, whose
  `totalInvested` (`portfolioService.ts:389`) is computed differently.
* `protocolService.ts:161-162` adds the pool's reserves to an SY supply that contains them.
* `RecentActivity` shows the answer for the previous account when it comes after the next one's.
* Two tabs that change the list of notifications at once overwrite one another: a notification is
  lost, or one that was cleared comes back; and both may give the notice of yield that is said to come
  "once every 24 hours" (`usePortfolio.ts:56`).
* The yield notice is stamped as given even when its category is disabled; the update event of the
  list reaches only the window that changed it.

## 7. What is not modelled, and why

* **Logarithmic curve** of the AMM: a black box (real exponentials are out of TLC's reach), in
  what it pays (`Amm`) and in the rate it implies (`Market`).
* **Slippage arguments** (`min_out`) of the AMM: they only restrict a trade, so leaving them
  out of `Amm` admits more behaviours, not fewer. `TradeExecution` has them.
* **TTL / archival** of storage entries: anybody can extend or restore them.
* **Deploy scripts**: each step is a command of the Stellar CLI whose effect on the network is not
  in the repository. A crash after a contract was initialised and before its marker was saved makes
  the rerun fail with `AlreadyInitialized` (`deploy-testnet-resilient.sh:136`).
* **Display**: charts, tables without state, documentation pages, search, and services that map one
  answer to another shape.
* **Waitlist**: one form and one route with a single upsert.
* **Other operational scripts**: straight-line calls of the contracts; the races of
  `generate_traction.ts` are those of `Verification`.
* **Bindings** are generated; **trait definitions** hold no code.

## 8. Plan

What is left, in order of importance:

1. Composition of wrapper and tokenizer: a rate that can really reach zero in wind-down
   and the zero checkpoint it leaves in the YT ledger (`owed_shares` divides by it).
2. Composition of mint dialog, trade flow and wallet: an account that changes while a handler runs.
