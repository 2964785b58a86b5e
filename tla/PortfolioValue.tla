---------------------------- MODULE PortfolioValue ----------------------------
(***************************************************************************)
(* getPortfolio: what an account holds is read from the contracts one read at  *)
(* a time, each of which may fail and then counts for nothing, while the        *)
(* account may go on splitting and claiming. The answers are made into rows,    *)
(* and the rows into the totals and the tables of the portfolio pages. The      *)
(* reference is the independent valuation the verification scripts keep.      *)
(* Prices are in tenths of the underlying, values in tenths of a dollar.     *)
(***************************************************************************)
EXTENDS Web, Ledgers

CONSTANTS
  Shares,          \* external: SY an account may hold at first
  Tokens,          \* external: PT, and YT, it may hold at first
  Owed,            \* external: yield it may be owed
  SpotPrices,      \* external: dollars for one unit of the underlying
  QuotesOfPt,      \* external: SY the pool gives for a PT, in tenths
  ShareRates,      \* external: underlying for one SY
  MaxPositionMoves \* bound on what the account does during a fetch

ASSUME PortfolioValueAssumption ==
  /\ Shares \subseteq Nat /\ Tokens \subseteq Nat /\ Owed \subseteq Nat
  /\ SpotPrices \subseteq Nat /\ QuotesOfPt \subseteq Nat /\ ShareRates \subseteq Nat \ {0}

VARIABLES
  position,     \* external: sy, pt, yt, owed
  market,       \* external: spot, quote, rate
  assessment,   \* the fetch under way: what the reads said so far
  summary,      \* the portfolio of the last fetch
  positionMoves

valueVars == <<position, market, assessment, summary, positionMoves>>

One == 10       \* the price 1.0

PtPrice(m) == m.quote * m.rate
YtPriceOf(pt) == IF pt >= One THEN 0 ELSE One - pt

-----------------------------------------------------------------------------
(***************************************************************************)
(* The two valuations of the verification scripts, over one state of the      *)
(* chain; their vaultLp is the account's SY in units of the underlying. The     *)
(* second transcribes the application: the claimable yield rides on the        *)
(* rollup of PT and YT, and is dropped without them.                          *)
(***************************************************************************)

HasTokenized(p) == p.pt > 0 \/ p.yt > 0
HasRawLp(p)     == p.sy > 0

Positions(p) == (IF HasTokenized(p) THEN 1 ELSE 0) + (IF HasRawLp(p) THEN 1 ELSE 0)

ValueOfHoldings(p, m) ==
  (p.pt * PtPrice(m) + p.yt * YtPriceOf(PtPrice(m)) + p.sy * m.rate * One) * m.spot

Independent(p, m) ==
  [total |-> ValueOfHoldings(p, m) + p.owed * One * m.spot, active |-> Positions(p)]

AppFormula(p, m) ==
  [total  |-> ValueOfHoldings(p, m) + (IF HasTokenized(p) THEN p.owed * One * m.spot ELSE 0),
   active |-> Positions(p),
   shared |-> ValueOfHoldings(p, m)]    \* what the allocation is of

-----------------------------------------------------------------------------
(***************************************************************************)
(* The reads, in their order. The rate is read with the quote and again with    *)
(* the shares.                                                              *)
(***************************************************************************)

ReadOrder == <<"spot", "quote", "sy", "pt", "yt", "owed">>

\* What a read adds to the assessment a when it answers.
Answer(a, read) ==
  CASE read = "spot"  -> [a EXCEPT !.spot = market.spot]
    [] read = "quote" -> [a EXCEPT !.ptPrice = PtPrice(market),
                                   !.ytPrice = YtPriceOf(PtPrice(market))]
    [] read = "sy"    -> [a EXCEPT !.sy = position.sy * market.rate]
    [] read = "pt"    -> [a EXCEPT !.pt = position.pt]
    [] read = "yt"    -> [a EXCEPT !.yt = position.yt]
    [] read = "owed"  -> [a EXCEPT !.owed = position.owed]

StartFetch ==
  /\ assessment = None
  /\ assessment' = [next |-> 1, spot |-> 0, ptPrice |-> 0, ytPrice |-> 0, sy |-> 0, pt |-> 0,
                    yt |-> 0, owed |-> 0, complete |-> TRUE, moved |-> FALSE]
  /\ UNCHANGED <<position, market, summary, positionMoves>>

ReadAnswers ==
  /\ assessment # None /\ assessment.next <= Len(ReadOrder)
  /\ \/ assessment' = [Answer(assessment, ReadOrder[assessment.next]) EXCEPT !.next = @ + 1]
     \/ assessment' = [assessment EXCEPT !.next = @ + 1, !.complete = FALSE]
  /\ UNCHANGED <<position, market, summary, positionMoves>>

-----------------------------------------------------------------------------
(***************************************************************************)
(* The rows: PT, YT, a rollup of the two that carries the claimable yield, and *)
(* the shares that were not split.                                          *)
(***************************************************************************)

Row(type, balance, price, value, claimable) ==
  [type |-> type, balance |-> balance, price |-> price, value |-> value, claimable |-> claimable]

Rows(a) ==
  LET pt == a.pt * a.ptPrice * a.spot
      yt == a.yt * a.ytPrice * a.spot
  IN  {r \in {Row("pt", a.pt, a.ptPrice * a.spot, pt, None),
              Row("yt", a.yt, a.ytPrice * a.spot, yt, None),
              Row("vault", a.sy, a.spot * One, a.sy * a.spot * One, None)} : r.balance > 0}
      \cup (IF a.pt > 0 \/ a.yt > 0
            THEN {Row("vault", a.pt, a.spot * One, pt + yt, a.owed * a.spot * One)} ELSE {})

IsRollup(r)    == r.claimable # None
Values(rows)   == SumOfAll([r \in rows |-> r.value])

\* Variant: the rollup is counted on top of the PT and YT it sums up.
ValueOfAll(rows) == Values(rows)

ValueOfParts(rows) == Values({r \in rows : ~IsRollup(r)})

ClaimableOf(rows) == SumOfAll([r \in {r \in rows : IsRollup(r)} |-> r.claimable])

\* Shares of the total before the claimable yield is added, in percent.
Allocation(rows) ==
  {[row |-> r, percent |-> IF ValueOfParts(rows) > 0 THEN (r.value * 100) \div ValueOfParts(rows) ELSE 0]
     : r \in {r \in rows : ~IsRollup(r)}}

LargestOf(rows) ==
  LET parts == {r \in rows : ~IsRollup(r) /\ r.value > 0}
  IN  IF parts = {} THEN None ELSE CHOOSE r \in parts : \A s \in parts : s.value <= r.value

VaultRows(rows) == {r \in rows : r.type = "vault"}

SummaryOf(a) ==
  LET rows == Rows(a)
  IN [rows          |-> rows,
      total         |-> ValueOfParts(rows) + ClaimableOf(rows),
      allocation    |-> Allocation(rows),
      largest       |-> LargestOf(rows),
      claimable     |-> ClaimableOf(rows),
      invested      |-> SumOfAll([r \in VaultRows(rows) |-> r.balance * r.price]),
      vaultLp       |-> Values({r \in VaultRows(rows) : ~IsRollup(r)}),
      active        |-> Cardinality(VaultRows(rows)),
      complete      |-> a.complete,
      moved         |-> a.moved,
      worth         |-> Independent(position, market),    \* history: what the scripts make
      transcribed   |-> AppFormula(position, market)]     \* of the account by then

FetchDone ==
  /\ assessment # None /\ assessment.next > Len(ReadOrder)
  /\ summary' = SummaryOf(assessment)
  /\ assessment' = None
  /\ UNCHANGED <<position, market, positionMoves>>

-----------------------------------------------------------------------------
(***************************************************************************)
(* What the pages make of a summary.                                        *)
(***************************************************************************)

\* One row of Yield Positions for the epoch: the PT and YT rows together.
YieldPositions(s) ==
  LET mine == {r \in s.rows : r.type \in {"pt", "yt"}}
  IN  IF mine = {} THEN {} ELSE {[value |-> Values(mine),
        pt |-> SumOfAll([r \in {r \in mine : r.type = "pt"} |-> r.balance]),
        yt |-> SumOfAll([r \in {r \in mine : r.type = "yt"} |-> r.balance])]}

\* A row of Vault Positions for the rollup and one for the shares.
VaultPositions(s) ==
  {[deposit |-> r.balance, claimable |-> IF IsRollup(r) THEN r.claimable ELSE 0]
     : r \in VaultRows(s.rows)}

\* The cards above them: value, number of PT and YT rows, claimable yield, vaults.
KpiCards(s) ==
  LET mine == {r \in s.rows : r.type \in {"pt", "yt"}}
  IN [value |-> s.total, positions |-> Cardinality(mine), claimable |-> s.claimable,
      vaults |-> IF mine = {} THEN 0 ELSE 1]

-----------------------------------------------------------------------------
(***************************************************************************)
(* External: the account splits a share, or claims.                           *)
(***************************************************************************)

PositionMoves ==
  /\ positionMoves < MaxPositionMoves /\ positionMoves' = positionMoves + 1
  /\ \/ /\ position.sy > 0
        /\ position' = [position EXCEPT !.sy = @ - 1, !.pt = @ + market.rate, !.yt = @ + market.rate]
     \/ /\ position.owed > 0
        /\ position' = [position EXCEPT !.owed = 0]
  /\ assessment' = IF assessment = None THEN None ELSE [assessment EXCEPT !.moved = TRUE]
  /\ UNCHANGED <<market, summary>>

ValueInit ==
  /\ position \in [sy : Shares, pt : Tokens, yt : Tokens, owed : Owed]
  /\ market \in [spot : SpotPrices, quote : QuotesOfPt, rate : ShareRates]
  /\ assessment = None /\ summary = None /\ positionMoves = 0

ValueNext == StartFetch \/ ReadAnswers \/ FetchDone \/ PositionMoves

ValueSpec == ValueInit /\ [][ValueNext]_valueVars

-----------------------------------------------------------------------------
(***************************************************************************)
(* Properties.                                                             *)
(***************************************************************************)

\* The total of a summary is at most what the account is worth, and exactly that when every
\* read answered, but for the claimable yield of an account that holds neither PT nor YT; it
\* is then also what the transcription in the scripts says it is; and the allocation and the
\* tables add up to that same total.
AddsUp(s) ==
  /\ s.total <= s.worth.total
  /\ (s.complete /\ YieldPositions(s) # {}) => s.total = s.worth.total
  /\ s.complete =>
       /\ s.total = s.transcribed.total
       /\ s.active = s.transcribed.active
       /\ s.total - s.claimable = s.transcribed.shared
  /\ SumOfAll([p \in YieldPositions(s) |-> p.value]) + s.vaultLp
       + SumOfAll([v \in VaultPositions(s) |-> v.claimable]) = KpiCards(s).value
  /\ SumOfAll([x \in s.allocation |-> x.row.value]) = s.total - s.claimable
  /\ SumOfAll([x \in s.allocation |-> x.percent]) <= 100

\* "Adding it again previously double-counted every intent-flow position": as long as the
\* account rests during the fetch, whatever reads fail, nothing is counted twice.
CountedOnce == (summary # None /\ ~summary.moved) => AddsUp(summary)
=============================================================================
