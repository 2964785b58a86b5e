----------------------------- MODULE Snapshotter -----------------------------
(***************************************************************************)
(* The protocol history: the indexer process takes a snapshot of the        *)
(* protocol every minute and keeps it in Postgres, an API route serves the   *)
(* rows, and the web client derives the APY of the underlying from them.     *)
(*                                                                         *)
(* Taking a snapshot is seven reads of contracts and of a price feed, each   *)
(* of which may fail on its own, a look at the last row and an insert.  The  *)
(* interval does not wait for the previous snapshot, so they can overlap.    *)
(***************************************************************************)
EXTENDS Integers, Sequences

CONSTANTS
  Takes,      \* slots for snapshots in flight
  Rates,      \* the exchange rates SY can really have
  PageRows,   \* `take` of the history query
  MinGap,     \* MIN_OBSERVATION_INTERVAL_MS
  MaxRows,    \* bound on the rows written
  MaxTime,    \* bound on the clock
  MaxRefusals   \* bound on refusals of the database and crashes together

ASSUME SnapshotterAssumption ==
  /\ Rates \subseteq Nat \ {0}
  /\ PageRows \in Nat \ {0}
  /\ MinGap \in Nat \ {0}
  /\ MaxRows \in Nat
  /\ MaxTime \in Nat
  /\ MaxRefusals \in Nat

VARIABLES
  rate,     \* external: the SY exchange rate
  time,     \* external: the clock
  history,  \* the ProtocolHistory rows of this network and wrapper, oldest first
  take,     \* [Takes -> the snapshot being taken in that slot]
  alive,    \* whether the process runs
  refusals

snapWorld == <<rate, time>>
snapVars  == <<snapWorld, history, take, alive, refusals>>

\* syExchangeRate null; the route shows it as 0.
NoRate == 0

\* The reads whose failure the snapshot tells apart: the TWAP APY, the exchange rate and
\* the XLM price. The others, of supplies and quotes, get a default when they fail.
Reads == {"apy", "rate", "price"}

\* getProtocolState, with the reads in `ok` fulfilled; a rate of zero is kept as null.
ProtocolState(ok) ==
  [rate |-> IF "rate" \in ok THEN rate ELSE NoRate, available |-> {"price", "apy"} \subseteq ok]

NoTake == [phase |-> "idle", rate |-> NoRate]

SnapInit ==
  /\ rate \in Rates
  /\ time = 0
  /\ history = <<>>
  /\ take = [t \in Takes |-> NoTake]
  /\ alive = FALSE
  /\ refusals = 0

Tick ==
  /\ time < MaxTime
  /\ time' = time + 1
  /\ UNCHANGED <<rate, history, take, alive, refusals>>

RateMoves ==
  /\ rate' \in Rates \ {rate}
  /\ UNCHANGED <<time, history, take, alive, refusals>>

-----------------------------------------------------------------------------
(***************************************************************************)
(* takeSnapshot.                                                           *)
(***************************************************************************)

\* The process starts, with a snapshot at once.
StartSnapshotter(t) ==
  /\ ~alive
  /\ alive' = TRUE
  /\ take' = [take EXCEPT ![t].phase = "reading"]
  /\ UNCHANGED <<snapWorld, history, refusals>>

\* The process dies, and what it was doing with it.
CrashSnapshotter ==
  /\ alive /\ refusals < MaxRefusals
  /\ alive' = FALSE
  /\ take' = [t \in Takes |-> NoTake]
  /\ refusals' = refusals + 1
  /\ UNCHANGED <<snapWorld, history>>

\* The interval fires.
BeginSnapshot(t) ==
  /\ alive
  /\ take[t].phase = "idle"
  /\ Len(history) < MaxRows
  /\ take' = [take EXCEPT ![t].phase = "reading"]
  /\ UNCHANGED <<snapWorld, history, alive, refusals>>

\* All reads are issued together; without price or without APY nothing is written.
ReadAll(t, ok) ==
  /\ take[t].phase = "reading"
  /\ LET s == ProtocolState(ok) IN
       take' = [take EXCEPT ![t] =
         IF ~s.available THEN NoTake
         ELSE [phase |-> IF s.rate = NoRate THEN "creating" ELSE "checking", rate |-> s.rate]]
  /\ UNCHANGED <<snapWorld, history, alive, refusals>>

Rated == {i \in DOMAIN history : history[i].rate # NoRate}

\* Variant: the oldest row with a rate.
FirstRate ==
  IF Rated = {} THEN NoRate
  ELSE history[CHOOSE i \in Rated : \A j \in Rated : i <= j].rate

\* findFirst by descending timestamp, of the rows that have a rate.
LastRate ==
  IF Rated = {} THEN NoRate
  ELSE history[CHOOSE i \in Rated : \A j \in Rated : j <= i].rate

\* Neither more than twice nor less than half.
Plausible(old, new) == new <= 2 * old /\ old <= 2 * new

\* The last rate on record is compared with the one read; a jump is refused.
CheckRate(t) ==
  /\ take[t].phase = "checking"
  /\ take' = [take EXCEPT ![t] =
       IF LastRate = NoRate \/ Plausible(LastRate, @.rate)
       THEN [@ EXCEPT !.phase = "creating"] ELSE NoTake]
  /\ UNCHANGED <<snapWorld, history, alive, refusals>>

\* The insert; the database stamps the row.
CreateRow(t) ==
  /\ take[t].phase = "creating"
  /\ history' = Append(history, [at |-> time, rate |-> take[t].rate])
  /\ take' = [take EXCEPT ![t] = NoTake]
  /\ UNCHANGED <<snapWorld, alive, refusals>>

\* The database refuses the query or the insert; the error is logged.
TakeFails(t) ==
  /\ take[t].phase \in {"checking", "creating"}
  /\ refusals < MaxRefusals
  /\ take' = [take EXCEPT ![t] = NoTake]
  /\ refusals' = refusals + 1
  /\ UNCHANGED <<snapWorld, history, alive>>

SnapNext ==
  \/ Tick \/ RateMoves \/ CrashSnapshotter
  \/ \E t \in Takes :
       \/ StartSnapshotter(t) \/ BeginSnapshot(t) \/ CheckRate(t) \/ CreateRow(t) \/ TakeFails(t)
       \/ \E ok \in SUBSET Reads : ReadAll(t, ok)

SnapSpec == SnapInit /\ [][SnapNext]_snapVars

-----------------------------------------------------------------------------
(***************************************************************************)
(* The readers of the history.                                             *)
(***************************************************************************)

\* GET /api/protocol-history: in ascending order, PageRows of them.
ServedPage == SubSeq(history, 1, IF Len(history) < PageRows THEN Len(history) ELSE PageRows)

NoApy == <<>>

\* deriveUnderlyingApyFromHistory: the two observations the APY is annualised from.
ValidIn(page) == {i \in DOMAIN page : page[i].rate # NoRate}

NewestIn(page) == CHOOSE i \in ValidIn(page) : \A j \in ValidIn(page) : j <= i

FarEnough(page) ==
  {i \in ValidIn(page) : page[NewestIn(page)].at - page[i].at >= MinGap}

\* Variant: the newest observation that is far enough.
ApyOfNewest(page) ==
  IF ValidIn(page) = {} \/ FarEnough(page) = {} THEN NoApy
  ELSE <<CHOOSE i \in FarEnough(page) : \A j \in FarEnough(page) : j <= i, NewestIn(page)>>

ApyObservations(page) ==
  IF ValidIn(page) = {} \/ FarEnough(page) = {} THEN NoApy
  ELSE <<CHOOSE i \in FarEnough(page) : \A j \in FarEnough(page) : i <= j, NewestIn(page)>>

\* The guards of calculateUnderlyingApy.
Annualisable(old, new) ==
  old.rate # NoRate /\ new.rate # NoRate /\ new.at - old.at >= MinGap

\* What getUnderlyingApy annualises.
UnderlyingApy ==
  LET o == ApyObservations(ServedPage) IN
  IF o # NoApy /\ Annualisable(ServedPage[o[1]], ServedPage[o[2]]) THEN o ELSE NoApy

-----------------------------------------------------------------------------
(***************************************************************************)
(* Properties.                                                             *)
(***************************************************************************)
\* The rates on record never jump by more than a factor of two from one rated row to the
\* next ("reject implausible >2x/<0.5x syExchangeRate jumps ... so the same data-integrity
\* property carries over"). Each snapshot looks at the last row before it inserts its own: of
\* two in flight, both may look before either inserts.
NoJumps ==
  \A i, j \in Rated :
    i < j /\ (\A k \in Rated : k <= i \/ j <= k) =>
      /\ history[j].rate <= 2 * history[i].rate
      /\ history[i].rate <= 2 * history[j].rate

\* While the process runs the history grows, here to the bound on its rows, unless the rate is
\* now implausible against the last one on record: failed reads, refusals of the database and
\* restarts only delay it.
GrowsUnlessJumped ==
  (Len(history) < MaxRows) ~>
      \/ Len(history) = MaxRows
      \/ \E i \in Rated : /\ \A j \in Rated : j <= i
                          /\ rate > 2 * history[i].rate \/ history[i].rate > 2 * rate
      \/ ~alive

\* The APY of the underlying is annualised over two rates that were read, at
\* least MinGap apart and as far apart as the served history allows ("never the
\* two most recent entries, which may be milliseconds apart").
ApySpansMinGap ==
  UnderlyingApy # NoApy =>
    LET old == UnderlyingApy[1]
        new == UnderlyingApy[2]
    IN /\ {old, new} \subseteq Rated
       /\ history[new].at - history[old].at >= MinGap
       /\ \A i, j \in Rated \cap DOMAIN ServedPage :
            history[j].at - history[i].at <= history[new].at - history[old].at

=============================================================================
