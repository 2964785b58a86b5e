----------------------------- MODULE PortfolioFeed -----------------------------
(***************************************************************************)
(* usePortfolio: one portfolio shared by every component, fetched anew at       *)
(* every change of the wallet's state. A fetch takes the address and the         *)
(* balances as they are when it begins; a change that comes while one is          *)
(* running queues one more, however many come.                              *)
(***************************************************************************)
EXTENDS Web

CONSTANT MaxRefreshes      \* bound on refreshes the user asks for

VARIABLES
  portfolio,     \* globalPortfolio: whose it is and what balances it was made of
  feed,          \* mounted, getting, queued, loading, failing
  refreshes

feedVars == <<portfolio, feed, refreshes>>

\* getPortfolio takes the address and the balances of the state at its start.
Request(w) == [of |-> w.address, balances |-> w.balances]

Fetching(w, more) ==
  [feed EXCEPT !.mounted = TRUE, !.getting = Request(w), !.queued = more, !.loading = TRUE,
               !.failing = FALSE]

\* Variant: a change that comes during a fetch is skipped, not queued.
HearsIdle(n, w) ==
  /\ feed' = IF ~feed.mounted \/ feed.getting # None THEN feed ELSE Fetching(w, FALSE)
  /\ UNCHANGED <<portfolio, refreshes>>

\* The wallet's state became w in n steps, each of which calls the listener.
Hears(n, w) ==
  /\ feed' = IF ~feed.mounted THEN feed
             ELSE IF feed.getting # None THEN [feed EXCEPT !.queued = TRUE]
             ELSE Fetching(w, n > 1)
  /\ UNCHANGED <<portfolio, refreshes>>

\* The first component that shows the portfolio fetches it, then listens to the wallet.
Mount(w) ==
  /\ ~feed.mounted
  /\ feed' = Fetching(w, FALSE)
  /\ UNCHANGED <<portfolio, refreshes>>

\* The refresh button, or a mint that is done.
RefreshPortfolio(w) ==
  /\ feed.mounted /\ refreshes < MaxRefreshes
  /\ refreshes' = refreshes + 1
  /\ feed' = IF feed.getting # None THEN [feed EXCEPT !.queued = TRUE] ELSE Fetching(w, FALSE)
  /\ UNCHANGED portfolio

EmptyPortfolio == [of |-> None, balances |-> None]

\* Reads that fail are zeros of the answer: every fetch answers. Without an address the
\* portfolio is empty and the error is set. The one queued follows at once.
FetchAnswers(w) ==
  /\ feed.getting # None
  /\ portfolio' = IF feed.getting.of = None THEN EmptyPortfolio ELSE feed.getting
  /\ feed' = IF feed.queued THEN Fetching(w, FALSE)
             ELSE [feed EXCEPT !.getting = None, !.loading = FALSE,
                               !.failing = feed.getting.of = None]
  /\ UNCHANGED refreshes

FeedInit ==
  /\ portfolio = None /\ refreshes = 0
  /\ feed = [mounted |-> FALSE, getting |-> None, queued |-> FALSE, loading |-> TRUE,
             failing |-> FALSE]
=============================================================================
