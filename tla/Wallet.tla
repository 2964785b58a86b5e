-------------------------------- MODULE Wallet --------------------------------
(***************************************************************************)
(* The wallet service of the web application: its one state, shared by every  *)
(* component, and the asynchronous operations that set it: the silent          *)
(* reconnection at mount, Connect, and the refresh of the balances. Nothing    *)
(* cancels an operation: one begun for an earlier account, or before the user   *)
(* disconnected, sets the state when its answers come. Each time it is set,      *)
(* the portfolio hears of it (PortfolioFeed).                               *)
(***************************************************************************)
EXTENDS PortfolioFeed

CONSTANTS
  Addresses,     \* external: the accounts of the extension
  Networks, TargetNetwork, \* external: the networks it may be on, and the one the app is for
  Operations,    \* numbers of the operations that may be under way at a time
  MaxCalls,      \* bound on calls of the service
  MaxSwitches    \* bound on changes the user makes in the extension

ASSUME WalletAssumption ==
  /\ None \notin Addresses /\ TargetNetwork \in Networks /\ None \notin Networks
  /\ Operations \subseteq Nat
  /\ MaxCalls \in Nat /\ MaxSwitches \in Nat

VARIABLES
  freighter,     \* external: available, address, network; the browser extension
  wallet,        \* address, network, isConnected, balances, loading, failing
  pending,       \* the operations under way: kind, at, address
  calls, switches

serviceVars == <<freighter, wallet, pending, calls, switches>>
walletVars  == <<serviceVars, feedVars>>

NoBalances == [of |-> None, tokens |-> {}]

\* The tokens a refresh may bring: PT is asked before YT, and the first of them to fail or
\* to take longer than ten seconds ends the asking.
FetchedTokens == {{"XLM"}, {"XLM", "PT"}, {"XLM", "PT", "YT"}}

\* The state becomes w in n steps; the listeners are called at each of them.
SetState(w, n) == wallet' = w /\ Hears(n, w)

-----------------------------------------------------------------------------
(***************************************************************************)
(* Calls.                                                                  *)
(***************************************************************************)

Begins(h, op) ==
  /\ pending[h] = None /\ \A other \in Operations : other < h => pending[other] # None
  /\ pending' = [pending EXCEPT ![h] = op]
Completes(h)  == pending' = [pending EXCEPT ![h] = None]

CallWallet(h, kind) ==
  /\ calls < MaxCalls /\ calls' = calls + 1
  /\ Begins(h, [kind |-> kind, at |-> "available", address |-> None])
  /\ SetState([wallet EXCEPT !.loading = TRUE, !.failing = FALSE], 1)
  /\ UNCHANGED <<freighter, switches>>

\* Every component that mounts tries to reconnect, unless that is done or being done.
InitWallet == \E h \in Operations : ~wallet.isConnected /\ ~wallet.loading /\ CallWallet(h, "init")

\* The header and the navigation show one button: Connect as long as the wallet is not
\* connected, pressed already or not, and then Disconnect.
ConnectShown    == ~wallet.isConnected
DisconnectShown == wallet.isConnected

ConnectWallet == \E h \in Operations : ConnectShown /\ CallWallet(h, "connect")

RefreshBalances ==
  \E h \in Operations :
    /\ wallet.isConnected /\ wallet.address # None
    /\ calls < MaxCalls /\ calls' = calls + 1
    /\ Begins(h, [kind |-> "refresh", at |-> "horizon", address |-> wallet.address])
    /\ UNCHANGED <<freighter, wallet, switches, feedVars>>

DisconnectWallet ==
  /\ DisconnectShown
  /\ SetState([wallet EXCEPT !.address = None, !.network = None, !.failing = FALSE,
                             !.isConnected = FALSE, !.balances = NoBalances], 1)
  /\ UNCHANGED <<freighter, pending, calls, switches>>

-----------------------------------------------------------------------------
(***************************************************************************)
(* Answers of the extension.                                                *)
(***************************************************************************)

\* An init that gives up keeps the rest of the state, a connect that does forgets all but
\* the balances; both set the state once more to end the loading.
GivesUp(h) ==
  /\ Completes(h)
  /\ SetState(IF pending[h].kind = "init"
              THEN [wallet EXCEPT !.loading = FALSE, !.failing = TRUE]
              ELSE [wallet EXCEPT !.loading = FALSE, !.failing = TRUE, !.address = None,
                                  !.network = None, !.isConnected = FALSE], 2)

Proceeds(h, stage, a) ==
  /\ pending' = [pending EXCEPT ![h].at = stage, ![h].address = a]
  /\ UNCHANGED <<wallet, feedVars>>

AvailableAnswers(h) ==
  /\ pending[h] # None /\ pending[h].at = "available"
  /\ IF freighter.available THEN Proceeds(h, "address", None)
     ELSE IF pending[h].kind = "connect" THEN GivesUp(h)
     ELSE Completes(h) /\ SetState([wallet EXCEPT !.loading = FALSE], 2)
  /\ UNCHANGED <<freighter, calls, switches>>

\* getAddress for an init, the permission window for a connect: an account, none, or an
\* error. Only a connect without an account goes on to ask for the network.
AddressAnswers(h) ==
  /\ pending[h] # None /\ pending[h].at = "address"
  /\ \/ Proceeds(h, "network", freighter.address)
     \/ pending[h].kind = "connect" /\ Proceeds(h, "network", None)
     \/ pending[h].kind = "init" /\ Completes(h) /\ SetState([wallet EXCEPT !.loading = FALSE], 1)
     \/ GivesUp(h)
  /\ UNCHANGED <<freighter, calls, switches>>

Accepted(n) == n = TargetNetwork

\* The network is read after the address, null when it cannot be read. An accepted wallet
\* is connected at once; an init stays busy until the balances are there, a connect leaves
\* that to the background.
NetworkAnswers(h) ==
  /\ pending[h] # None /\ pending[h].at = "network"
  /\ \E n \in {freighter.network, None} :
       IF Accepted(n) /\ pending[h].address # None
       THEN /\ pending' = [pending EXCEPT ![h].at = "horizon",
                             ![h].kind = IF @ = "connect" THEN "refresh" ELSE @]
            /\ SetState([wallet EXCEPT !.address = pending[h].address, !.network = n,
                                       !.isConnected = TRUE, !.failing = FALSE,
                                       !.loading = pending[h].kind = "init"],
                        IF pending[h].kind = "init" THEN 1 ELSE 2)
       ELSE IF pending[h].kind = "init"
       THEN /\ Completes(h)
            /\ SetState([wallet EXCEPT !.loading = FALSE, !.failing = TRUE,
                                       !.isConnected = FALSE], 2)
       ELSE GivesUp(h)
  /\ UNCHANGED <<freighter, calls, switches>>

-----------------------------------------------------------------------------
(***************************************************************************)
(* refreshBalances: Horizon, then the two token contracts.                   *)
(***************************************************************************)

\* The refresh of an init ends its loading too.
Refreshed(h, w) ==
  /\ Completes(h)
  /\ IF pending[h].kind = "init" THEN SetState([w EXCEPT !.loading = FALSE], 2) ELSE SetState(w, 1)

HorizonAnswers(h) ==
  /\ pending[h] # None /\ pending[h].at = "horizon"
  /\ \/ Proceeds(h, "tokens", pending[h].address)
     \/ Refreshed(h, [wallet EXCEPT !.failing = TRUE])    \* the balances stay as they are
  /\ UNCHANGED <<freighter, calls, switches>>

TokensAnswer(h) ==
  /\ pending[h] # None /\ pending[h].at = "tokens"
  /\ \E got \in FetchedTokens :
       Refreshed(h, [wallet EXCEPT !.balances = [of |-> pending[h].address, tokens |-> got]])
  /\ UNCHANGED <<freighter, calls, switches>>

\* External: the user installs, locks, or changes account or network of the extension.
Switch ==
  /\ switches < MaxSwitches /\ switches' = switches + 1
  /\ \E a \in Addresses, n \in Networks, up \in BOOLEAN :
       freighter' = [available |-> up, address |-> a, network |-> n] /\ freighter' # freighter
  /\ UNCHANGED <<wallet, pending, calls, feedVars>>

-----------------------------------------------------------------------------
(***************************************************************************)
(* The specification.                                                      *)
(***************************************************************************)

Portfolio == Mount(wallet) \/ FetchAnswers(wallet) \/ RefreshPortfolio(wallet)

ServiceAnswers(h) == AvailableAnswers(h) \/ AddressAnswers(h) \/ NetworkAnswers(h)
                     \/ HorizonAnswers(h) \/ TokensAnswer(h)

WalletInit ==
  /\ freighter \in [available : BOOLEAN, address : {CHOOSE a \in Addresses : TRUE},
                    network : Networks]
  /\ wallet = [address |-> None, network |-> None, isConnected |-> FALSE,
               balances |-> NoBalances, loading |-> FALSE, failing |-> FALSE]
  /\ pending = [h \in Operations |-> None]
  /\ calls = 0 /\ switches = 0
  /\ FeedInit

WalletNext ==
  \/ InitWallet \/ ConnectWallet \/ RefreshBalances \/ DisconnectWallet \/ Switch
  \/ \E h \in Operations : ServiceAnswers(h)
  \/ Portfolio /\ UNCHANGED serviceVars

WalletSpec == WalletInit /\ [][WalletNext]_walletVars

-----------------------------------------------------------------------------
(***************************************************************************)
(* Properties.                                                             *)
(***************************************************************************)

\* "Enforce network rule even on auto-connect": however reconnections, connections and
\* disconnections overlap, and whatever the user does in the extension between the answers,
\* a connected wallet has an account that was on the application's network when asked.
ConnectedOnTarget == wallet.isConnected => wallet.address # None /\ wallet.network = TargetNetwork

\* The portfolio shown and the wallet's state agree.
PortfolioIsWallets ==
  feed.mounted =>
    /\ ~feed.loading /\ feed.failing = (wallet.address = None)
    /\ portfolio.of = wallet.address
    /\ wallet.address # None => portfolio.balances = wallet.balances

\* The wallet may change many times during a fetch, by overlapping operations: once it
\* rests, the portfolio shown is the one of its account, made of its last balances.
PortfolioFollowsWallet == <>[]PortfolioIsWallets
=============================================================================
