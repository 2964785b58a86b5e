------------------------------ MODULE PriceOracle ------------------------------
(***************************************************************************)
(* The price oracle of the web application: the ticker of the exchange, kept   *)
(* in memory for a while and in localStorage for good. Callers do not wait for   *)
(* one another: each that finds the memory out of date fetches for itself,        *)
(* with retries, and whichever answers last has the memory.                  *)
(***************************************************************************)
EXTENDS Web

CONSTANTS
  Callers,         \* calls of getTicker that may be under way at a time
  CacheDuration,   \* how long an answer is served from memory
  MaxRetries,      \* tries of a fetch
  MaxClock         \* bound on the clock

ASSUME PriceOracleAssumption == CacheDuration \in Nat /\ MaxRetries \in Nat \ {0} /\ MaxClock \in Nat

VARIABLES
  clock,        \* external
  cachedData,   \* None, or the time the server gave it and cacheTimestamp
  fallback,     \* external: the time the server gave what is in localStorage
  fetches,      \* of each caller: the time it began, its tries, the last one's time
  answered      \* the last answer: where it came from and when the server gave it

oracleVars == <<clock, cachedData, fallback, fetches, answered>>

Fresh == cachedData # None /\ clock - cachedData.stamp < CacheDuration

Served(how, of) == answered' = [how |-> how, of |-> of, at |-> clock]

GetTicker(c) ==
  /\ fetches[c] = None
  /\ IF Fresh
     THEN Served("memory", cachedData.of) /\ UNCHANGED fetches
     ELSE /\ fetches' = [fetches EXCEPT ![c] = [began |-> clock, tries |-> 1, sent |-> clock]]
          /\ UNCHANGED answered
  /\ UNCHANGED <<clock, cachedData, fallback>>

\* Variant: the answer is stamped with the time it came.
StampAtAnswer(f) == clock

Stamp(f) == f.began

\* /api/prices answers some time after the try left, with what the exchange says, or said
\* when the server asked it last: how long ago that was is up to the server's own cache.
ServerAnswers(f) == f.sent..clock

FetchAnswersTicker(c) ==
  /\ fetches[c] # None
  /\ \E of \in ServerAnswers(fetches[c]) :
       /\ cachedData' = [of |-> of, stamp |-> Stamp(fetches[c])]
       /\ fallback' = of
       /\ Served("exchange", of)
  /\ fetches' = [fetches EXCEPT ![c] = None]
  /\ UNCHANGED clock

Fails(c) == fetches[c] # None /\ clock >= fetches[c].sent

\* A try fails: the next one leaves after a while.
FetchWithRetry(c) ==
  /\ Fails(c) /\ fetches[c].tries < MaxRetries
  /\ \E when \in clock..MaxClock :
       fetches' = [fetches EXCEPT ![c].tries = @ + 1, ![c].sent = when]
  /\ UNCHANGED <<clock, cachedData, fallback, answered>>

\* The last try fails: the answer is what is in memory, whatever its age, or in
\* localStorage, or none.
FallsBack(c) ==
  /\ Fails(c) /\ fetches[c].tries = MaxRetries
  /\ fetches' = [fetches EXCEPT ![c] = None]
  /\ IF cachedData # None THEN Served("stale", cachedData.of)
     ELSE IF fallback # None THEN Served("storage", fallback)
     ELSE Served("none", None)
  /\ UNCHANGED <<clock, cachedData, fallback>>

\* The page is left and comes back: the memory is gone, the storage is not.
Reload ==
  /\ cachedData' = None
  /\ fetches' = [c \in Callers |-> None]
  /\ answered' = None
  /\ UNCHANGED <<clock, fallback>>

\* External.
ClockTicks ==
  /\ clock < MaxClock /\ clock' = clock + 1
  /\ UNCHANGED <<cachedData, fallback, fetches, answered>>

OracleInit ==
  /\ clock = 0 /\ cachedData = None /\ fallback = None
  /\ fetches = [c \in Callers |-> None] /\ answered = None

OracleNext ==
  \/ \E c \in Callers : GetTicker(c) \/ FetchAnswersTicker(c) \/ FetchWithRetry(c) \/ FallsBack(c)
  \/ Reload \/ ClockTicks

OracleSpec == OracleInit /\ [][OracleNext]_oracleVars

-----------------------------------------------------------------------------
(***************************************************************************)
(* Properties.                                                             *)
(***************************************************************************)

\* However many callers fetch at once, however often they retry and in whatever order they
\* are answered, what is served from memory without asking was given by the server within
\* the cache's duration.
MemoryIsFresh ==
  (answered # None /\ answered.how = "memory") => answered.at - answered.of < CacheDuration
=============================================================================
