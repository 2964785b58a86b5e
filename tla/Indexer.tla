------------------------------- MODULE Indexer -------------------------------
(***************************************************************************)
(* The event indexer: a Node process that polls the Soroban RPC every five  *)
(* seconds and writes what it decodes to Postgres, with the ledger to       *)
(* resume from in the same transaction.                                    *)
(*                                                                         *)
(* The poll is an async callback of setInterval, which does not wait for    *)
(* the previous one: polls overlap, and every await is a point where the    *)
(* others run.  A poll may be refused by the RPC or by the database at any  *)
(* of them, and the process may crash between any two.                      *)
(***************************************************************************)
EXTENDS Integers, Sequences

CONSTANTS
  Polls,      \* slots for polls in flight (bound on the overlap)
  Kinds,      \* the kinds of contract event
  Malformed,  \* those planEvent throws on
  Tabled,     \* those whose table exists in the Prisma schema
  Limit,      \* page size of getEvents
  Lookback,   \* how far before the head a first start begins
  MaxLedger,  \* bound on the ledger sequence
  MaxEvents,  \* bound on the events emitted
  MaxFaults   \* bound on failed polls and crashes together

ASSUME IndexerAssumption ==
  /\ Malformed \subseteq Kinds
  /\ Tabled \subseteq Kinds
  /\ Limit \in Nat
  /\ Lookback \in Nat
  /\ MaxLedger \in Nat
  /\ MaxEvents \in Nat
  /\ MaxFaults \in Nat

VARIABLES
  head,        \* external: the latest closed ledger
  chain,       \* external: the contract events in order, [ledger, kind]
  db,          \* the events with rows in Postgres, by position in chain
  lastLedger,  \* SyncState.lastLedger, 0 before the first commit
  up,          \* whether the process runs
  cursor,      \* the in-memory cursor
  poll,        \* [Polls -> the poll in that slot]
  origin,      \* history: where the ledgers the indexer is answerable for begin
  missed,      \* history: decodable events a full page of getEvents left out
  faults

network == <<head, chain>>
store   == <<db, lastLedger>>
process == <<up, cursor, origin, missed>>
vars    == <<network, store, process, poll, faults>>

Idle == [phase |-> "idle", start |-> 0, upto |-> 0, batch |-> {}]

Init ==
  /\ head = Lookback + 1
  /\ chain = <<>>
  /\ db = {}
  /\ lastLedger = 0
  /\ up = FALSE
  /\ cursor = 0
  /\ poll = [p \in Polls |-> Idle]
  /\ origin = 0
  /\ missed = {}
  /\ faults = 0

(***************************************************************************)
(* The network and the RPC.                                                *)
(***************************************************************************)

\* Events of the ledger being built.  The last ledger of the bound stays empty:
\* the indexer reaches a ledger only once the next one is closed.
Emit(kind) ==
  /\ Len(chain) < MaxEvents
  /\ head + 1 < MaxLedger
  /\ chain' = Append(chain, [ledger |-> head + 1, kind |-> kind])
  /\ UNCHANGED <<head, store, process, poll, faults>>

CloseLedger ==
  /\ head < MaxLedger
  /\ head' = head + 1
  /\ UNCHANGED <<chain, store, process, poll, faults>>

\* getEvents: the first Limit events of the closed ledgers from `start` on.
From(start) == {i \in DOMAIN chain : start <= chain[i].ledger /\ chain[i].ledger <= head}
Page(start) == {i \in From(start) : \A j \in From(start) : i - j < Limit}

(***************************************************************************)
(* A poll.                                                                 *)
(***************************************************************************)

\* Asks for the latest ledger and waits.
Ask(p) ==
  /\ up
  /\ poll[p].phase = "idle"
  /\ poll' = [poll EXCEPT ![p].phase = "asked", ![p].upto = head]
  /\ UNCHANGED <<network, store, process, faults>>

\* The cursor is read when the answer arrives.
Begin(p) ==
  /\ poll[p].phase = "asked"
  /\ poll' = [poll EXCEPT ![p] =
       IF cursor < @.upto THEN [@ EXCEPT !.phase = "fetching", !.start = cursor] ELSE Idle]
  /\ UNCHANGED <<network, store, process, faults>>

\* Variant: an event that cannot be decoded is kept in the batch.
PlanAll(events) == events

\* planEvent throws on a malformed event, and the loop skips it.
Plan(events) == {i \in events : chain[i].kind \notin Malformed}

\* One page is all a poll ever asks for: the RPC's cursor is not followed.
Fetch(p) ==
  /\ poll[p].phase = "fetching"
  /\ poll' = [poll EXCEPT ![p].phase = "flushing", ![p].batch = Plan(Page(poll[p].start))]
  /\ missed' = missed \cup Plan(From(poll[p].start) \ Page(poll[p].start))
  /\ UNCHANGED <<network, store, up, cursor, origin, faults>>

Flushable(batch) == \A i \in batch : chain[i].kind \in Tabled

\* Variant: the resume point is the head at commit time.
CommitAtHead(p) ==
  /\ poll[p].phase = "flushing"
  /\ Flushable(poll[p].batch)
  /\ db' = db \cup poll[p].batch
  /\ lastLedger' = head + 1
  /\ poll' = [poll EXCEPT ![p].phase = "flushed"]
  /\ UNCHANGED <<network, process, faults>>

\* Rows and resume point are committed together; rows already there are kept.
Commit(p) ==
  /\ poll[p].phase = "flushing"
  /\ Flushable(poll[p].batch)
  /\ db' = db \cup poll[p].batch
  /\ lastLedger' = poll[p].upto + 1
  /\ poll' = [poll EXCEPT ![p].phase = "flushed"]
  /\ UNCHANGED <<network, process, faults>>

\* Without a table for a row the flush throws and nothing is committed.
FlushThrows(p) ==
  /\ poll[p].phase = "flushing"
  /\ ~Flushable(poll[p].batch)
  /\ poll' = [poll EXCEPT ![p] = Idle]
  /\ UNCHANGED <<network, store, process, faults>>

\* The in-memory cursor follows once the transaction has resolved.
Advance(p) ==
  /\ poll[p].phase = "flushed"
  /\ cursor' = poll[p].upto + 1
  /\ poll' = [poll EXCEPT ![p] = Idle]
  /\ UNCHANGED <<network, store, up, origin, missed, faults>>

\* The RPC or the database refuses, or the answer to a commit that took effect is
\* lost; the error is logged and the poll ends.
PollFails(p) ==
  /\ faults < MaxFaults
  /\ poll[p].phase # "idle"
  /\ poll' = [poll EXCEPT ![p] = Idle]
  /\ faults' = faults + 1
  /\ UNCHANGED <<network, store, process>>

(***************************************************************************)
(* The process.                                                            *)
(***************************************************************************)

\* Resumes from SyncState, or a little before the head when there is none.
Start ==
  /\ ~up
  /\ up' = TRUE
  /\ cursor' = IF lastLedger = 0 THEN head - Lookback ELSE lastLedger
  /\ origin' = IF lastLedger = 0 THEN head - Lookback ELSE origin
  /\ UNCHANGED <<network, store, missed, poll, faults>>

Crash ==
  /\ up
  /\ faults < MaxFaults
  /\ up' = FALSE
  /\ poll' = [p \in Polls |-> Idle]
  /\ faults' = faults + 1
  /\ UNCHANGED <<network, store, cursor, origin, missed>>

PollStep(p) ==
  \/ Ask(p) \/ Begin(p) \/ Fetch(p) \/ Commit(p) \/ FlushThrows(p) \/ Advance(p)
  \/ PollFails(p)

Next ==
  \/ CloseLedger \/ Start \/ Crash
  \/ \E kind \in Kinds : Emit(kind)
  \/ \E p \in Polls : PollStep(p)

Spec == Init /\ [][Next]_vars

\* Ledgers close, setInterval fires again whatever became of the last poll, and
\* every await of a poll ends.  Nobody promises to restart the process.
FairSpec ==
  /\ Spec
  /\ WF_vars(CloseLedger)
  /\ \A p \in Polls : WF_vars(PollStep(p))

-----------------------------------------------------------------------------
(***************************************************************************)
(* Properties.                                                             *)
(***************************************************************************)
Event == [ledger : Nat, kind : Kinds]

Poll == [phase : {"idle", "asked", "fetching", "flushing", "flushed"},
         start : Nat, upto : Nat, batch : SUBSET Nat]

TypeOK ==
  /\ head \in Nat
  /\ chain \in Seq(Event)
  /\ db \subseteq DOMAIN chain
  /\ lastLedger \in 0 .. head + 1
  /\ up \in BOOLEAN
  /\ cursor \in 0 .. head + 1
  /\ poll \in [Polls -> Poll]
  /\ origin \in 0 .. head
  /\ missed \subseteq DOMAIN chain
  /\ faults \in Nat

\* What the indexer owes a row to.
Due(i) == chain[i].kind \notin Malformed /\ origin <= chain[i].ledger

\* Every event due before a ledger has its row, or was left out by a full page.
PersistedBelow(ledger) ==
  \A i \in DOMAIN chain : Due(i) /\ chain[i].ledger < ledger => i \in db \cup missed

\* Neither the stored resume point nor the in-memory cursor is ever past an
\* event that has no row, under overlapping polls that commit out of order,
\* refused calls and crashes (comment in the poll loop: a crash "can never advance
\* SyncState past events that weren't persisted").  The one way an event is lost
\* is the page limit of getEvents.
NothingSkipped == PersistedBelow(lastLedger) /\ (up => PersistedBelow(cursor))

\* Every event the indexer can decode ends up with a row, unless the process
\* goes down first; a restart owes it again.  One bad event does not stop the
\* rest ("one malformed/unexpected event ... is caught and skipped").
EveryEventIndexed ==
  \A i \in 1 .. MaxEvents :
    (up /\ i \in DOMAIN chain /\ Due(i)) ~> (i \in db \/ ~up)

\* The same, up to the two things that do stop it: an event the decoder accepts
\* and the database has no table for, and a full page.  Malformed events, failed
\* calls and polls that overtake each other do not.
IndexedUnlessWedged ==
  \A i \in 1 .. MaxEvents :
    (up /\ i \in DOMAIN chain /\ Due(i)) ~>
      \/ i \in db
      \/ i \in missed /\ chain[i].ledger < cursor
      \/ ~up
      \/ \E j \in DOMAIN chain : chain[j].kind \notin Tabled \cup Malformed

=============================================================================
