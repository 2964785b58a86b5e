---------------------------- MODULE IndexerProofs ----------------------------
(***************************************************************************)
(* The indexer never moves a resume point past an event without a row, for  *)
(* any number of overlapping polls, failures and crashes; only what a full  *)
(* page of getEvents leaves out (missed) is lost. The rows of the decoder      *)
(* add up to the balances of the tokens, and the APY derived from what the     *)
(* snapshotter of the same process records spans the time it must.            *)
(***************************************************************************)
EXTENDS Indexer, EventDecoder, Snapshotter, ArithmeticProofs

USE IndexerAssumption

\* The facts about ledgers and positions that the rest needs: an event belongs
\* to a closed ledger or to the one being built, a poll aims at a closed ledger.
Shape ==
  /\ head > Lookback
  /\ \A i \in DOMAIN chain : chain[i].ledger <= head + 1
  /\ \A p \in Polls : /\ poll[p].start <= head + 1
                       /\ poll[p].upto <= head
                       /\ poll[p].batch \subseteq DOMAIN chain

\* What each poll has established so far.
PollSound(p) ==
  /\ poll[p].phase # "idle" => up
  /\ poll[p].phase \in {"fetching", "flushing"} => PersistedBelow(poll[p].start)
  /\ poll[p].phase = "flushing" =>
       \A i \in DOMAIN chain :
         Due(i) /\ poll[p].start <= chain[i].ledger /\ chain[i].ledger <= poll[p].upto
           => i \in poll[p].batch \cup missed
  /\ poll[p].phase = "flushed" => PersistedBelow(poll[p].upto + 1)

IInv == TypeOK /\ Shape /\ NothingSkipped /\ \A p \in Polls : PollSound(p)

\* What appending an event does to the positions of the chain.
LEMMA AppendFacts ==
  ASSUME NEW E, NEW s \in Seq(E), NEW e \in E
  PROVE  /\ Append(s, e) \in Seq(E)
         /\ DOMAIN Append(s, e) = DOMAIN s \cup {Len(s) + 1}
         /\ \A i \in DOMAIN s : Append(s, e)[i] = s[i]
         /\ Append(s, e)[Len(s) + 1] = e
  OBVIOUS

\* An idle slot is a well-formed poll.
LEMMA IdleIsPoll == Idle \in Poll /\ Idle.phase = "idle" /\ Idle.start = 0 /\ Idle.upto = 0 /\ Idle.batch = {}
  BY DEF Idle, Poll

\* The fields of a well-formed poll.
LEMMA PollFields ==
  ASSUME NEW q \in Poll
  PROVE  /\ q.phase \in {"idle", "asked", "fetching", "flushing", "flushed"}
         /\ q.start \in Nat
         /\ q.upto \in Nat
         /\ q.batch \subseteq Nat
  BY DEF Poll

\* The initial state.
LEMMA InitInv == Init => IInv
<1> SUFFICES ASSUME Init PROVE IInv
  OBVIOUS
<1>1. chain \in Seq(Event) /\ DOMAIN chain = {}
  BY DEF Init
<1>2. TypeOK
  <2>1. poll \in [Polls -> Poll]
    BY IdleIsPoll DEF Init
  <2>2. db \subseteq DOMAIN chain /\ missed \subseteq DOMAIN chain /\ up \in BOOLEAN
    BY DEF Init
  <2>3. /\ head \in Nat /\ lastLedger \in 0 .. head + 1 /\ cursor \in 0 .. head + 1
        /\ origin \in 0 .. head /\ faults \in Nat
    BY DEF Init
  <2> QED
    BY <1>1, <2>1, <2>2, <2>3 DEF TypeOK
<1>3. Shape
  BY <1>1, IdleIsPoll DEF Init, Shape
<1>4. NothingSkipped /\ \A p \in Polls : PollSound(p)
  BY <1>1, IdleIsPoll DEF Init, NothingSkipped, PersistedBelow, PollSound
<1> QED
  BY <1>2, <1>3, <1>4 DEF IInv

\* A step of a poll, seen from outside: one slot changes, to a well-formed poll
\* aimed no further than the head.
LEMMA PollStepShape ==
  ASSUME TypeOK, Shape, NEW p \in Polls, PollStep(p)
  PROVE  /\ \E q \in Poll : /\ poll' = [poll EXCEPT ![p] = q]
                            /\ q.start <= head + 1
                            /\ q.upto <= head
                            /\ q.batch \subseteq DOMAIN chain
         /\ UNCHANGED <<network, up, origin>>
<1> DEFINE Changes == \E q \in Poll : /\ poll' = [poll EXCEPT ![p] = q]
                                      /\ q.start <= head + 1
                                      /\ q.upto <= head
                                      /\ q.batch \subseteq DOMAIN chain
<1>0. poll[p] \in Poll /\ poll[p].start <= head + 1 /\ poll[p].upto <= head /\ poll[p].batch \subseteq DOMAIN chain
  BY DEF TypeOK, Shape
<1>1. head \in Nat /\ cursor \in 0 .. head + 1 /\ DOMAIN chain \subseteq Nat
  BY DEF TypeOK
<1>2. CASE Ask(p)
  <2> DEFINE q == [poll[p] EXCEPT !.phase = "asked", !.upto = head]
  <2>1. q \in Poll
    BY <1>0, <1>1 DEF Poll
  <2>2. q.start <= head + 1 /\ q.upto <= head /\ q.batch \subseteq DOMAIN chain
    BY <1>0, <1>1 DEF Poll
  <2>3. poll' = [poll EXCEPT ![p] = q]
    BY <1>2, <1>0 DEF Ask, Poll, TypeOK
  <2> HIDE DEF q
  <2> QED
    BY <1>2, <2>1, <2>2, <2>3 DEF Ask, network, process
<1>3. CASE Begin(p)
  <2> DEFINE q == IF cursor < poll[p].upto
                  THEN [poll[p] EXCEPT !.phase = "fetching", !.start = cursor] ELSE Idle
  <2>1. q \in Poll /\ q.start <= head + 1 /\ q.upto <= head /\ q.batch \subseteq DOMAIN chain
    <3>1. CASE cursor < poll[p].upto
      <4> DEFINE f == [poll[p] EXCEPT !.phase = "fetching", !.start = cursor]
      <4>1. q = f
        BY <3>1
      <4>2. f \in Poll
        <5>1. cursor \in Nat
          BY <1>1
        <5> QED
          BY <1>0, <5>1 DEF Poll
      <4>3. f.start = cursor /\ f.upto = poll[p].upto /\ f.batch = poll[p].batch
        BY <1>0 DEF Poll
      <4> HIDE DEF q, f
      <4> QED
        BY <1>0, <1>1, <4>1, <4>2, <4>3
    <3>2. CASE ~(cursor < poll[p].upto)
      BY <1>1, <3>2, IdleIsPoll
    <3> QED
      BY <3>1, <3>2
  <2>2. poll' = [poll EXCEPT ![p] = q]
    BY <1>3 DEF Begin
  <2> QED
    BY <1>3, <2>1, <2>2 DEF Begin, network, process
<1>4. CASE Fetch(p)
  <2> DEFINE b == Plan(Page(poll[p].start))
             q == [poll[p] EXCEPT !.phase = "flushing", !.batch = b]
  <2>1. b \subseteq DOMAIN chain
    BY DEF Plan, Page, From
  <2> HIDE DEF b
  <2>2. q \in Poll /\ q.start <= head + 1 /\ q.upto <= head /\ q.batch \subseteq DOMAIN chain
    BY <1>0, <1>1, <2>1 DEF Poll
  <2>3. poll' = [poll EXCEPT ![p] = q]
    BY <1>4, <1>0 DEF Fetch, b, Poll, TypeOK
  <2> QED
    BY <1>4, <2>2, <2>3 DEF Fetch, network, process
<1>5. CASE Commit(p)
  <2> DEFINE q == [poll[p] EXCEPT !.phase = "flushed"]
  <2>1. q \in Poll /\ q.start <= head + 1 /\ q.upto <= head /\ q.batch \subseteq DOMAIN chain
    BY <1>0 DEF Poll
  <2>2. poll' = [poll EXCEPT ![p] = q]
    BY <1>5 DEF Commit
  <2> QED
    BY <1>5, <2>1, <2>2 DEF Commit, network, process
<1>6. CASE FlushThrows(p) \/ PollFails(p) \/ Advance(p)
  <2>1. Idle \in Poll /\ Idle.start <= head + 1 /\ Idle.upto <= head /\ Idle.batch \subseteq DOMAIN chain
    BY <1>1, IdleIsPoll
  <2> QED
    BY <1>6, <2>1 DEF FlushThrows, PollFails, Advance, network, process
<1> QED
  BY <1>2, <1>3, <1>4, <1>5, <1>6 DEF PollStep

\* Type correctness and the shape are kept by every step.
LEMMA ShapeStep == TypeOK /\ Shape /\ [Next]_vars => TypeOK' /\ Shape'
<1> SUFFICES ASSUME TypeOK, Shape, [Next]_vars PROVE TypeOK' /\ Shape'
  OBVIOUS
<1>0. /\ head \in Nat /\ chain \in Seq(Event) /\ DOMAIN chain \subseteq Nat
      /\ \A p \in Polls : poll[p] \in Poll
      /\ \A i \in DOMAIN chain : chain[i].ledger \in Nat
  <2>1. \A e \in Event : e.ledger \in Nat
    BY DEF Event
  <2>2. \A i \in DOMAIN chain : i \in Nat /\ chain[i] \in Event
    BY DEF TypeOK
  <2> QED
    BY <2>1, <2>2 DEF TypeOK
<1>1. CASE CloseLedger
  <2>1. head' = head + 1 /\ UNCHANGED <<chain, db, lastLedger, up, cursor, origin, missed, poll, faults>>
    BY <1>1 DEF CloseLedger, store, process
  <2>2. TypeOK'
    BY <2>1 DEF TypeOK
  <2>3. Shape'
    BY <1>0, <2>1, PollFields DEF Shape
  <2> QED
    BY <2>2, <2>3
<1>2. CASE Start
  BY <1>2 DEF Start, network, store, TypeOK, Shape
<1>3. CASE Crash
  <2>1. /\ poll' = [p \in Polls |-> Idle] /\ up' = FALSE /\ faults' = faults + 1
        /\ UNCHANGED <<head, chain, db, lastLedger, cursor, origin, missed>>
    BY <1>3 DEF Crash, network, store
  <2>2. poll' \in [Polls -> Poll]
    BY <2>1, IdleIsPoll
  <2>3. up' \in BOOLEAN /\ faults' \in Nat
    <3>1. up' \in BOOLEAN
      BY <2>1, Zenon
    <3>2. faults' = faults + 1 /\ faults \in Nat
      BY <2>1 DEF TypeOK
    <3> QED
      BY <3>1, <3>2
  <2>4. TypeOK'
    <3>1. UNCHANGED <<head, chain, db, lastLedger, cursor, origin, missed>>
      BY <2>1
    <3>2. (head \in Nat /\ chain \in Seq(Event) /\ db \subseteq DOMAIN chain /\ missed \subseteq DOMAIN chain)'
      BY <3>1 DEF TypeOK
    <3>3. (lastLedger \in 0 .. head + 1 /\ cursor \in 0 .. head + 1 /\ origin \in 0 .. head)'
      BY <3>1 DEF TypeOK
    <3> QED
      BY <3>2, <3>3, <2>2, <2>3 DEF TypeOK
  <2>5. Shape'
    BY <1>0, <2>1, IdleIsPoll DEF Shape
  <2> QED
    BY <2>4, <2>5
<1>4. ASSUME NEW kind \in Kinds, Emit(kind) PROVE TypeOK' /\ Shape'
  <2> DEFINE e == [ledger |-> head + 1, kind |-> kind]
  <2>1. e \in Event /\ e.ledger = head + 1
    BY DEF Event, TypeOK
  <2>2. chain \in Seq(Event) /\ chain' = Append(chain, e)
    BY <1>4 DEF Emit, TypeOK
  <2> HIDE DEF e
  <2>3. /\ chain' \in Seq(Event)
        /\ DOMAIN chain' = DOMAIN chain \cup {Len(chain) + 1}
        /\ \A i \in DOMAIN chain : chain'[i] = chain[i]
        /\ chain'[Len(chain) + 1] = e
    BY <2>1, <2>2, AppendFacts
  <2>4. \A i \in DOMAIN chain' : chain'[i].ledger <= head + 1
    BY <2>1, <2>3 DEF Shape, TypeOK
  <2>5. UNCHANGED <<head, db, lastLedger, up, cursor, origin, missed, poll, faults>>
    BY <1>4 DEF Emit, store, process
  <2> HIDE DEF e
  <2>6. TypeOK'
    BY <2>3, <2>5 DEF TypeOK
  <2>7. Shape'
    BY <2>3, <2>4, <2>5 DEF Shape
  <2> QED
    BY <2>6, <2>7
<1>5. ASSUME NEW p \in Polls, PollStep(p) PROVE TypeOK' /\ Shape'
  <2>1. PICK q \in Poll : /\ poll' = [poll EXCEPT ![p] = q]
                          /\ q.start <= head + 1
                          /\ q.upto <= head
                          /\ q.batch \subseteq DOMAIN chain
    BY <1>5, PollStepShape
  <2>2. UNCHANGED <<head, chain, up, origin>>
    BY <1>5, PollStepShape DEF network
  <2>3. Shape'
    BY <2>1, <2>2 DEF Shape, TypeOK
  <2>4. poll' \in [Polls -> Poll]
    BY <2>1 DEF TypeOK
  <2>5a. missed' \subseteq DOMAIN chain
    BY <1>5 DEF PollStep, Ask, Begin, Fetch, Commit, FlushThrows, Advance, PollFails,
                process, Plan, From, TypeOK
  <2>5. db' \subseteq DOMAIN chain /\ lastLedger' \in 0 .. head + 1
    BY <1>5 DEF PollStep, Ask, Begin, Fetch, Commit, FlushThrows, Advance, PollFails,
                store, TypeOK, Shape, Poll
  <2>6. faults' \in Nat
    BY <1>5 DEF PollStep, Ask, Begin, Fetch, Commit, FlushThrows, Advance, PollFails, TypeOK
  <2>7. cursor' \in 0 .. head + 1
    <3>1. CASE Advance(p)
      BY <1>0, <3>1, PollFields DEF Advance, Shape
    <3>2. CASE UNCHANGED cursor
      BY <3>2 DEF TypeOK
    <3> QED
      BY <1>5, <3>1, <3>2 DEF PollStep, Ask, Begin, Fetch, Commit, FlushThrows, PollFails, process
  <2> QED
    BY <2>2, <2>3, <2>4, <2>5, <2>5a, <2>6, <2>7 DEF TypeOK
<1>6. CASE UNCHANGED vars
  BY <1>6 DEF vars, network, store, process, TypeOK, Shape
<1> QED
  BY <1>1, <1>2, <1>3, <1>4, <1>5, <1>6 DEF Next

\* What a step of a poll does to the rows and the resume points.
LEMMA PollStepSound ==
  ASSUME IInv, NEW p \in Polls, PollStep(p)
  PROVE  NothingSkipped' /\ \A r \in Polls : PollSound(r)'
<1> USE DEF IInv
<1>1. /\ UNCHANGED <<head, chain, origin, up>>
      /\ \A r \in Polls \ {p} : poll'[r] = poll[r]
  BY PollStepShape DEF network, TypeOK
<1>2. /\ \A r \in Polls : poll[r] \in Poll
      /\ \A i \in DOMAIN chain : chain[i].ledger \in Nat
      /\ head \in Nat /\ cursor \in Nat /\ lastLedger \in Nat
  <2>1. \A e \in Event : e.ledger \in Nat
    BY DEF Event
  <2>2. \A i \in DOMAIN chain : chain[i] \in Event
    BY DEF TypeOK
  <2> QED
    BY <2>1, <2>2 DEF TypeOK
<1>3. db \subseteq db' /\ missed \subseteq missed'
  BY DEF PollStep, Ask, Begin, Fetch, Commit, FlushThrows, Advance, PollFails, store, process
<1>4. \A i \in DOMAIN chain : Due(i)' <=> Due(i)
  BY <1>1 DEF Due
<1> DEFINE Rows(n) == \A i \in DOMAIN chain : Due(i) /\ chain[i].ledger < n => i \in db' \cup missed'
<1>5. \A n \in Nat : PersistedBelow(n) => Rows(n)
  BY <1>3 DEF PersistedBelow
<1>6. \A r \in Polls \ {p} : PollSound(r)'
  BY <1>1, <1>2, <1>3, <1>4, <1>5, PollFields DEF PollSound, PersistedBelow
<1>7. CASE Ask(p) \/ FlushThrows(p) \/ PollFails(p)
  <2>1. UNCHANGED <<lastLedger, cursor>> /\ poll'[p].phase \in {"idle", "asked"}
    BY <1>7, <1>2, IdleIsPoll DEF Ask, FlushThrows, PollFails, store, process, TypeOK, Poll
  <2>2. poll'[p].phase # "idle" => up
    BY <1>7, IdleIsPoll DEF Ask, FlushThrows, PollFails, TypeOK
  <2>3. PollSound(p)'
    BY <2>1, <2>2, <1>1 DEF PollSound
  <2>4. NothingSkipped'
    BY <2>1, <1>1, <1>2, <1>3, <1>4, <1>5 DEF NothingSkipped, PersistedBelow
  <2> QED
    BY <2>3, <2>4, <1>6
<1>8. CASE Begin(p)
  <2>1. UNCHANGED <<lastLedger, cursor, db>>
    BY <1>8 DEF Begin, store, process
  <2>2. up /\ PersistedBelow(cursor)
    BY <1>8 DEF Begin, PollSound, NothingSkipped
  <2>3. \/ poll'[p].phase = "fetching" /\ poll'[p].start = cursor
        \/ poll'[p].phase = "idle"
    BY <1>8, <1>2, IdleIsPoll DEF Begin, TypeOK, Poll
  <2>4. PollSound(p)'
    BY <2>1, <2>2, <2>3, <1>1, <1>3, <1>4 DEF PollSound, PersistedBelow
  <2>5. NothingSkipped'
    BY <2>1, <1>1, <1>3, <1>4 DEF NothingSkipped, PersistedBelow
  <2> QED
    BY <2>4, <2>5, <1>6
<1>9. CASE Fetch(p)
  <2>1. UNCHANGED <<lastLedger, cursor, db>>
    BY <1>9 DEF Fetch, store
  <2> DEFINE b == Plan(Page(poll[p].start))
  <2>2. /\ poll'[p].phase = "flushing" /\ poll'[p].start = poll[p].start
        /\ poll'[p].upto = poll[p].upto /\ poll'[p].batch = b
    <3> HIDE DEF b
    <3>1. poll' = [poll EXCEPT ![p].phase = "flushing", ![p].batch = b]
      BY <1>9 DEF Fetch, b
    <3> QED
      BY <3>1, <1>2 DEF TypeOK, Poll
  <2>3. up /\ PersistedBelow(poll[p].start)
    BY <1>9 DEF Fetch, PollSound
  <2>4. \A i \in DOMAIN chain :
          Due(i) /\ poll[p].start <= chain[i].ledger /\ chain[i].ledger <= poll[p].upto
            => i \in b \cup missed'
    <3>1. missed' = missed \cup Plan(From(poll[p].start) \ Page(poll[p].start))
      BY <1>9 DEF Fetch
    <3>2. poll[p].upto <= head
      BY DEF Shape
    <3> QED
      BY <3>1, <3>2, <1>2, PollFields DEF Plan, From, Due
  <2> HIDE DEF b
  <2>5. PollSound(p)'
    BY <2>1, <2>2, <2>3, <2>4, <1>1, <1>3, <1>4 DEF PollSound, PersistedBelow
  <2>6. NothingSkipped'
    BY <2>1, <1>1, <1>3, <1>4 DEF NothingSkipped, PersistedBelow
  <2> QED
    BY <2>5, <2>6, <1>6
<1>10. CASE Commit(p)
  <2>1. /\ db' = db \cup poll[p].batch
        /\ lastLedger' = poll[p].upto + 1
        /\ UNCHANGED cursor
        /\ poll[p].phase = "flushing"
    BY <1>10 DEF Commit, process
  <2>2. poll'[p].phase = "flushed" /\ poll'[p].upto = poll[p].upto
    BY <1>10, <1>2 DEF Commit, TypeOK, Poll
  <2>3. Rows(poll[p].upto + 1)
    <3>1. \A i \in DOMAIN chain : Due(i) /\ chain[i].ledger < poll[p].start => i \in db \cup missed
      BY <2>1 DEF PollSound, PersistedBelow
    <3>2. \A i \in DOMAIN chain :
            Due(i) /\ poll[p].start <= chain[i].ledger /\ chain[i].ledger <= poll[p].upto
              => i \in poll[p].batch \cup missed
      BY <2>1 DEF PollSound
    <3> QED
      BY <3>1, <3>2, <2>1, <1>2, <1>3, PollFields
  <2>4. PollSound(p)'
    BY <2>1, <2>2, <2>3, <1>1, <1>3, <1>4 DEF PollSound, PersistedBelow
  <2>5. NothingSkipped'
    BY <2>1, <2>3, <1>1, <1>2, <1>3, <1>4, <1>5 DEF NothingSkipped, PersistedBelow
  <2> QED
    BY <2>4, <2>5, <1>6
<1>11. CASE Advance(p)
  <2>1. UNCHANGED <<lastLedger, db>> /\ cursor' = poll[p].upto + 1
    BY <1>11 DEF Advance, store
  <2>2. PersistedBelow(poll[p].upto + 1)
    BY <1>11 DEF Advance, PollSound
  <2>3. poll'[p].phase = "idle"
    BY <1>11, IdleIsPoll DEF Advance, TypeOK
  <2>4. PollSound(p)'
    BY <2>3 DEF PollSound
  <2>5. NothingSkipped'
    BY <2>1, <2>2, <1>1, <1>3, <1>4 DEF NothingSkipped, PersistedBelow
  <2> QED
    BY <2>4, <2>5, <1>6
<1> QED
  BY <1>7, <1>8, <1>9, <1>10, <1>11 DEF PollStep

\* The invariant is kept by every step.
LEMMA InvStep == IInv /\ [Next]_vars => IInv'
<1> SUFFICES ASSUME IInv, [Next]_vars PROVE IInv'
  OBVIOUS
<1>0. TypeOK' /\ Shape'
  BY ShapeStep DEF IInv
<1> DEFINE Sound == NothingSkipped' /\ \A p \in Polls : PollSound(p)'
<1> SUFFICES Sound
  BY <1>0 DEF IInv
<1> USE DEF IInv
<1>1. CASE CloseLedger \/ UNCHANGED vars
  <2>1. UNCHANGED <<chain, db, lastLedger, up, cursor, origin, missed, poll>>
    BY <1>1 DEF CloseLedger, vars, network, store, process
  <2> QED
    BY <2>1 DEF NothingSkipped, PollSound, PersistedBelow, Due
<1>2. CASE Start
  <2>1. UNCHANGED <<chain, db, lastLedger, missed, poll>>
    BY <1>2 DEF Start, network, store
  <2>2. \A p \in Polls : PollSound(p)'
    BY <1>2, <2>1 DEF Start, PollSound
  <2>3. CASE lastLedger = 0
    <3>1. cursor' = origin'
      BY <1>2, <2>3 DEF Start
    <3>2. \A i \in DOMAIN chain : chain[i].ledger \in Nat
      <4>1. \A e \in Event : e.ledger \in Nat
        BY DEF Event
      <4>2. \A i \in DOMAIN chain : chain[i] \in Event
        BY DEF TypeOK
      <4> QED
        BY <4>1, <4>2
    <3>3. origin' \in Nat
      BY <1>0 DEF TypeOK
    <3> QED
      BY <2>1, <2>2, <2>3, <3>1, <3>2, <3>3 DEF NothingSkipped, PersistedBelow, Due
  <2>4. CASE lastLedger # 0
    <3>1. cursor' = lastLedger /\ origin' = origin
      BY <1>2, <2>4 DEF Start
    <3> QED
      BY <2>1, <2>2, <3>1 DEF NothingSkipped, PersistedBelow, Due
  <2> QED
    BY <2>3, <2>4
<1>3. CASE Crash
  <2>1. UNCHANGED <<chain, db, lastLedger, origin, missed>> /\ up' = FALSE
    BY <1>3 DEF Crash, network, store
  <2>2. \A p \in Polls : poll'[p].phase = "idle"
    BY <1>3, IdleIsPoll DEF Crash
  <2> QED
    BY <2>1, <2>2 DEF NothingSkipped, PollSound, PersistedBelow, Due
<1>4. ASSUME NEW kind \in Kinds, Emit(kind) PROVE Sound
  <2> DEFINE e == [ledger |-> head + 1, kind |-> kind]
  <2>1. e \in Event /\ e.ledger = head + 1
    BY DEF Event, TypeOK
  <2>2. chain \in Seq(Event) /\ chain' = Append(chain, e)
    BY <1>4 DEF Emit, TypeOK
  <2> HIDE DEF e
  <2>3. /\ DOMAIN chain' = DOMAIN chain \cup {Len(chain) + 1}
        /\ \A i \in DOMAIN chain : chain'[i] = chain[i]
        /\ chain'[Len(chain) + 1].ledger = head + 1
    BY <2>1, <2>2, AppendFacts
  <2>4. UNCHANGED <<head, db, lastLedger, up, cursor, origin, missed, poll>>
    BY <1>4 DEF Emit, store, process
  <2>5. \A n : n \in Nat /\ n <= head + 1 /\ PersistedBelow(n) =>
          \A i \in DOMAIN chain' : Due(i)' /\ chain'[i].ledger < n => i \in db' \cup missed'
    BY <2>3, <2>4 DEF PersistedBelow, Due, TypeOK
  <2>6. NothingSkipped'
    <3>1. lastLedger \in Nat /\ lastLedger <= head + 1 /\ cursor \in Nat /\ cursor <= head + 1
      BY DEF TypeOK
    <3> QED
      BY <2>4, <2>5, <3>1 DEF NothingSkipped, PersistedBelow
  <2>7. ASSUME NEW p \in Polls PROVE PollSound(p)'
    <3>1. /\ poll[p].start \in Nat /\ poll[p].start <= head + 1
          /\ poll[p].upto \in Nat /\ poll[p].upto <= head
          /\ head \in Nat
      BY PollFields DEF TypeOK, Shape
    <3>2. \A i \in DOMAIN chain' :
            Due(i)' /\ chain'[i].ledger <= poll[p].upto => i \in DOMAIN chain /\ Due(i)
      BY <2>3, <2>4, <3>1 DEF Due
    <3>3. PollSound(p)
      OBVIOUS
    <3>4. poll[p].phase = "flushing" =>
            \A i \in DOMAIN chain' :
              Due(i)' /\ poll[p].start <= chain'[i].ledger /\ chain'[i].ledger <= poll[p].upto
                => i \in poll[p].batch \cup missed
      BY <2>3, <3>2, <3>3 DEF PollSound
    <3>5. poll[p].upto + 1 \in Nat /\ poll[p].upto + 1 <= head + 1
      BY <3>1
    <3> QED
      BY <2>4, <2>5, <3>1, <3>3, <3>4, <3>5 DEF PollSound, PersistedBelow
  <2> QED
    BY <2>6, <2>7
<1>5. ASSUME NEW p \in Polls, PollStep(p) PROVE Sound
  BY <1>5, PollStepSound
<1> QED
  BY <1>1, <1>2, <1>3, <1>4, <1>5 DEF Next

\* Type correctness of the indexer, whatever the page size.
THEOREM TypeCorrect == Spec => []TypeOK
<1>1. Init => TypeOK /\ Shape
  BY InitInv DEF IInv
<1>2. TypeOK /\ Shape /\ [Next]_vars => (TypeOK /\ Shape)'
  BY ShapeStep
<1> QED
  BY <1>1, <1>2, PTL DEF Spec

\* In every behaviour neither resume point is ever past an event without a row,
\* except those a full page left out (the poll loop of index.ts).
THEOREM ResumePointsAreSafe == Spec => []NothingSkipped
<1>1. Init => IInv
  BY InitInv
<1>2. IInv /\ [Next]_vars => IInv'
  BY InvStep
<1>3. IInv => NothingSkipped
  BY DEF IInv
<1> QED
  BY <1>1, <1>2, <1>3, PTL DEF Spec

-----------------------------------------------------------------------------
(***************************************************************************)
(* The snapshotter of the same process: the APY of the underlying, for any      *)
(* number of snapshots in flight.                                           *)
(***************************************************************************)

RowsOf == [at : Nat, rate : Nat]

SnapTypes ==
  /\ rate \in Nat
  /\ time \in Nat
  /\ history \in Seq(RowsOf)
  /\ take \in [Takes -> [phase : {"idle", "reading", "checking", "creating"}, rate : Nat]]

\* An inserted row leaves the older ones as they were.
LEMMA InsertedRow ==
  ASSUME SnapTypes, NEW t \in Takes, CreateRow(t)
  PROVE  LET r == [at |-> time, rate |-> take[t].rate] IN
         /\ r \in RowsOf
         /\ history' \in Seq(RowsOf)
         /\ DOMAIN history' = DOMAIN history \cup {Len(history) + 1}
         /\ \A i \in DOMAIN history : i \in Nat /\ i <= Len(history) /\ history'[i] = history[i]
         /\ history'[Len(history) + 1] = r
         /\ Len(history) \in Nat
<1> DEFINE r == [at |-> time, rate |-> take[t].rate]
<1>1. r \in RowsOf
  BY DEF SnapTypes, RowsOf
<1>2. history \in Seq(RowsOf) /\ history' = Append(history, r)
  BY DEF SnapTypes, CreateRow
<1> HIDE DEF r
<1>3. /\ history' \in Seq(RowsOf)
      /\ DOMAIN history' = DOMAIN history \cup {Len(history) + 1}
      /\ \A i \in DOMAIN history : history'[i] = history[i]
      /\ history'[Len(history) + 1] = r
  BY <1>1, <1>2, AppendFacts
<1>4. Len(history) \in Nat /\ DOMAIN history = 1 .. Len(history)
  BY <1>2
<1>5. \A i \in DOMAIN history : i \in Nat /\ i <= Len(history)
  BY <1>4
<1> QED BY <1>1, <1>3, <1>4, <1>5 DEF r

\* Rows are stamped in the order they are kept in, and none in the future.
Stamped ==
  /\ \A i \in DOMAIN history : history[i].at <= time
  /\ \A i, j \in DOMAIN history : i <= j => history[i].at <= history[j].at

StampInv == SnapTypes /\ Stamped

\* Every step keeps the types, and adds at most one row, stamped with the present.
LEMMA SnapTypesStep ==
  ASSUME SnapTypes, [SnapNext]_snapVars
  PROVE  /\ SnapTypes' /\ time <= time'
         /\ \/ history' = history
            \/ \E t \in Takes : CreateRow(t)
<1>1. Rates \subseteq Nat
  BY SnapshotterAssumption
<1>2. NoTake \in [phase : {"idle", "reading", "checking", "creating"}, rate : Nat]
  BY DEF NoTake, NoRate
<1>3. CASE UNCHANGED snapVars
  BY <1>3 DEF snapVars, snapWorld, SnapTypes
<1>4. CASE Tick \/ RateMoves
  <2>1. CASE Tick
    BY <2>1 DEF Tick, SnapTypes
  <2>2. CASE RateMoves
    BY <1>1, <2>2 DEF RateMoves, SnapTypes
  <2> QED BY <1>4, <2>1, <2>2
<1>5. CASE CrashSnapshotter
  BY <1>2, <1>5 DEF CrashSnapshotter, snapWorld, SnapTypes
<1>6. ASSUME NEW t \in Takes, StartSnapshotter(t) \/ BeginSnapshot(t)
      PROVE  SnapTypes' /\ time <= time' /\ history' = history
  <2>1. take' = [take EXCEPT ![t].phase = "reading"]
    BY <1>6 DEF StartSnapshotter, BeginSnapshot
  <2>2. UNCHANGED <<rate, time, history>>
    BY <1>6 DEF StartSnapshotter, BeginSnapshot, snapWorld
  <2> QED BY <2>1, <2>2 DEF SnapTypes
<1>7. ASSUME NEW t \in Takes, CheckRate(t)
      PROVE  SnapTypes' /\ time <= time' /\ history' = history
  <2>1. \E u \in {NoTake, [take[t] EXCEPT !.phase = "creating"]} : take' = [take EXCEPT ![t] = u]
    BY <1>7 DEF CheckRate
  <2> QED BY <1>2, <1>7, <2>1 DEF CheckRate, snapWorld, SnapTypes
<1>8. ASSUME NEW t \in Takes, CreateRow(t)
      PROVE  SnapTypes' /\ time <= time'
  <2>1. history' \in Seq(RowsOf)
    BY <1>8, InsertedRow
  <2>2. take' = [take EXCEPT ![t] = NoTake] /\ UNCHANGED <<rate, time>>
    BY <1>8 DEF CreateRow, snapWorld
  <2> QED BY <1>2, <2>1, <2>2 DEF SnapTypes
<1>9. ASSUME NEW t \in Takes, TakeFails(t)
      PROVE  SnapTypes' /\ time <= time' /\ history' = history
  BY <1>2, <1>9 DEF TakeFails, snapWorld, SnapTypes
<1>10. ASSUME NEW t \in Takes, NEW ok \in SUBSET Reads, ReadAll(t, ok)
       PROVE  SnapTypes' /\ time <= time' /\ history' = history
  <2>1. ProtocolState(ok).rate \in Nat
    BY DEF ProtocolState, SnapTypes, NoRate
  <2>2. \E u \in [phase : {"idle", "reading", "checking", "creating"}, rate : Nat] :
          take' = [take EXCEPT ![t] = u]
    <3> DEFINE s == ProtocolState(ok)
               u == IF ~s.available THEN NoTake
                    ELSE [phase |-> IF s.rate = NoRate THEN "creating" ELSE "checking", rate |-> s.rate]
    <3>1. take' = [take EXCEPT ![t] = u]
      BY <1>10 DEF ReadAll
    <3>2. u \in [phase : {"idle", "reading", "checking", "creating"}, rate : Nat]
      <4> HIDE DEF s
      <4>1. s.rate \in Nat
        BY <2>1 DEF s
      <4> QED BY <1>2, <4>1
    <3> HIDE DEF u
    <3> QED BY <3>1, <3>2
  <2> QED BY <1>10, <2>2 DEF ReadAll, snapWorld, SnapTypes
<1> QED
  <2>1. SnapNext \/ UNCHANGED snapVars
    OBVIOUS
  <2>2. CASE Tick \/ RateMoves \/ CrashSnapshotter
    <3>1. history' = history /\ time <= time'
      BY <2>2 DEF Tick, RateMoves, CrashSnapshotter, snapWorld, SnapTypes
    <3> QED BY <1>4, <1>5, <2>2, <3>1
  <2>3. CASE UNCHANGED snapVars
    BY <1>3, <2>3 DEF snapVars, snapWorld, SnapTypes
  <2>4. CASE \E t \in Takes :
               \/ StartSnapshotter(t) \/ BeginSnapshot(t) \/ CheckRate(t) \/ CreateRow(t) \/ TakeFails(t)
               \/ \E ok \in SUBSET Reads : ReadAll(t, ok)
    BY <1>6, <1>7, <1>8, <1>9, <1>10, <2>4
  <2> QED BY <2>1, <2>2, <2>3, <2>4 DEF SnapNext

\* A row has a time and a rate.
LEMMA RowsTyped ==
  ASSUME SnapTypes
  PROVE  \A i \in DOMAIN history : history[i].at \in Nat /\ history[i].rate \in Nat
<1>1. \A i \in DOMAIN history : history[i] \in RowsOf
  BY DEF SnapTypes
<1> QED BY <1>1 DEF RowsOf

\* The order of the stamps survives every step.
LEMMA StampsStep ==
  ASSUME StampInv, [SnapNext]_snapVars
  PROVE  StampInv'
<1>1. SnapTypes' /\ time <= time' /\ (history' = history \/ \E t \in Takes : CreateRow(t))
  BY SnapTypesStep DEF StampInv
<1>2. CASE history' = history
  <2>1. \A i \in DOMAIN history : history[i].at \in Nat
    BY RowsTyped DEF StampInv
  <2> QED BY <1>1, <1>2, <2>1 DEF StampInv, Stamped, SnapTypes
<1>3. ASSUME NEW t \in Takes, CreateRow(t)
      PROVE  StampInv'
  <2> DEFINE n == Len(history) + 1
  <2>1. /\ DOMAIN history' = DOMAIN history \cup {n}
        /\ \A i \in DOMAIN history : i \in Nat /\ i < n /\ history'[i] = history[i]
        /\ history'[n].at = time
        /\ n \in Nat /\ time \in Nat /\ time' = time
    BY <1>3, InsertedRow DEF StampInv, SnapTypes, CreateRow, snapWorld
  <2>2. \A i \in DOMAIN history : history[i].at \in Nat
    BY RowsTyped DEF StampInv
  <2> HIDE DEF n
  <2>3. \A i \in DOMAIN history' : history'[i].at <= time'
    BY <2>1 DEF StampInv, Stamped
  <2>4. ASSUME NEW i \in DOMAIN history', NEW j \in DOMAIN history', i <= j
        PROVE  history'[i].at <= history'[j].at
    <3>1. CASE j = n
      BY <2>1, <2>3, <3>1
    <3>2. CASE j # n
      <4>1. i \in DOMAIN history /\ j \in DOMAIN history
        BY <2>1, <2>4, <3>2
      <4> QED BY <2>1, <2>4, <4>1 DEF StampInv, Stamped
    <3> QED BY <3>1, <3>2
  <2> QED BY <1>1, <2>3, <2>4 DEF StampInv, Stamped
<1> QED BY <1>1, <1>2, <1>3

\* What is annualised is the oldest rated row of the page that is far enough from the
\* newest, and the newest.
LEMMA SpanOf ==
  ASSUME StampInv
  PROVE  ApySpansMinGap
<1> DEFINE page == ServedPage
           n == IF Len(history) < PageRows THEN Len(history) ELSE PageRows
<1>1. Len(history) \in Nat /\ n \in Nat /\ n <= Len(history) /\ DOMAIN history = 1 .. Len(history)
  BY SnapshotterAssumption DEF StampInv, SnapTypes
<1>2. DOMAIN page = 1 .. n /\ (\A i \in 1 .. n : page[i] = history[i]) /\ 1 .. n \subseteq DOMAIN history
  BY <1>1 DEF ServedPage, StampInv, SnapTypes
<1>3. \A i \in DOMAIN history : history[i].at \in Nat
  BY RowsTyped DEF StampInv
<1>4. ValidIn(page) = Rated \cap DOMAIN page
  BY <1>2 DEF ValidIn, Rated
<1> HIDE DEF n
<1> SUFFICES ASSUME UnderlyingApy # NoApy
             PROVE  /\ {UnderlyingApy[1], UnderlyingApy[2]} \subseteq Rated
                    /\ history[UnderlyingApy[2]].at - history[UnderlyingApy[1]].at >= MinGap
                    /\ \A i, j \in Rated \cap DOMAIN page :
                         history[j].at - history[i].at
                           <= history[UnderlyingApy[2]].at - history[UnderlyingApy[1]].at
  BY DEF ApySpansMinGap
<1>5. UnderlyingApy = ApyObservations(page) /\ ApyObservations(page) # NoApy
  BY DEF UnderlyingApy
<1>6. ValidIn(page) # {} /\ FarEnough(page) # {}
  BY <1>5 DEF ApyObservations
<1> DEFINE old == CHOOSE i \in FarEnough(page) : \A j \in FarEnough(page) : i <= j
           new == NewestIn(page)
<1>7. UnderlyingApy[1] = old /\ UnderlyingApy[2] = new
  BY <1>5, <1>6 DEF ApyObservations
<1>8. ValidIn(page) \in SUBSET (1 .. n) /\ FarEnough(page) \in SUBSET (1 .. n)
  BY <1>2 DEF ValidIn, FarEnough
<1>9. new \in ValidIn(page) /\ \A j \in ValidIn(page) : j <= new
  <2>1. \E m \in ValidIn(page) : \A j \in ValidIn(page) : j <= m
    BY <1>1, <1>6, <1>8, EndsExist
  <2> QED BY <2>1 DEF NewestIn
<1>10. old \in FarEnough(page) /\ \A j \in FarEnough(page) : old <= j
  <2>1. \E m \in FarEnough(page) : \A j \in FarEnough(page) : m <= j
    BY <1>1, <1>6, <1>8, EndsExist
  <2> QED BY <2>1
<1>11. old \in ValidIn(page) /\ page[new].at - page[old].at >= MinGap
  BY <1>10 DEF FarEnough
<1>12. \A i \in ValidIn(page) : page[new].at - page[i].at >= MinGap => i \in FarEnough(page)
  BY DEF FarEnough
<1> HIDE DEF old, new, page
<1>13. old \in Rated /\ new \in Rated /\ old \in 1 .. n /\ new \in 1 .. n
  BY <1>2, <1>4, <1>9, <1>11
<1>14. history[new].at - history[old].at >= MinGap
  BY <1>2, <1>11, <1>13
<1>15. ASSUME NEW i \in Rated \cap DOMAIN page, NEW j \in Rated \cap DOMAIN page
       PROVE  history[j].at - history[i].at <= history[new].at - history[old].at
  <2>1. history[j].at <= history[new].at
    BY <1>2, <1>4, <1>9, <1>13 DEF StampInv, Stamped
  <2>2. CASE i \in FarEnough(page)
    <3>1. history[old].at <= history[i].at
      BY <1>2, <1>10, <1>13, <2>2 DEF StampInv, Stamped
    <3> QED BY <1>2, <1>3, <1>13, <2>1, <3>1
  <2>3. CASE i \notin FarEnough(page)
    <3>1. ~ (history[new].at - history[i].at >= MinGap)
      BY <1>2, <1>4, <1>12, <1>13, <2>3
    <3> QED BY <1>2, <1>3, <1>13, <1>14, <2>1, <3>1, SnapshotterAssumption
  <2> QED BY <2>2, <2>3
<1> QED BY <1>7, <1>13, <1>14, <1>15

\* However many snapshots overlap, fail or are refused, the APY of the underlying is
\* annualised over two rates that were read, at least MinGap apart and as far apart as
\* the served page has them.
THEOREM ApySpans == SnapSpec => []ApySpansMinGap
<1>1. SnapInit => StampInv
  <2> SUFFICES ASSUME SnapInit PROVE StampInv
    OBVIOUS
  <2> QED BY SnapshotterAssumption DEF SnapInit, StampInv, SnapTypes, Stamped, NoTake, NoRate
<1>2. StampInv /\ [SnapNext]_snapVars => StampInv'
  BY StampsStep
<1>3. StampInv => ApySpansMinGap
  BY SpanOf
<1> QED BY <1>1, <1>2, <1>3, PTL DEF SnapSpec

-----------------------------------------------------------------------------
(***************************************************************************)
(* The decoder.  The invariant is about the rows alone: the table holds what *)
(* the delivered events are owed, each row once, since its key names event   *)
(* and leg.  The sums follow from it, event by event.                        *)
(***************************************************************************)

\* The events of the contracts.
Emission ==
  [id : Nat, label : Labels, topic : Topics, parties : UNION {Parties(t) : t \in Topics},
   amount : Amounts, wellAddressed : BOOLEAN, fields : UNION {SUBSET Fields(t) : t \in Topics}]

\* The rows an event is owed: none if it is not handled, or throws, or has no table.
RowsFrom(e) ==
  IF Handled(e.topic) /\ Decodable(e) /\ Table(e.topic) = "activities" THEN ActivityRows(e) ELSE {}

\* The table holds the rows of the events delivered, and no others.
Booked ==
  /\ emitted \in Seq(Emission)
  /\ \A i \in DOMAIN emitted : emitted[i].id = i
  /\ delivered \subseteq DOMAIN emitted
  /\ activities = UNION {RowsFrom(emitted[i]) : i \in delivered}

\* The key of a row names its event and its leg, and with them all of the row.
LEMMA KeyTells ==
  ASSUME NEW e, NEW r \in RowsFrom(e)
  PROVE  /\ r.id[1] = e.id /\ r.type[1] = e.label /\ r.amount = e.amount
         /\ \A s \in RowsFrom(e) : s.id = r.id => s = r
         /\ IsFiniteSet(RowsFrom(e))
<1> DEFINE out == ActivityRow(e, "out", e.parties[1])
           in  == ActivityRow(e, "in", e.parties[2])
           all == ActivityRow(e, "", e.parties[1])
<1>1. RowsFrom(e) = {out, in} \/ RowsFrom(e) = {all}
  BY DEF RowsFrom, ActivityRows
<1>2. /\ out.id = <<e.id, "out">> /\ in.id = <<e.id, "in">> /\ all.id = <<e.id, "">>
      /\ out.type[1] = e.label /\ in.type[1] = e.label /\ all.type[1] = e.label
      /\ out.amount = e.amount /\ in.amount = e.amount /\ all.amount = e.amount
  BY DEF ActivityRow
<1> HIDE DEF out, in, all
<1>3. <<e.id, "out">> # <<e.id, "in">> /\ \A leg : <<e.id, leg>>[1] = e.id
  OBVIOUS
<1>4. r.id[1] = e.id /\ r.type[1] = e.label /\ r.amount = e.amount
  BY <1>1, <1>2, <1>3
<1>5. \A s \in RowsFrom(e) : s.id = r.id => s = r
  <2>1. out.id # in.id
    BY <1>2, <1>3
  <2> QED BY <1>1, <2>1
<1>6. IsFiniteSet(RowsFrom(e))
  <2>1. IsFiniteSet({out}) /\ IsFiniteSet({in}) /\ IsFiniteSet({all}) /\ {out, in} = {out} \cup {in}
    BY FS_Singleton
  <2>2. IsFiniteSet({out} \cup {in})
    BY <2>1, FS_Union
  <2> QED BY <1>1, <2>1, <2>2
<1> QED BY <1>4, <1>5, <1>6

\* The rows of a page that are not there yet are those of events not delivered before, all of
\* them: createMany leaves out what exists and nothing else.
LEMMA NewRowsAreMissing ==
  ASSUME Booked, NEW page \in SUBSET DOMAIN emitted, NEW B,
         B = UNION {RowsFrom(emitted[i]) : i \in page}
  PROVE  activities \cup NewRows(B) = activities \cup B
<1>1. ASSUME NEW r \in activities \cup B, NEW s \in activities \cup B, r.id = s.id
      PROVE  r = s
  <2>1. PICK i \in DOMAIN emitted : r \in RowsFrom(emitted[i])
    BY DEF Booked
  <2>2. PICK j \in DOMAIN emitted : s \in RowsFrom(emitted[j])
    BY DEF Booked
  <2>3. r.id[1] = i /\ s.id[1] = j
    BY <2>1, <2>2, KeyTells DEF Booked
  <2>4. i = j
    BY <1>1, <2>3
  <2> QED BY <1>1, <2>1, <2>2, <2>4, KeyTells
<1> DEFINE new == {r \in B : \A s \in activities : s.id # r.id}
<1>2. new = B \ activities
  <2>1. ASSUME NEW r \in B, r \notin activities, NEW s \in activities PROVE s.id # r.id
    BY <1>1, <2>1
  <2> QED BY <2>1
<1>3. NewRows(B) = new
  <2> DEFINE Kept(k) == CHOOSE s \in new : s.id = k
             keys == {r.id : r \in new}
  <2>1. ASSUME NEW r \in new PROVE Kept(r.id) = r
    <3>1. \A s \in new : s.id = r.id => s = r
      BY <1>1
    <3> HIDE DEF new
    <3> QED BY <3>1
  <2>2. NewRows(B) = {Kept(k) : k \in keys}
    BY DEF NewRows
  <2>3. ASSUME NEW k \in keys PROVE \E r \in new : k = r.id
    OBVIOUS
  <2>4. \A r \in new : r.id \in keys
    OBVIOUS
  <2> HIDE DEF new, Kept, keys
  <2>5. \A x : x \in NewRows(B) <=> x \in new
    BY <2>1, <2>2, <2>3, <2>4
  <2>6. NewRows(B) \subseteq new /\ new \subseteq NewRows(B)
    BY <2>5
  <2> QED BY <2>6
<1> HIDE DEF new
<1> QED BY <1>2, <1>3


\* Appending an event changes no row that is there.
LEMMA EmitBooked ==
  ASSUME Booked, NEW label \in Labels, NEW topic \in Topics, NEW amount \in Amounts,
         NEW ok \in {"ok", "address", "data"}, NEW parties \in Parties(topic),
         EmitEvent(label, topic, parties, amount, ok)
  PROVE  Booked'
<1> DEFINE e == [id |-> Len(emitted) + 1, label |-> label, topic |-> topic, parties |-> parties,
                 amount |-> amount, wellAddressed |-> ok # "address",
                 fields |-> IF ok = "data" THEN {} ELSE Fields(topic)]
<1>1. emitted \in Seq(Emission) /\ e.id = Len(emitted) + 1
  BY DEF Booked
<1>2. e \in Emission
  <2>1. (IF ok = "data" THEN {} ELSE Fields(topic)) \in UNION {SUBSET Fields(t) : t \in Topics}
    OBVIOUS
  <2>2. parties \in UNION {Parties(t) : t \in Topics}
    OBVIOUS
  <2>3. Len(emitted) + 1 \in Nat
    BY <1>1
  <2> QED BY <2>1, <2>2, <2>3 DEF Emission
<1>3. emitted' = Append(emitted, e) /\ delivered' = delivered /\ activities' = activities
  BY DEF EmitEvent
<1> HIDE DEF e
<1>4. /\ emitted' \in Seq(Emission)
      /\ DOMAIN emitted' = DOMAIN emitted \cup {Len(emitted) + 1}
      /\ \A i \in DOMAIN emitted : emitted'[i] = emitted[i]
      /\ emitted'[Len(emitted) + 1] = e
  BY <1>1, <1>2, <1>3
<1>5. \A i \in DOMAIN emitted' : emitted'[i].id = i
  BY <1>1, <1>4 DEF Booked
<1>6. \A i \in delivered : RowsFrom(emitted'[i]) = RowsFrom(emitted[i])
  BY <1>4 DEF Booked
<1>7. activities' = UNION {RowsFrom(emitted'[i]) : i \in delivered'}
  BY <1>3, <1>6 DEF Booked
<1> QED BY <1>3, <1>4, <1>5, <1>7 DEF Booked

\* What was delivered once or more often is in the table once.
LEMMA DeliverBooked ==
  ASSUME Booked, NEW i \in DOMAIN emitted, NEW j \in DOMAIN emitted, Deliver(i .. j)
  PROVE  Booked'
<1> DEFINE page == i .. j
           B == PlanPage(page).activities
<1>1. emitted \in Seq(Emission) /\ page \subseteq DOMAIN emitted
  BY DEF Booked
<1>2. /\ activities' = activities \cup NewRows(B)
      /\ delivered' = delivered \cup page /\ emitted' = emitted
  BY DEF Deliver
<1> HIDE DEF page
<1>3. B = UNION {RowsFrom(emitted[k]) : k \in page}
  <2>1. B = UNION {ActivityRows(e) : e \in {x \in {y \in {emitted[k] : k \in page} : Handled(y.topic)} :
                                              Decodable(x) /\ Table(x.topic) = "activities"}}
    BY DEF PlanPage
  <2>2. \A x : x \in B <=> \E k \in page : x \in RowsFrom(emitted[k])
    <3> HIDE DEF B
    <3> QED BY <2>1 DEF RowsFrom
  <2> QED BY <2>2
<1> HIDE DEF B
<1>4. activities' = activities \cup B
  BY <1>1, <1>2, <1>3, NewRowsAreMissing
<1>5. activities' = UNION {RowsFrom(emitted'[k]) : k \in delivered'}
  BY <1>2, <1>3, <1>4 DEF Booked
<1> QED BY <1>1, <1>2, <1>5 DEF Booked

\* The table is right in every state.
LEMMA BookedAlways == DecoderSpec => []Booked
<1>1. DecoderInit => Booked
  BY DEF DecoderInit, Booked
<1>2. Booked /\ [DecoderNext]_decoderVars => Booked'
  <2>1. Booked /\ UNCHANGED decoderVars => Booked'
    BY DEF Booked, decoderVars
  <2>2. Booked /\ DecoderNext => Booked'
    BY EmitBooked, DeliverBooked DEF DecoderNext
  <2> QED BY <2>1, <2>2
<1> QED BY <1>1, <1>2, PTL DEF DecoderSpec

\* The rows an event left an account add up to what the event did to it.
LEMMA RowsTellMovement ==
  ASSUME NEW e, e.amount \in Int, Decodable(e), NEW a,
         NEW f, \A r \in RowsFrom(e) : f[r] = Credited(r)
  PROVE  SumOver(f, {r \in RowsFrom(e) : r.user = a}) = Movement(e, a)
<1> DEFINE out == ActivityRow(e, "out", e.parties[1])
           in  == ActivityRow(e, "in", e.parties[2])
           all == ActivityRow(e, "", e.parties[1])
           mine == {r \in RowsFrom(e) : r.user = a}
           n == e.amount
<1>1. SumOver(f, {}) = 0
  BY SumEmpty
<1>2. ASSUME NEW x, f[x] \in Int PROVE SumOver(f, {x}) = f[x]
  <2> DEFINE S == {x}
  <2>1. IsFiniteSet(S) /\ S \ {x} = {} /\ x \in S /\ \A y \in S : f[y] \in Int
    BY <1>2, FS_Singleton
  <2> HIDE DEF S
  <2>2. SumOver(f, S) = f[x] + SumOver(f, S \ {x})
    BY <2>1, SumAt
  <2>3. SumOver(f, S) = f[x] + 0
    BY <1>1, <2>1, <2>2
  <2> QED BY <1>2, <2>3 DEF S
<1>3. CASE e.topic = "transfer"
  <2>1. RowsFrom(e) = {out, in}
    BY <1>3 DEF RowsFrom, Handled, Required, Table, ActivityRows
  <2>2. /\ out.user = e.parties[1] /\ out.type[3] = "out" /\ out.type[2] = "transfer" /\ out.amount = n
        /\ in.user = e.parties[2] /\ in.type[3] = "in" /\ in.type[2] = "transfer" /\ in.amount = n
        /\ out.type # in.type
    BY <1>3 DEF ActivityRow
  <2>3. Credited(out) = -n /\ Credited(in) = n
    <3> HIDE DEF out, in
    <3> QED BY <2>2 DEF Credited
  <2>4. Movement(e, a) = (IF e.parties[2] = a THEN n ELSE 0) - (IF e.parties[1] = a THEN n ELSE 0)
    BY <1>3 DEF Movement
  <2>5. f[out] = -n /\ f[in] = n /\ out # in
    BY <2>1, <2>2, <2>3
  <2>6. f[out] \in Int /\ f[in] \in Int
    BY <2>5
  <2> HIDE DEF out, in
  <2>7. CASE e.parties[1] = a /\ e.parties[2] = a
    <3>1. mine = {out} \cup {in} /\ {out} \cap {in} = {}
      BY <2>1, <2>2, <2>5, <2>7
    <3>2. IsFiniteSet({out}) /\ IsFiniteSet({in})
      BY FS_Singleton
    <3>3. SumOver(f, {out}) = f[out] /\ SumOver(f, {in}) = f[in]
      BY <1>2, <2>6
    <3>4. SumOver(f, {out} \cup {in}) = f[out] + f[in]
      <4> DEFINE A == {out}
                 B == {in}
      <4>1. /\ IsFiniteSet(A) /\ IsFiniteSet(B) /\ A \cap B = {}
            /\ \A x \in A \cup B : f[x] \in Int
        BY <2>6, <3>1, <3>2
      <4>2. SumOver(f, A) = f[out] /\ SumOver(f, B) = f[in]
        BY <3>3
      <4> HIDE DEF A, B
      <4>3. SumOver(f, A \cup B) = f[out] + f[in]
        BY <4>1, <4>2, SumDisjoint
      <4> QED BY <4>3 DEF A, B
    <3>5. SumOver(f, mine) = 0
      <4>1. f[out] + f[in] = 0
        BY <2>5
      <4> HIDE DEF mine
      <4> QED BY <3>1, <3>4, <4>1
    <3>6. Movement(e, a) = 0
      BY <2>4, <2>7
    <3> QED BY <3>5, <3>6
  <2>8. CASE e.parties[1] = a /\ e.parties[2] # a
    <3>1. mine = {out}
      BY <2>1, <2>2, <2>8
    <3>2. SumOver(f, {out}) = f[out]
      BY <1>2, <2>6
    <3>3. Movement(e, a) = -n
      BY <2>4, <2>8
    <3> QED BY <2>5, <3>1, <3>2, <3>3
  <2>9. CASE e.parties[1] # a /\ e.parties[2] = a
    <3>1. mine = {in}
      BY <2>1, <2>2, <2>9
    <3>2. SumOver(f, {in}) = f[in]
      BY <1>2, <2>6
    <3>3. Movement(e, a) = n
      BY <2>4, <2>9
    <3> QED BY <2>5, <3>1, <3>2, <3>3
  <2>10. CASE e.parties[1] # a /\ e.parties[2] # a
    <3>1. mine = {}
      BY <2>1, <2>2, <2>10
    <3> QED BY <1>1, <2>4, <2>10, <3>1
  <2> QED BY <2>7, <2>8, <2>9, <2>10
<1>4. CASE e.topic # "transfer"
  <2>1. RowsFrom(e) = {all} \/ RowsFrom(e) = {}
    BY <1>4 DEF RowsFrom, ActivityRows
  <2>2. e.topic \in {"mint", "burn"} => RowsFrom(e) = {all}
    BY <1>4 DEF RowsFrom, Handled, Required, Table, ActivityRows
  <2>3. all.user = e.parties[1] /\ all.type[3] = "" /\ all.type[2] = e.topic /\ all.amount = n
    BY DEF ActivityRow
  <2>4. Credited(all) = IF e.topic = "mint" THEN n ELSE IF e.topic = "burn" THEN -n ELSE 0
    <3> HIDE DEF all
    <3> QED BY <2>3 DEF Credited
  <2>5. Movement(e, a) = IF e.parties[1] = a
                         THEN IF e.topic = "mint" THEN n ELSE IF e.topic = "burn" THEN -n ELSE 0
                         ELSE 0
    BY <1>4 DEF Movement
  <2> HIDE DEF all
  <2>6. CASE RowsFrom(e) = {all} /\ e.parties[1] = a
    <3>1. mine = {all} /\ f[all] = Credited(all) /\ Credited(all) \in Int
      <4>1. mine = {all} /\ f[all] = Credited(all)
        BY <2>3, <2>6
      <4> HIDE DEF mine
      <4> QED BY <2>4, <4>1
    <3>2. SumOver(f, {all}) = f[all]
      BY <1>2, <3>1
    <3> QED BY <2>4, <2>5, <2>6, <3>1, <3>2
  <2>7. CASE RowsFrom(e) = {} \/ e.parties[1] # a
    <3>1. mine = {}
      BY <2>1, <2>3, <2>7
    <3>2. Movement(e, a) = 0
      BY <2>2, <2>5, <2>7
    <3> QED BY <1>1, <3>1, <3>2
  <2> QED BY <2>1, <2>6, <2>7
<1> QED BY <1>3, <1>4


\* The rows of an account and a token are those of the events of the token, event by event.
LEMMA RowsAddUp ==
  ASSUME Booked, NEW a \in Accounts, NEW label \in Labels
  PROVE  SumOver([r \in activities |-> Credited(r)],
                 {r \in activities : r.user = a /\ r.type[1] = label})
           = SumOver([i \in delivered |-> Movement(emitted[i], a)],
                     {i \in delivered : emitted[i].label = label /\ Decodable(emitted[i])})
<1> DEFINE f == [r \in activities |-> Credited(r)]
           g == [i \in delivered |-> Movement(emitted[i], a)]
           I == {i \in delivered : emitted[i].label = label /\ Decodable(emitted[i])}
           R == [i \in I |-> {r \in RowsFrom(emitted[i]) : r.user = a}]
           S == {r \in activities : r.user = a /\ r.type[1] = label}
<1>1. IsFiniteSet(I)
  <2>1. emitted \in Seq(Emission) /\ I \in SUBSET (1 .. Len(emitted)) /\ Len(emitted) \in Nat
    BY DEF Booked
  <2> HIDE DEF I
  <2>2. IsFiniteSet(1 .. Len(emitted))
    BY <2>1, FS_Interval
  <2> QED BY <2>1, <2>2, FS_Subset
<1>2. \A i \in delivered : RowsFrom(emitted[i]) \subseteq activities /\ emitted[i].id = i /\ emitted[i].amount \in Int
  <2>1. \A i \in delivered : RowsFrom(emitted[i]) \subseteq activities
    BY DEF Booked
  <2>2. \A i \in delivered : emitted[i] \in Emission /\ emitted[i].id = i
    BY DEF Booked
  <2>3. \A x \in Emission : x.amount \in Int
    <3>1. \A x \in Emission : x.amount \in Amounts
      BY DEF Emission
    <3>2. Amounts \subseteq Int
      BY EventDecoderAssumption
    <3> QED BY <3>1, <3>2
  <2> QED BY <2>1, <2>2, <2>3
<1>3. \A i \in I : i \in delivered /\ Decodable(emitted[i]) /\ emitted[i].label = label
                   /\ R[i] = {r \in RowsFrom(emitted[i]) : r.user = a}
  OBVIOUS
<1>4. S = UNION {R[i] : i \in I}
  <2>1. ASSUME NEW r \in S PROVE \E i \in I : r \in R[i]
    <3>1. PICK i \in delivered : r \in RowsFrom(emitted[i])
      BY DEF Booked
    <3>2. Decodable(emitted[i]) /\ emitted[i].label = r.type[1]
      BY <3>1, KeyTells DEF RowsFrom
    <3>3. r.user = a /\ r.type[1] = label
      OBVIOUS
    <3>4. i \in I
      BY <3>2, <3>3
    <3> QED BY <3>1, <3>3, <3>4
  <2>2. ASSUME NEW i \in I, NEW r \in R[i] PROVE r \in S
    <3>1. r \in RowsFrom(emitted[i]) /\ r.user = a /\ i \in delivered /\ emitted[i].label = label
      BY <1>3
    <3>2. r.type[1] = label /\ r \in activities
      BY <1>2, <3>1, KeyTells
    <3> QED BY <3>1, <3>2
  <2> HIDE DEF S, R, I
  <2>3. S \subseteq UNION {R[i] : i \in I}
    BY <2>1
  <2>4. UNION {R[i] : i \in I} \subseteq S
    BY <2>2
  <2> QED BY <2>3, <2>4
<1>5. \A r \in activities : f[r] = Credited(r)
  OBVIOUS
<1>6. \A i \in I : g[i] = Movement(emitted[i], a)
  OBVIOUS
<1> HIDE DEF f, g, I, R, S
<1>7. \A i \in I : IsFiniteSet(R[i])
  <2> SUFFICES ASSUME NEW i \in I PROVE IsFiniteSet(R[i])
    OBVIOUS
  <2>1. CASE R[i] = {}
    BY <2>1, FS_EmptySet
  <2>2. CASE R[i] # {}
    <3>1. IsFiniteSet(RowsFrom(emitted[i]))
      BY <1>3, <2>2, KeyTells
    <3> QED BY <1>3, <3>1, FS_Subset
  <2> QED BY <2>1, <2>2
<1>8. \A i, j \in I : i # j => R[i] \cap R[j] = {}
  <2> SUFFICES ASSUME NEW i \in I, NEW j \in I, i # j, NEW r \in R[i], r \in R[j] PROVE FALSE
    OBVIOUS
  <2>1. r.id[1] = i
    BY <1>2, <1>3, KeyTells
  <2>2. r.id[1] = j
    BY <1>2, <1>3, KeyTells
  <2> QED BY <2>1, <2>2
<1>9. \A i \in I : \A r \in RowsFrom(emitted[i]) : f[r] = Credited(r)
  BY <1>2, <1>3, <1>5
<1>10. \A i \in I : SumOver(f, R[i]) = g[i]
  <2> SUFFICES ASSUME NEW i \in I PROVE SumOver(f, R[i]) = g[i]
    OBVIOUS
  <2>1. SumOver(f, {r \in RowsFrom(emitted[i]) : r.user = a}) = Movement(emitted[i], a)
    BY <1>2, <1>3, <1>9, RowsTellMovement
  <2> QED BY <1>3, <1>6, <2>1
<1>11. \A i \in I : \A r \in R[i] : f[r] \in Int
  <2> SUFFICES ASSUME NEW i \in I, NEW r \in RowsFrom(emitted[i]) PROVE Credited(r) \in Int
    BY <1>3, <1>9
  <2>1. r.amount = emitted[i].amount
    BY KeyTells
  <2>2. r.amount \in Int
    BY <1>2, <1>3, <2>1
  <2> QED BY <2>2 DEF Credited
<1>12. SumOver(f, UNION {R[i] : i \in I}) = SumOver(g, I)
  BY <1>1, <1>7, <1>8, <1>10, <1>11, SumByParts
<1> QED BY <1>4, <1>12 DEF f, g, I, S

\* For any accounts, tokens, topics and number of events, however often and in whatever pieces
\* pages are delivered and whatever is malformed among them: the rows of a token add up, for each
\* account, to what its events did to the balance.
THEOREM RowsAreTheBalances == DecoderSpec => []RowsTellBalances
<1>1. Booked => RowsTellBalances
  BY RowsAddUp DEF RowsTellBalances
<1> QED BY <1>1, BookedAlways, PTL

=============================================================================
