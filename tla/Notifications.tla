----------------------------- MODULE Notifications -----------------------------
(***************************************************************************)
(* The notification list, which all tabs of the application keep in one item  *)
(* of localStorage. Each tab has a cache of the list it last read, valid as    *)
(* long as the item is what it was; every change reads the list, changes it,    *)
(* and writes it whole. In a tab that is one piece of synchronous code, but     *)
(* tabs are processes of their own and the storage has no lock: each call of    *)
(* it is a step, and other tabs may take theirs between any two.              *)
(***************************************************************************)
EXTENDS Web

CONSTANTS
  Tabs,             \* tabs of the application
  Categories,       \* of notifications
  MaxNotifications, \* the list keeps the newest so many
  MaxAdded,         \* bound on notifications
  MaxDays           \* bound on days

ASSUME NotificationsAssumption ==
  /\ MaxNotifications \in Nat \ {0} /\ MaxAdded \in Nat /\ MaxDays \in Nat
  /\ "yield" \in Categories

VARIABLES
  stored,       \* external: the item, None when it is absent or does not parse
  enabled,      \* external: the categories the preferences do not exclude
  cached,       \* of each tab: the item it read last and the list it made of it
  change,       \* of each tab: the change of the list it is in the middle of
  lastYield,    \* external: the day of the last notice of claimable yield
  day,          \* external: the clock, in days and a little more
  added         \* notifications made

noteVars == <<stored, enabled, cached, change, lastYield, day, added>>

ListOf(raw) == IF raw = None THEN <<>> ELSE raw

\* Variant: a tab that has read the list once goes by its cache.
CacheOfTab(t) == IF cached[t].list = <<>> THEN ListOf(stored) ELSE cached[t].list

\* The cache is used when the item has not changed since.
GetNotifications(t) == IF stored = cached[t].raw THEN cached[t].list ELSE ListOf(stored)

\* A change: first the list is to be saved, then read back, and at the end a notice of
\* yield to be stamped with its day.
NoChange             == [phase |-> "none", list |-> <<>>, notice |-> None]
Saving(list, notice) == [phase |-> "saving", list |-> list, notice |-> notice]
Saved(notice)        == [phase |-> "saved", list |-> <<>>, notice |-> notice]
Stamping(notice)     == [phase |-> "stamping", list |-> <<>>, notice |-> notice]

Resting(t) == change[t].phase = "none"

\* getItem: the tab takes the item into its cache.
TakesIn(t) == cached' = [cached EXCEPT ![t] = [raw |-> stored, list |-> GetNotifications(t)]]

\* The new one in front, as many as the list keeps.
Adds(t, notice) ==
  LET updated == <<[id |-> added, read |-> FALSE]>> \o GetNotifications(t)
  IN /\ added < MaxAdded /\ added' = added + 1
     /\ TakesIn(t)
     /\ change' = [change EXCEPT ![t] =
          Saving(SubSeq(updated, 1, Min2(MaxNotifications, Len(updated))), notice)]

\* A trade, a mint or the network has something to tell, of a category that is not disabled.
AddNotification(t) ==
  /\ Resting(t)
  /\ enabled \ {"yield"} # {}
  /\ Adds(t, None)
  /\ UNCHANGED <<stored, enabled, lastYield, day>>

\* A portfolio with claimable yield tells it when it did not within 24 hours; the time is
\* noted even when the user does not want to hear of yield.
NotifyYield(t) ==
  /\ Resting(t)
  /\ lastYield \in {None} \cup 0..(day - 1)
  /\ IF "yield" \in enabled THEN Adds(t, day)
     ELSE /\ change' = [change EXCEPT ![t] = Stamping(day)]
          /\ UNCHANGED <<cached, added>>
  /\ UNCHANGED <<stored, enabled, lastYield, day>>

MarkAllAsRead(t) ==
  /\ Resting(t)
  /\ TakesIn(t)
  /\ LET current == GetNotifications(t)
     IN change' = [change EXCEPT ![t] =
          Saving([i \in DOMAIN current |-> [current[i] EXCEPT !.read = TRUE]], None)]
  /\ UNCHANGED <<stored, enabled, lastYield, day, added>>

\* setItem, over whatever the item has become.
SaveNotifications(t) ==
  /\ change[t].phase = "saving"
  /\ stored' = change[t].list
  /\ change' = [change EXCEPT ![t] = Saved(@.notice)]
  /\ UNCHANGED <<enabled, cached, lastYield, day, added>>

\* The listeners of the tab that saved read the list back, those of others do not hear.
ReadsBack(t) ==
  /\ change[t].phase = "saved"
  /\ TakesIn(t)
  /\ change' = [change EXCEPT ![t] = IF @.notice = None THEN NoChange ELSE Stamping(@.notice)]
  /\ UNCHANGED <<stored, enabled, lastYield, day, added>>

\* The notice was given, or is not wanted.
StampsYield(t) ==
  /\ change[t].phase = "stamping"
  /\ lastYield' = change[t].notice
  /\ change' = [change EXCEPT ![t] = NoChange]
  /\ UNCHANGED <<stored, enabled, cached, day, added>>

\* Nothing is read first.
ClearAll(t) ==
  /\ Resting(t)
  /\ stored' = <<>>
  /\ change' = [change EXCEPT ![t] = Saved(None)]
  /\ UNCHANGED <<enabled, cached, lastYield, day, added>>

\* A component renders: the tab reads the list.
Renders(t) ==
  /\ Resting(t) /\ stored # cached[t].raw
  /\ TakesIn(t)
  /\ UNCHANGED <<stored, enabled, change, lastYield, day, added>>

\* The settings offer the transactions and the yield.
ToggleNotification ==
  /\ \E category \in Categories \cap {"transaction", "yield"} :
       enabled' = IF category \in enabled THEN enabled \ {category} ELSE enabled \cup {category}
  /\ UNCHANGED <<stored, cached, change, lastYield, day, added>>

\* External: more than 24 hours pass.
DayPasses ==
  /\ day < MaxDays /\ day' = day + 1
  /\ UNCHANGED <<stored, enabled, cached, change, lastYield, added>>

\* A tab that has read nothing takes an absent item for the empty list.
NotesInit ==
  /\ stored = None /\ enabled = Categories
  /\ cached = [t \in Tabs |-> [raw |-> None, list |-> <<>>]]
  /\ change = [t \in Tabs |-> NoChange]
  /\ lastYield = None /\ day = 0 /\ added = 0

NotesNext ==
  \/ \E t \in Tabs :
       \/ AddNotification(t) \/ NotifyYield(t) \/ MarkAllAsRead(t) \/ ClearAll(t)
       \/ SaveNotifications(t) \/ ReadsBack(t) \/ StampsYield(t) \/ Renders(t)
  \/ ToggleNotification \/ DayPasses

NotesSpec == NotesInit /\ [][NotesNext]_noteVars

-----------------------------------------------------------------------------
(***************************************************************************)
(* Properties.                                                             *)
(***************************************************************************)

Ids(list) == [i \in DOMAIN list |-> list[i].id]

\* Every note stays, unless as many newer ones push it out, and one read does not become unread.
Kept(before, after) ==
  \/ Ids(after) = Ids(before) /\ \A i \in DOMAIN after : before[i].read => after[i].read
  \/ /\ Len(after) = Min2(MaxNotifications, Len(before) + 1)
     /\ Tail(after) = SubSeq(before, 1, Len(after) - 1)

\* Tabs write the whole list over one another's, each from what it read, or from what it
\* cached when the item looks unchanged. What a save loses it loses to a race alone: when the item
\* is still the one this tab read, however many tabs have written it, cleared it or written it
\* back before, all it held stays.
LostToRacesOnly ==
  [][\A t \in Tabs :
       SaveNotifications(t) /\ stored = cached[t].raw => Kept(ListOf(stored), ListOf(stored'))]_noteVars
=============================================================================
