----------------------------- MODULE EventDecoder -----------------------------
(***************************************************************************)
(* What the indexer makes of contract events: planEvent turns an event into  *)
(* rows of a batch, flushBatch inserts the batch, skipping rows that exist.   *)
(* The interleaving of polls is the subject of Indexer; here a page is any    *)
(* stretch of the emitted events, delivered any number of times, and the        *)
(* question is whether the rows tell what happened to the tokens.            *)
(***************************************************************************)
EXTENDS Sequences, Ledgers

CONSTANTS
  Accounts,
  Labels,     \* the token contracts, by the label the indexer gives them
  Amounts,    \* amounts of token movements
  Topics,     \* topics of the events the contracts emit in this instance
  MaxEmitted   \* bound on the events emitted

ASSUME EventDecoderAssumption == Amounts \subseteq Nat \ {0} /\ MaxEmitted \in Nat

VARIABLES
  emitted,       \* external: the events, in order
  delivered,   \* the events in pages whose flush was committed
  users,       \* table User
  activities   \* table Activity

decoderVars == <<emitted, delivered, users, activities>>

\* external: the topics of an event after its name, and its data fields.
Parties(topic) ==
  CASE topic = "transfer" -> Accounts \X Accounts
    [] OTHER              -> {<<a>> : a \in Accounts}

Fields(topic) ==
  CASE topic \in {"deposit", "redeem"}      -> {"underlying_amount"}
    [] topic = "split"                      -> {"sy_amount", "face"}
    [] topic = "recombine"                  -> {"pt_amount", "yt_amount", "sy_out"}
    [] topic = "redeem_at_maturity"         -> {"pt_amount", "sy_out"}
    [] topic = "claim_yield"                -> {"sy_out"}
    [] topic \in {"mint", "burn", "transfer"} -> {"amount"}
    [] topic = "swap"                       -> {"amount_in", "amount_out"}
    [] topic = "add_liquidity"              -> {"pt_in", "sy_in", "lp_out"}
    [] topic = "remove_liquidity"           -> {"lp_in", "pt_out", "sy_out"}
    [] OTHER                                -> {}

-----------------------------------------------------------------------------
(***************************************************************************)
(* planEvent.                                                              *)
(***************************************************************************)

\* The fields planEvent requires: the amount of the row, and for a trade both.
Required(topic) ==
  CASE topic \in {"deposit", "redeem"}      -> {"underlying_amount"}
    [] topic = "split"                      -> {"face"}
    [] topic \in {"recombine", "claim_yield"} -> {"sy_out"}
    [] topic = "redeem_at_maturity"         -> {"pt_amount"}
    [] topic \in {"mint", "burn", "transfer"} -> {"amount"}
    [] topic = "swap"                       -> {"amount_in", "amount_out"}
    [] topic = "add_liquidity"              -> {"lp_out"}
    [] topic = "remove_liquidity"           -> {"lp_in"}
    [] OTHER                                -> {}

Handled(topic) == Required(topic) # {}

Table(topic) ==
  CASE topic = "swap"        -> "trades"
    [] topic = "claim_yield" -> "yieldClaims"
    [] OTHER                 -> "activities"

\* requireHolder, the check of both parties of a transfer, requireAmount.
Decodable(e) == e.wellAddressed /\ Required(e.topic) \subseteq e.fields

ActivityRow(e, leg, user) ==
  [id |-> <<e.id, leg>>, type |-> <<e.label, e.topic, leg>>, user |-> user, amount |-> e.amount]

\* Variant: the legs of a transfer share the id of the event.
ActivityRowsSharedId(e) ==
  IF e.topic = "transfer"
  THEN {[ActivityRow(e, "out", e.parties[1]) EXCEPT !.id = <<e.id, "">>],
        [ActivityRow(e, "in", e.parties[2]) EXCEPT !.id = <<e.id, "">>]}
  ELSE {ActivityRow(e, "", e.parties[1])}

\* One row per event, two for a transfer.
ActivityRows(e) ==
  IF e.topic = "transfer"
  THEN {ActivityRow(e, "out", e.parties[1]), ActivityRow(e, "in", e.parties[2])}
  ELSE {ActivityRow(e, "", e.parties[1])}

\* The users a batch gets from an event: they are added before the amount is
\* looked for, so an event without it still leaves its holder behind, except for
\* a transfer, where the amount comes first.
UsersOf(e) ==
  IF ~e.wellAddressed \/ (e.topic = "transfer" /\ ~Decodable(e)) THEN {}
  ELSE {e.parties[i] : i \in DOMAIN e.parties}

\* The batch of a page: events of unknown topics are ignored, those that throw skipped.
PlanPage(page) ==
  LET seen == {e \in {emitted[i] : i \in page} : Handled(e.topic)}
      good(table) == {e \in seen : Decodable(e) /\ Table(e.topic) = table}
  IN [users      |-> UNION {UsersOf(e) : e \in seen},
      activities |-> UNION {ActivityRows(e) : e \in good("activities")},
      other      |-> good("trades") \cup good("yieldClaims")]

-----------------------------------------------------------------------------
DecoderInit ==
  /\ emitted = <<>>
  /\ delivered = {}
  /\ users = {}
  /\ activities = {}

\* A contract emits an event; `ok` tells a well-formed one from one with a bad
\* address or without its data.
EmitEvent(label, topic, parties, amount, ok) ==
  /\ Len(emitted) < MaxEmitted
  /\ emitted' = Append(emitted,
       [id |-> Len(emitted) + 1, label |-> label, topic |-> topic, parties |-> parties,
        amount |-> amount, wellAddressed |-> ok # "address",
        fields |-> IF ok = "data" THEN {} ELSE Fields(topic)])
  /\ UNCHANGED <<delivered, users, activities>>

\* createMany with skipDuplicates, on the primary key; of two new rows with one key
\* the first is kept.
NewRows(rows) ==
  LET new == {r \in rows : \A s \in activities : s.id # r.id} IN
  {CHOOSE r \in new : r.id = k : k \in {r.id : r \in new}}

\* A page is planned and flushed in one transaction, users before their rows.  The
\* schema has no table for trades and claims: a batch that holds one throws.
Deliver(page) ==
  LET batch == PlanPage(page) IN
  /\ batch.other = {}
  /\ users' = users \cup batch.users
  /\ activities' = activities \cup NewRows(batch.activities)
  /\ delivered' = delivered \cup page
  /\ UNCHANGED emitted

DecoderNext ==
  \/ \E label \in Labels, topic \in Topics, amount \in Amounts, ok \in {"ok", "address", "data"} :
       \E parties \in Parties(topic) : EmitEvent(label, topic, parties, amount, ok)
  \/ \E i, j \in DOMAIN emitted : Deliver(i .. j)

DecoderSpec == DecoderInit /\ [][DecoderNext]_decoderVars

-----------------------------------------------------------------------------
(***************************************************************************)
(* Properties.                                                             *)
(***************************************************************************)
\* external: what an event does to an account's balance of the token that emitted it.
Movement(e, a) ==
  CASE e.topic = "mint" /\ e.parties[1] = a -> e.amount
    [] e.topic = "burn" /\ e.parties[1] = a -> -e.amount
    [] e.topic = "transfer" -> (IF e.parties[2] = a THEN e.amount ELSE 0)
                               - (IF e.parties[1] = a THEN e.amount ELSE 0)
    [] OTHER -> 0

Credited(r) ==
  CASE r.type[2] = "mint" \/ r.type[3] = "in"  -> r.amount
    [] r.type[2] = "burn" \/ r.type[3] = "out" -> -r.amount
    [] OTHER -> 0

\* The rows of a token add up to what its events did to each account, however
\* often pages were delivered, wherever they overlapped and whatever was
\* malformed among them ("a re-delivered event never double-writes", "one bad
\* event can't poison a bulk flush").
RowsTellBalances ==
  \A a \in Accounts, label \in Labels :
    SumOver([r \in activities |-> Credited(r)],
            {r \in activities : r.user = a /\ r.type[1] = label})
      = SumOver([i \in delivered |-> Movement(emitted[i], a)],
                {i \in delivered : emitted[i].label = label /\ Decodable(emitted[i])})

=============================================================================
