---------------------------- MODULE MarketJournal ----------------------------
(***************************************************************************)
(* MarketJournal                                                           *)
(*   .../modules/snapshots/market-journal.ts    marketChanges()            *)
(*                                                                         *)
(* What changed from one batch of a scope to the next.  A batch is a       *)
(* function from its events to functions from their markets to what was    *)
(* observed: whether the market was suspended ("yes", "no" or "unknown")   *)
(* and the odds of each selection.  A change says what it is about and     *)
(* what the later batch says of that.                                      *)
(***************************************************************************)
EXTENDS FiniteSets, Functions

IsBatch(batch) ==
  /\ batch = [e \in DOMAIN batch |-> batch[e]]
  /\ \A e \in DOMAIN batch :
       /\ batch[e] = [m \in DOMAIN batch[e] |-> batch[e][m]]
       /\ \A m \in DOMAIN batch[e] :
            LET seen == batch[e][m] IN
            /\ seen = [suspended |-> seen.suspended,
                       odds |-> [s \in DOMAIN seen.odds |-> seen.odds[s]]]
            /\ seen.suspended \in {"yes", "no", "unknown"}

AboutEvent(type, e) == [type |-> type, event |-> e]
AboutMarket(type, e, m) == [type |-> type, event |-> e, market |-> m]

Events(before, after, complete) ==
  {[type |-> "EventAdded", event |-> e, markets |-> after[e]] :
     e \in DOMAIN after \ DOMAIN before}
  \union {AboutEvent("EventRemoved", e) :
            e \in IF complete THEN DOMAIN before \ DOMAIN after ELSE {}}

Coverage(old, new, e, complete) ==
  {[type |-> "MarketAdded", event |-> e, market |-> m, content |-> new[m]] :
     m \in DOMAIN new \ DOMAIN old}
  \union {AboutMarket("MarketRemoved", e, m) :
            m \in IF complete THEN DOMAIN old \ DOMAIN new ELSE {}}

\* Only a known state that turns into the other known one is a change.
Suspension(old, new, e) ==
  LET turned(from, to) == {m \in DOMAIN old \intersect DOMAIN new :
                             old[m].suspended = from /\ new[m].suspended = to}
  IN {AboutMarket("MarketSuspended", e, m) : m \in turned("no", "yes")}
     \union {AboutMarket("MarketReopened", e, m) : m \in turned("yes", "no")}

Moved_Rising(old, new) ==
  {s \in DOMAIN old \intersect DOMAIN new : old[s] < new[s]}

\* The selections of both observations whose odds differ.  A selection's number
\* stands for all the code compares of it: its odds, its line and its market's.
Moved(old, new) == {s \in DOMAIN old \intersect DOMAIN new : old[s] # new[s]}

OddsChanges(old, new, e) ==
  UNION {{[type |-> "OddsChanged", event |-> e, market |-> m, selection |-> s,
           odds |-> new[m].odds[s]] : s \in Moved(old[m].odds, new[m].odds)} :
         m \in DOMAIN old \intersect DOMAIN new}

MarketChanges(before, after, complete) ==
  Events(before, after, complete) \union
  UNION {LET old == IF e \in DOMAIN before THEN before[e] ELSE << >>
             new == after[e]
         IN Coverage(old, new, e, complete) \union Suspension(old, new, e)
            \union OddsChanges(old, new, e) : e \in DOMAIN after}

-----------------------------------------------------------------------------
(* The reference: what a reader of the changes makes of the batch before.  *)

OfType(changes, type) == {c \in changes : c.type = type}

ReplayedMarket(market, changes, e, m) ==
  LET quoted(s) == {c \in OfType(changes, "OddsChanged") :
                      c.event = e /\ c.market = m /\ c.selection = s}
  IN [suspended |->
        IF AboutMarket("MarketSuspended", e, m) \in changes THEN "yes"
        ELSE IF AboutMarket("MarketReopened", e, m) \in changes THEN "no"
        ELSE market.suspended,
      odds |-> [s \in DOMAIN market.odds |->
                  IF quoted(s) = {} THEN market.odds[s]
                  ELSE (CHOOSE c \in quoted(s) : TRUE).odds]]

ReplayedEvent(markets, changes, e) ==
  LET added == {c \in OfType(changes, "MarketAdded") : c.event = e}
      kept == {m \in DOMAIN markets : AboutMarket("MarketRemoved", e, m) \notin changes}
  IN [m \in kept \union {c.market : c \in added} |->
        IF m \in kept THEN ReplayedMarket(markets[m], changes, e, m)
        ELSE (CHOOSE c \in added : c.market = m).content]

Replayed(before, changes) ==
  LET added == OfType(changes, "EventAdded")
      kept == {e \in DOMAIN before : AboutEvent("EventRemoved", e) \notin changes}
  IN [e \in kept \union {c.event : c \in added} |->
        IF e \in kept THEN ReplayedEvent(before[e], changes, e)
        ELSE (CHOOSE c \in added : c.event = e).markets]

\* What the changes leave untold: a market that goes to or from an unknown
\* state, and a selection that joins or leaves a market that stays.
Told(before, after) ==
  \A e \in DOMAIN before \intersect DOMAIN after :
    \A m \in DOMAIN before[e] \intersect DOMAIN after[e] :
      LET old == before[e][m] new == after[e][m] IN
      /\ old.suspended = new.suspended \/ "unknown" \notin {old.suspended, new.suspended}
      /\ DOMAIN old.odds = DOMAIN new.odds
=============================================================================
