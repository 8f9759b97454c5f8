---------------------------- MODULE MonitorReads ----------------------------
(***************************************************************************)
(* MonitorReads                                                            *)
(*   .../modules/monitor/monitor.service.ts      events(), detail(),       *)
(*                                               overview(), provider()    *)
(*   .../persistence/repositories/monitor.repository.ts  what they query   *)
(*   .../modules/monitor/data-health.ts          assessDataHealth()        *)
(*                                                                         *)
(* The GETs of the monitor.  Each is a handful of queries with awaits      *)
(* between them and no transaction around them: while one is under way,    *)
(* providers publish and time passes.  A findMany that selects relations   *)
(* is itself a query per relation, each after the one before.  A request   *)
(* collects the result of each query in `got`; when it has them all it is  *)
(* rendered, at the time it then is.                                       *)
(*                                                                         *)
(* The world is one game, which every provider may list as one event with  *)
(* the markets Market, all of one category, map, period and line; and one  *)
(* other event per provider, of another game, that keeps the provider      *)
(* fresh.  Canonical identities that disagree (MatchReconcile), filters,   *)
(* paging, texts, the counts of issues shown, raw data and history are     *)
(* left out.  Time 0 is "never".                                           *)
(***************************************************************************)
EXTENDS MarketAnalytics

CONSTANTS
  Provider,       \* numbers, in the order of their names
  Market,         \* the winner markets an event may have
  Selection,      \* identifiers of selections
  SideOf,         \* SideOf[s]: the team selection s names
  Content,        \* what a publication may say of the event
  Opening,        \* what each provider may have published at time 1,
  Unpublished,    \* or nothing
  Confidence,     \* of the rule that matched the game, in percent
  Significant,    \* how many incomplete events count: 3 in the code
  TTL, MaxNow, MaxPublications

\* A publication says whether play goes on, and of each market whether it is
\* open and at most two prices: the parsers refuse a winner with more.
Play == {"open", "live", "suspended"}
Publishable(o) ==
  /\ o.play \in Play
  /\ DOMAIN o.markets \subseteq Market
  /\ \A m \in DOMAIN o.markets :
       /\ o.markets[m].play \in Play
       /\ DOMAIN o.markets[m].odds \subseteq Selection
       /\ Cardinality(DOMAIN o.markets[m].odds) <= 2
       /\ \A s \in DOMAIN o.markets[m].odds : o.markets[m].odds[s] \in Nat

ASSUME MonitorReadsAssumption ==
  /\ Provider \subseteq Nat /\ Provider # {} /\ IsFiniteSet(Provider)
  /\ IsFiniteSet(Selection) /\ SideOf \in [Selection -> Side]
  /\ \A o \in Content : Publishable(o)
  /\ \A first \in Opening : \A p \in Provider :
       first[p] # Unpublished => Publishable(first[p])
  /\ Significant \in Nat
  /\ TTL \in Nat /\ MaxNow \in Nat /\ MaxPublications \in Nat

VARIABLES
  now,
  db,         \* what PostgreSQL holds
  request,    \* the GET under way and what its queries returned
  published,  \* bounds the publications
  \* History, read by the properties only.
  offered,    \* offered[p]: what p ever published of the event
  overtaken,  \* the providers that published the event after the request
              \* read its markets and before it read its prices
  moments     \* what the database said of the sources, at each moment since
              \* the overview under way was asked

vars == <<now, db, request, published, offered, overtaken, moments>>

Stale(at) == at = 0 \/ now - at > TTL

-----------------------------------------------------------------------------
(* What a publication does to the rows. *)

Unlisted == [listed |-> FALSE, play |-> "open", at |-> 0]
Unseen == [play |-> "open", at |-> 0, selections |-> << >>]

\* What a price is published as: a suspended event suspends its markets.
PriceState(o, m) == IF o.play = "suspended" THEN "suspended" ELSE o.markets[m].play

Incomplete(o) ==
  {m \in DOMAIN o.markets :
     Cardinality({s \in DOMAIN o.markets[m].odds : o.markets[m].odds[s] > 100}) < 2}

\* catalog.write(): the event, its markets with their selections and prices,
\* and the issues of the markets it speaks of.  Only a list lists the event.
\* Rows of selections that are no longer offered stay.
Written(d, kind, p, o, at) ==
  [d EXCEPT
     !.event[p] = [listed |-> kind = "list" \/ @.listed, play |-> o.play, at |-> at],
     !.list[p] = IF kind = "list" THEN [at |-> at, prematch |-> o.play # "live"] ELSE @,
     !.updated[p] = at,
     !.market[p] = [m \in Market |->
        IF m \notin DOMAIN o.markets THEN @[m]
        ELSE [play |-> o.markets[m].play, at |-> at,
              selections |->
                [s \in DOMAIN o.markets[m].odds \union DOMAIN @[m].selections |->
                   IF s \in DOMAIN o.markets[m].odds
                   THEN [odds |-> o.markets[m].odds[s], at |-> at, play |-> PriceState(o, m)]
                   ELSE @[m].selections[s]]]],
     !.incomplete[p] = (@ \ DOMAIN o.markets) \union Incomplete(o),
     !.batch[p] = IF DOMAIN o.markets = {} THEN @
                  ELSE [m \in DOMAIN o.markets |-> DOMAIN o.markets[m].odds]]

\* matching.reconcile(), for one game, over the lists that are fresh: two or
\* more that name it before its start share a canonical event, others that
\* name it are unmatched.  Where fewer than two lists are fresh nothing is
\* comparable, and there and outside the fresh lists rows keep what they have.
Reconciled(d) ==
  LET fresh == {p \in Provider : ~Stale(d.list[p].at)}
      named == {p \in fresh : d.event[p].listed}
      prematch == {p \in named : d.list[p].prematch}
  IN IF Cardinality(fresh) < 2 THEN d
     ELSE [d EXCEPT !.linked =
             (@ \ named) \union IF Cardinality(prematch) >= 2 THEN prematch ELSE {}]

Prices(o, m) == {[side |-> SideOf[s], odds |-> o.markets[m].odds[s]] :
                   s \in DOMAIN o.markets[m].odds}

Offers(o, at) == {[at |-> at, open |-> PriceState(o, m) = "open",
                   prices |-> Prices(o, m)] : m \in DOMAIN o.markets}

Empty ==
  [event |-> [p \in Provider |-> Unlisted],
   list |-> [p \in Provider |-> [at |-> 0, prematch |-> FALSE]],
   updated |-> [p \in Provider |-> 0],
   others |-> [p \in Provider |-> 0],
   market |-> [p \in Provider |-> [m \in Market |-> Unseen]],
   incomplete |-> [p \in Provider |-> {}],
   batch |-> [p \in Provider |-> << >>],
   linked |-> {}]

NoRequest == [kind |-> "none", got |-> << >>]

\* The rows after the first list of each provider, if it published one.
Opened(first) ==
  LET after(p) == IF first[p] = Unpublished THEN Empty
                  ELSE Written(Empty, "list", p, first[p], 1)
  IN [event |-> [p \in Provider |-> after(p).event[p]],
      list |-> [p \in Provider |-> after(p).list[p]],
      updated |-> [p \in Provider |-> after(p).updated[p]],
      others |-> Empty.others,
      market |-> [p \in Provider |-> after(p).market[p]],
      incomplete |-> [p \in Provider |-> after(p).incomplete[p]],
      batch |-> [p \in Provider |-> after(p).batch[p]],
      linked |-> {}]

Init ==
  /\ now = 1 /\ published = 0
  /\ request = NoRequest /\ overtaken = {} /\ moments = {}
  /\ \E first \in Opening :
       /\ db = Reconciled(Opened(first))
       /\ offered = [p \in Provider |->
                       IF first[p] = Unpublished THEN {} ELSE Offers(first[p], 1)]

Tick ==
  /\ now < MaxNow
  /\ now' = now + 1
  /\ UNCHANGED <<db, request, published, offered, overtaken>>

Publishes == published < MaxPublications /\ published' = published + 1

\* Between the queries for the markets and for the prices.
ReadingMarkets == "markets" \in DOMAIN request.got /\ "prices" \notin DOMAIN request.got

\* A listing or a detail of the event, with the batch of its markets or
\* without.  A detail is of an event a list named before.
Publish(p, kind, o) ==
  /\ Publishes
  /\ db.event[p].at < now
  /\ kind = "detail" => db.event[p].at # 0
  /\ db' = Reconciled(Written(db, kind, p, o, now))
  /\ offered' = [offered EXCEPT ![p] = @ \union Offers(o, now)]
  /\ overtaken' = IF ReadingMarkets THEN overtaken \union {p} ELSE overtaken
  /\ UNCHANGED <<now, request>>

\* A publication of the provider's other game.
PublishOther(p) ==
  /\ Publishes
  /\ db.updated[p] < now
  /\ db' = Reconciled([db EXCEPT !.others[p] = 1, !.updated[p] = now])
  /\ UNCHANGED <<now, request, offered, overtaken>>

\* A listing of the event's own scope that names the event no more, but
\* another: removed().
Withdraw(p) ==
  /\ Publishes
  /\ db.event[p].listed /\ db.event[p].at < now
  /\ db' = Reconciled([db EXCEPT !.event[p].listed = FALSE,
                                 !.list[p] = [at |-> now, prematch |-> FALSE],
                                 !.others[p] = 1, !.updated[p] = now])
  /\ UNCHANGED <<now, request, offered, overtaken>>

-----------------------------------------------------------------------------
(* The queries. *)

EventCount(p) == db.others[p] + IF db.event[p].listed THEN 1 ELSE 0

\* providers(): the status of each, here without a scheduler of its own.
ProviderStates ==
  [p \in Provider |->
     [stale |-> Stale(db.updated[p]), count |-> EventCount(p),
      status |-> IF db.updated[p] = 0 THEN "unavailable"
                 ELSE IF Stale(db.updated[p]) THEN "stale" ELSE "healthy"]]

\* expectedProviders()
Expected ==
  {p \in Provider : LET state == ProviderStates[p] IN
     state.status = "healthy" /\ state.count > 0 /\ ~state.stale}

\* groupSql over the members of one group, NoGroup when HAVING drops it.
NoGroup == [members |-> {}, canonical |-> FALSE, status |-> "none", count |-> 0]
Grouped(members, canonical, expected) ==
  LET counted == {p \in members : p \in expected /\ ~Stale(db.event[p].at)}
      status ==
        CASE Cardinality(expected) < 2 -> "not_applicable"
          [] Cardinality(expected) >= 2 /\ Cardinality(counted) < 2 -> "unmatched"
          [] Cardinality(counted) >= 2 /\ Cardinality(counted) < Cardinality(expected)
             -> "partial"
          [] OTHER -> "matched"
  IN IF counted = {} THEN NoGroup
     ELSE [members |-> members, canonical |-> canonical, status |-> status,
           count |-> Cardinality(counted)]

\* The canonical event; includeRemoved when it is asked for by its id.
CanonicalGroup(expected, includeRemoved) ==
  Grouped({p \in db.linked : includeRemoved \/ db.event[p].listed}, TRUE, expected)

\* How many groups have each status: summary().
Summary(expected) ==
  LET lone == {p \in Provider \ db.linked : db.event[p].listed}
      groups == {CanonicalGroup(expected, FALSE)}
                \union {Grouped({p}, FALSE, expected) : p \in lone}
  IN {g \in groups : g # NoGroup}

\* members() makes two queries of its own, the events and the latest batches,
\* and the first is followed by one for the markets of the events, one for
\* the selections of the markets and one for the prices of the selections;
\* healthIssues() reads the issues and then the matches of their events.
Queries(kind) ==
  CASE kind \in {"events", "detail"} ->
         {"expected", "group", "eligible", "rows", "markets", "selections",
          "prices", "batches"}
    [] kind = "overview" -> {"providers", "expected", "summary", "issues", "links"}
    [] OTHER -> {}

\* What must have been read before each.
Earlier(kind, query) ==
  CASE query = "group" -> {"expected"}
    [] query = "eligible" ->
         {"group"} \union IF kind = "detail" THEN {"prices", "batches"} ELSE {}
    [] query \in {"rows", "batches"} ->
         {"group"} \union IF kind = "events" THEN {"eligible"} ELSE {}
    [] query = "markets" -> {"rows"}
    [] query = "selections" -> {"markets"}
    [] query = "prices" -> {"selections"}
    [] query = "expected" -> IF kind = "overview" THEN {"providers"} ELSE {}
    [] query \in {"summary", "issues"} -> {"expected"}
    [] query = "links" -> {"issues"}
    [] OTHER -> {}

Result(query) ==
  CASE query \in {"expected", "eligible"} -> Expected
    [] query = "group" -> CanonicalGroup(request.got.expected, request.kind = "detail")
    [] query = "rows" -> db.event
    [] query = "markets" ->
         [p \in Provider |-> [m \in Market |->
            [play |-> db.market[p][m].play, at |-> db.market[p][m].at]]]
    [] query = "selections" ->
         [p \in Provider |-> [m \in Market |->
            [s \in DOMAIN db.market[p][m].selections |-> db.market[p][m].selections[s].at]]]
    [] query = "prices" ->
         [p \in Provider |-> [m \in Market |->
            [s \in DOMAIN request.got.selections[p][m] |-> db.market[p][m].selections[s]]]]
    [] query = "batches" -> db.batch
    [] query = "providers" -> ProviderStates
    [] query = "summary" -> Summary(request.got.expected)
    [] query = "issues" -> {p \in Provider : db.incomplete[p] # {}}
    [] query = "links" -> db.linked

\* A detail of what has no group is answered 404 at once.
NotFound == /\ "group" \in DOMAIN request.got
            /\ request.got.group = NoGroup

Ask(kind) ==
  /\ request = NoRequest
  /\ request' = [kind |-> kind, got |-> << >>]
  /\ UNCHANGED <<now, db, published, offered, overtaken>>

Read(query) ==
  /\ query \in Queries(request.kind) \ DOMAIN request.got
  /\ Earlier(request.kind, query) \subseteq DOMAIN request.got
  /\ ~NotFound
  /\ request' = [request EXCEPT !.got =
       [q \in DOMAIN @ \union {query} |-> IF q = query THEN Result(q) ELSE @[q]]]
  /\ UNCHANGED <<now, db, published, offered, overtaken>>

Complete(kinds) ==
  /\ request.kind \in kinds
  /\ DOMAIN request.got = Queries(request.kind)

Answer ==
  /\ request # NoRequest
  /\ Complete({request.kind}) \/ NotFound
  /\ request' = NoRequest /\ overtaken' = {}
  /\ UNCHANGED <<now, db, published, offered>>

\* What the database says of the sources at a moment: two providers, or all,
\* are without data; some provider is, or its data is old; many listings of the
\* event have an incomplete market.
WithoutData(p) == db.updated[p] = 0 \/ EventCount(p) = 0
Moment ==
  [lost |-> \/ Cardinality({p \in Provider : WithoutData(p)}) >= 2
            \/ \A p \in Provider : WithoutData(p),
   troubled |-> \E p \in Provider : WithoutData(p) \/ Stale(db.updated[p]),
   many |-> Cardinality({p \in Provider : db.incomplete[p] # {}}) >= Significant]

\* The moments of an overview, from the one it is asked at.
Witnessed ==
  moments' = IF request'.kind = "overview" THEN moments \union {Moment'} ELSE {}

Next ==
  /\ \/ Tick
     \/ \E p \in Provider :
          \/ \E o \in Content, kind \in {"list", "detail"} : Publish(p, kind, o)
          \/ PublishOther(p)
          \/ Withdraw(p)
     \/ \E kind \in {"events", "detail", "overview"} : Ask(kind)
     \/ \E query \in Queries(request.kind) : Read(query)
     \/ Answer
  /\ Witnessed

Spec == Init /\ [][Next]_vars

-----------------------------------------------------------------------------
(* provider(): what a row is rendered to. *)

ValidSelections_Any(market, selections, prices, ids) ==
  {s \in ids \intersect DOMAIN selections : prices[s].odds > 100}

\* The selections of the latest batch.  A row left over from an earlier
\* observation is older than its market.
ValidSelections(market, selections, prices, ids) ==
  {s \in ids \intersect DOMAIN selections :
     /\ selections[s] >= market.at /\ prices[s].at >= market.at
     /\ prices[s].odds > 100}

MarketStatus(market, selections, prices, ids) ==
  IF Stale(market.at) THEN "stale"
  ELSE IF Cardinality(ValidSelections(market, selections, prices, ids)) < 2
  THEN "incomplete"
  ELSE IF market.play = "open" THEN "healthy" ELSE market.play

SelectionStatus(market, price) ==
  IF Stale(market.at) \/ Stale(price.at) THEN "stale"
  ELSE IF "suspended" \in {market.play, price.play} THEN "suspended"
  ELSE IF price.play = "open" THEN "healthy" ELSE price.play

RenderedMarket(market, selections, prices, ids) ==
  [status |-> MarketStatus(market, selections, prices, ids),
   selections |-> {[id |-> s, side |-> SideOf[s], odds |-> prices[s].odds,
                    status |-> SelectionStatus(market, prices[s])] :
                     s \in ids \intersect DOMAIN selections}]

EventStatus(event) ==
  IF ~event.listed THEN "removed"
  ELSE IF event.play # "open" THEN event.play
  ELSE IF Stale(event.at) THEN "stale" ELSE "healthy"

Rendered(p) ==
  LET got == request.got
      present == {m \in DOMAIN got.batches[p] : got.markets[p][m].at # 0}
  IN [active |-> TRUE,
      status |-> EventStatus(got.rows[p]),
      markets |-> {RenderedMarket(got.markets[p][m], got.selections[p][m],
                                  got.prices[p][m], got.batches[p][m]) : m \in present}]

\* The analytics of the response: the members of the group that are still
\* eligible.
Analytics ==
  LET group == request.got.group
      compared == group.members \intersect request.got.eligible
  IN AnalyzeMarkets(group.canonical, group.status, Confidence,
                    [p \in compared |-> Rendered(p)])

-----------------------------------------------------------------------------
(* assessDataHealth(), with the issues this code opens, none systemic. *)

DataHealth_OfExpected(providers, incomplete, events) ==
  LET down == Provider \ request.got.expected
  IN IF Cardinality(down) >= 2 \/ down = Provider THEN "critical"
     ELSE IF down # {} \/ Cardinality(incomplete) >= Significant THEN "degraded"
     ELSE "healthy"

DataHealth(providers, incomplete, events) ==
  LET down == {p \in Provider : providers[p].status = "unavailable"
                                \/ providers[p].count = 0}
      problems == {p \in Provider : providers[p].stale
                                    \/ providers[p].status # "healthy"} \union down
      significant == /\ Cardinality(incomplete) >= Significant
                     /\ 10 * Cardinality(incomplete) >= events
  IN IF Cardinality(down) >= 2 \/ down = Provider THEN "critical"
     ELSE IF problems # {} \/ significant THEN "degraded" ELSE "healthy"

\* The events with an open MARKET_INCOMPLETE issue.  Linked rows are one
\* event, 0.
IncompleteEvents ==
  {IF p \in request.got.links THEN 0 ELSE p : p \in request.got.issues}

Health ==
  DataHealth(request.got.providers, IncompleteEvents,
             Cardinality(request.got.summary))

-----------------------------------------------------------------------------
(* Properties of the responses. *)

\* Whatever is published or expires while the queries are made, each price a
\* provider is compared with was offered by it, open and not older than the TTL
\* when the response is made; and unless it published the event between two of
\* the queries its prices are read with, the two were one offer.
ComparedPricesWereOffered ==
  Complete({"events", "detail"}) =>
    LET books == Analytics.books
        current(p) == {o \in offered[p] : o.open /\ ~Stale(o.at)}
    IN
    \A p \in DOMAIN books :
      /\ \A side \in Side : \E o \in current(p) :
           [side |-> side, odds |-> books[p][side]] \in o.prices
      /\ p \notin overtaken => \E o \in current(p) :
           o.prices = {[side |-> side, odds |-> books[p][side]] : side \in Side}

\* A value bet is an exception: where every book has a margin, at most half
\* of the prices of a side beat the fair price drawn from all of them.
ValueBetsAreAtMostHalf ==
  Complete({"events", "detail"}) =>
    LET books == Analytics.books
        margin == \A p \in DOMAIN books :
          100 * (books[p]["teamA"] + books[p]["teamB"])
            >= books[p]["teamA"] * books[p]["teamB"]
    IN margin => \A side \in Side :
         2 * Cardinality({v \in Analytics.values : v[2] = side})
           <= Cardinality(DOMAIN books)

\* The health shown was true at one moment of the request, though what it is
\* made of was read at several: critical exactly if providers were without
\* data, no better than their data was, and no worse unless at some moment of
\* the request many listings were incomplete.
HealthWasTrue ==
  Complete({"overview"}) =>
    \E m \in moments :
      /\ Health = "critical" <=> m.lost
      /\ m.troubled => Health # "healthy"
      /\ Health = "degraded" => m.troubled \/ \E n \in moments : n.many
=============================================================================
