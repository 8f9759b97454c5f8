--------------------------- MODULE MonitorProofs ---------------------------
(***************************************************************************)
(* Theorems about what becomes of a publication: the reconciliation of the *)
(* matches that ends its transaction (MatchReconcile), the queries of the  *)
(* monitor (MonitorReads) and the page that follows it (MonitorLive, with  *)
(* the changes of MarketJournal).                                          *)
(*                                                                         *)
(* Matching: the groups are found by functions defined step by step, so    *)
(* the facts about them are inductions over the steps.  A decision, its    *)
(* history and its issue are written by different statements, which agree  *)
(* because no row is both left alone and without anybody to be compared    *)
(* with.                                                                   *)
(*                                                                         *)
(* Reads: the queries of a request see different moments, so what it holds *)
(* of an event may be older or newer than its batches, and its prices may  *)
(* be newer than their market.  What makes the comparison sound all the    *)
(* same are properties of one price and of one row, which no later write   *)
(* can take from the copy a request holds: each price is one of an offer   *)
(* (Quoted), and the selections as young as their market are the prices of *)
(* one offer (Sound).  The second is lost where a publication comes between*)
(* the queries for a market and for its prices.  What is read of the       *)
(* sources was so at one moment of the request (HealthInv).  That few      *)
(* prices are value bets is a fact about medians of prices with a margin.  *)
(*                                                                         *)
(* Live: a view keeps one request, for the event that is open, whatever    *)
(* was asked before; and each change of a batch says all of what it is     *)
(* about, so that the changes rebuild the later batch from the earlier.    *)
(***************************************************************************)
EXTENDS MonitorReads, MonitorLive, MatchReconcile, FiniteSetTheorems, TLAPS

-----------------------------------------------------------------------------
(* The queries. *)

Kinds == {"none", "events", "detail", "overview"}

\* Of a publication.
Forms == {"list", "detail"}

EventRows == [listed : BOOLEAN, play : Play, at : Nat]
PriceRows == [odds : Nat, at : Nat, play : Play]
MarketRows ==
  [play : Play, at : Nat,
   selections : UNION {[S -> PriceRows] : S \in SUBSET Selection}]
Batches == UNION {[M -> SUBSET Selection] : M \in SUBSET Market}
Databases ==
  [event : [Provider -> EventRows],
   list : [Provider -> [at : Nat, prematch : BOOLEAN]],
   updated : [Provider -> Nat], others : [Provider -> {0, 1}],
   market : [Provider -> [Market -> MarketRows]],
   incomplete : [Provider -> SUBSET Market],
   batch : [Provider -> Batches], linked : SUBSET Provider]

TypeInv ==
  /\ now \in Nat \ {0}
  /\ db \in Databases
  /\ offered = [p \in Provider |-> offered[p]]
  /\ request = [kind |-> request.kind, got |-> request.got]
  /\ request.kind \in Kinds

\* The selections written when their market was written last.
Newest(market) ==
  {s \in DOMAIN market.selections : market.selections[s].at = market.at}

PricesOf(market, selections) ==
  {[side |-> SideOf[s], odds |-> market.selections[s].odds] : s \in selections}

\* A price is one of an offer, which was open exactly if the price says so.
Quoted(s, price, offers) ==
  \E o \in offers : /\ o.at = price.at
                    /\ [side |-> SideOf[s], odds |-> price.odds] \in o.prices
                    /\ o.open <=> price.play = "open"

\* Each selection of a market is quoted, and the newest are the two prices, or
\* fewer, of one offer.
Sound(market, offers) ==
  /\ \A s \in DOMAIN market.selections :
       /\ market.selections[s].at <= market.at
       /\ Quoted(s, market.selections[s], offers)
  /\ Cardinality(Newest(market)) <= 2
  /\ market.at # 0 =>
       \E o \in offers :
         /\ o.at = market.at
         /\ o.prices = PricesOf(market, Newest(market))
         /\ \A s \in Newest(market) : o.open <=> market.selections[s].play = "open"

RowsSound(d, p, offers) ==
  \A m \in Market : /\ Sound(d.market[p][m], offers)
                    /\ d.market[p][m].at <= d.event[p].at

OfferInv == \A p \in Provider : RowsSound(db, p, offered[p])

\* What the queries for a market, its selections and their prices make of it.
ReadRow(market, prices) ==
  [play |-> market.play, at |-> market.at, selections |-> prices]

\* Until the prices are read, the markets a request has are those of the
\* database, except of the providers that overtook it.
UnmovedInv ==
  ReadingMarkets => \A p \in Provider \ overtaken : \A m \in Market :
    /\ request.got.markets[p][m] =
         [play |-> db.market[p][m].play, at |-> db.market[p][m].at]
    /\ "selections" \in DOMAIN request.got =>
         DOMAIN request.got.selections[p][m] = DOMAIN db.market[p][m].selections

\* The markets, selections and prices a request has belong to each other; the
\* prices are quoted, and with their markets as sound as the rows were, except
\* of the providers that overtook the request.
RowsInv ==
  /\ "markets" \in DOMAIN request.got =>
       request.got.markets \in [Provider -> [Market -> [play : Play, at : Nat]]]
  /\ "selections" \in DOMAIN request.got =>
       /\ "markets" \in DOMAIN request.got
       /\ \A p \in Provider : \A m \in Market :
            DOMAIN request.got.selections[p][m] \subseteq DOMAIN db.market[p][m].selections
  /\ "prices" \in DOMAIN request.got =>
       /\ "selections" \in DOMAIN request.got
       /\ \A p \in Provider : \A m \in Market :
            LET prices == request.got.prices[p][m]
                row == ReadRow(request.got.markets[p][m], prices)
            IN /\ DOMAIN prices = DOMAIN request.got.selections[p][m]
               /\ row \in MarketRows
               /\ \A s \in DOMAIN prices : Quoted(s, prices[s], offered[p])
               /\ p \notin overtaken => Sound(row, offered[p])

ReadInv ==
  /\ "batches" \in DOMAIN request.got => request.got.batches \in [Provider -> Batches]
  /\ "eligible" \in DOMAIN request.got => request.got.eligible \subseteq Provider

DataInv == TypeInv /\ OfferInv /\ UnmovedInv /\ RowsInv /\ ReadInv

\* The providers an overview takes for down, and for a problem.
Down(providers) ==
  {p \in Provider : providers[p].status = "unavailable" \/ providers[p].count = 0}
Problems(providers) ==
  {p \in Provider : providers[p].stale \/ providers[p].status # "healthy"}
    \union Down(providers)

\* What an overview has read was so at one of its moments.
HealthInv ==
  request.kind = "overview" =>
    /\ "providers" \in DOMAIN request.got =>
         \E m \in moments :
           LET down == Down(request.got.providers)
           IN /\ m.lost <=> Cardinality(down) >= 2 \/ down = Provider
              /\ m.troubled <=> Problems(request.got.providers) # {}
    /\ "issues" \in DOMAIN request.got =>
         /\ request.got.issues \subseteq Provider
         /\ Cardinality(request.got.issues) >= Significant => \E m \in moments : m.many

Inv == DataInv /\ HealthInv

-----------------------------------------------------------------------------
(* What a publication writes.                                              *)

\* The row of market m after o: what it said, over what was there.
Observed(old, o, m, at) ==
  [play |-> o.markets[m].play, at |-> at,
   selections |->
     [s \in DOMAIN o.markets[m].odds \union DOMAIN old.selections |->
        IF s \in DOMAIN o.markets[m].odds
        THEN [odds |-> o.markets[m].odds[s], at |-> at, play |-> PriceState(o, m)]
        ELSE old.selections[s]]]

\* A row keeps its sound source when there are more offers.
LEMMA SoundGrows ==
  ASSUME NEW market, NEW offers, NEW more, Sound(market, offers), offers \subseteq more
  PROVE  Sound(market, more)
BY DEF Sound, Quoted

\* A row nobody wrote is sound.
LEMMA UnseenSound == Unseen \in MarketRows /\ Sound(Unseen, {})
<1>1. DOMAIN Unseen.selections = {}
  BY DEF Unseen
<1>2. Unseen \in MarketRows
  <2>1. Unseen.selections \in [{} -> PriceRows]
    BY DEF Unseen
  <2> QED BY <2>1 DEF Unseen, MarketRows, Play
<1>3. Newest(Unseen) = {}
  BY <1>1 DEF Newest
<1> QED BY <1>1, <1>2, <1>3, FS_EmptySet DEF Sound, Unseen

\* The row a publication writes has that publication for the source of its
\* newest prices, since every selection kept from before is older.
LEMMA ObservedSound ==
  ASSUME NEW old \in MarketRows, NEW o, Publishable(o), NEW m \in DOMAIN o.markets,
         NEW at \in Nat \ {0}, NEW offers, Sound(old, offers), old.at < at
  PROVE  /\ Observed(old, o, m, at) \in MarketRows
         /\ Sound(Observed(old, o, m, at), offers \union Offers(o, at))
<1> DEFINE new == Observed(old, o, m, at)
           more == offers \union Offers(o, at)
           said == o.markets[m].odds
           state == PriceState(o, m)
           sel == [s \in DOMAIN said \union DOMAIN old.selections |->
                     IF s \in DOMAIN said
                     THEN [odds |-> said[s], at |-> at, play |-> state]
                     ELSE old.selections[s]]
           offer == [at |-> at, open |-> PriceState(o, m) = "open", prices |-> Prices(o, m)]
<1>1. /\ o.markets[m].play \in Play /\ state \in Play
      /\ DOMAIN said \subseteq Selection /\ Cardinality(DOMAIN said) <= 2
      /\ \A s \in DOMAIN said : said[s] \in Nat
  BY DEF Publishable, PriceState, Play
<1>2. PICK S \in SUBSET Selection : old.selections \in [S -> PriceRows]
  BY DEF MarketRows
<1>3. /\ new.play = o.markets[m].play /\ new.at = at /\ new.selections = sel
      /\ new = [play |-> new.play, at |-> new.at, selections |-> new.selections]
  BY DEF Observed
<1>4. /\ offer \in more /\ offer.at = at /\ offer.prices = Prices(o, m)
      /\ offer.open <=> state = "open"
  <2>1. offer \in Offers(o, at)
    BY Zenon DEF Offers
  <2> QED BY <2>1
<1>5. Prices(o, m) = {[side |-> SideOf[s], odds |-> said[s]] : s \in DOMAIN said}
  BY DEF Prices
<1> HIDE DEF new, state, offer, more
<1>6. sel \in [DOMAIN said \union S -> PriceRows]
  <2>1. \A s \in DOMAIN said : [odds |-> said[s], at |-> at, play |-> state] \in PriceRows
    BY <1>1 DEF PriceRows
  <2> QED BY <1>2, <2>1
<1>7. new \in MarketRows
  <2>1. DOMAIN said \union S \in SUBSET Selection
    BY <1>1, <1>2
  <2> HIDE DEF sel, said
  <2>2. sel \in UNION {[T -> PriceRows] : T \in SUBSET Selection}
    BY <1>6, <2>1
  <2> QED BY <1>1, <1>3, <2>2 DEF MarketRows
<1>8. /\ \A s \in DOMAIN said : /\ sel[s].odds = said[s] /\ sel[s].at = at
                                /\ sel[s].play = state
      /\ \A s \in DOMAIN sel : s \notin DOMAIN said =>
           s \in DOMAIN old.selections /\ sel[s] = old.selections[s]
      /\ DOMAIN said \subseteq DOMAIN sel
  OBVIOUS
<1>9. ASSUME NEW s \in DOMAIN old.selections
      PROVE  /\ old.selections[s].at \in Nat /\ old.selections[s].at < at
             /\ Quoted(s, old.selections[s], offers)
  <2>1. old.selections[s].at \in Nat /\ old.at \in Nat
    BY <1>2 DEF MarketRows, PriceRows
  <2> QED BY <2>1 DEF Sound
<1> HIDE DEF sel
<1>10. Newest(new) = DOMAIN said
  BY <1>3, <1>8, <1>9 DEF Newest
<1>11. ASSUME NEW s \in DOMAIN sel
       PROVE  sel[s].at <= at /\ Quoted(s, sel[s], more)
  <2>1. CASE s \in DOMAIN said
    <3>1. [side |-> SideOf[s], odds |-> sel[s].odds] \in offer.prices
      BY <1>4, <1>5, <1>8, <2>1
    <3>2. offer.at = sel[s].at /\ (offer.open <=> sel[s].play = "open")
      BY <1>4, <1>8, <2>1
    <3>3. [side |-> SideOf[s], odds |-> sel[s].odds] \in offer.prices /\ offer \in more
      BY <1>4, <3>1
    <3>4. Quoted(s, sel[s], more)
      BY <3>2, <3>3, Zenon DEF Quoted
    <3>5. sel[s].at = at
      BY <1>8, <2>1
    <3> QED BY <3>4, <3>5
  <2>2. CASE s \notin DOMAIN said
    BY <1>8, <1>9, <2>2 DEF Quoted, more
  <2> QED BY <2>1, <2>2
<1>12. PricesOf(new, Newest(new)) = Prices(o, m)
  BY <1>3, <1>5, <1>8, <1>10 DEF PricesOf
<1>13. /\ offer.at = new.at /\ offer.prices = PricesOf(new, Newest(new))
       /\ \A s \in Newest(new) : offer.open <=> new.selections[s].play = "open"
  BY <1>3, <1>4, <1>8, <1>10, <1>12
<1>14. Sound(new, more)
  BY <1>1, <1>3, <1>4, <1>10, <1>11, <1>13 DEF Sound
<1> QED BY <1>7, <1>14 DEF new, more

\* Matching changes the links only.
LEMMA ReconciledFields ==
  ASSUME NEW d \in Databases
  PROVE  /\ Reconciled(d) \in Databases
         /\ Reconciled(d).event = d.event /\ Reconciled(d).market = d.market
<1> DEFINE fresh == {p \in Provider : ~Stale(d.list[p].at)}
           named == {p \in fresh : d.event[p].listed}
           prematch == {p \in named : d.list[p].prematch}
           joined == (d.linked \ named)
                       \union IF Cardinality(prematch) >= 2 THEN prematch ELSE {}
<1>1. joined \in SUBSET Provider
  BY DEF Databases
<1>2. Reconciled(d) = IF Cardinality(fresh) < 2 THEN d ELSE [d EXCEPT !.linked = joined]
  BY DEF Reconciled
<1> HIDE DEF joined, fresh
<1> QED BY <1>1, <1>2 DEF Databases

\* What catalog.write() leaves alone, and what it writes.
LEMMA WrittenFields ==
  ASSUME NEW d \in Databases, NEW p \in Provider, NEW kind \in Forms,
         NEW o, Publishable(o), NEW at \in Nat \ {0},
         \A m \in Market : Observed(d.market[p][m], o, m, at) \in MarketRows
                           \/ m \notin DOMAIN o.markets
  PROVE  LET w == Written(d, kind, p, o, at) IN
         /\ w \in Databases
         /\ w.event[p].at = at
         /\ \A q \in Provider \ {p} : /\ w.event[q] = d.event[q]
                                      /\ w.market[q] = d.market[q]
         /\ \A m \in Market :
              w.market[p][m] = IF m \in DOMAIN o.markets
                               THEN Observed(d.market[p][m], o, m, at) ELSE d.market[p][m]
<1> DEFINE rows == [m \in Market |-> IF m \notin DOMAIN o.markets THEN d.market[p][m]
                                     ELSE Observed(d.market[p][m], o, m, at)]
           event == [listed |-> kind = "list" \/ d.event[p].listed, play |-> o.play, at |-> at]
           list == IF kind = "list" THEN [at |-> at, prematch |-> o.play # "live"]
                   ELSE d.list[p]
           incomplete == (d.incomplete[p] \ DOMAIN o.markets) \union Incomplete(o)
           batch == IF DOMAIN o.markets = {} THEN d.batch[p]
                    ELSE [m \in DOMAIN o.markets |-> DOMAIN o.markets[m].odds]
           w == [d EXCEPT !.event[p] = event, !.list[p] = list, !.updated[p] = at,
                          !.market[p] = rows, !.incomplete[p] = incomplete,
                          !.batch[p] = batch]
<1>1. Written(d, kind, p, o, at) = w
  BY DEF Written, Observed
<1>2. rows \in [Market -> MarketRows]
  <2>1. d.market[p] \in [Market -> MarketRows]
    BY DEF Databases
  <2> QED BY <2>1
<1>3. event \in EventRows
  <2>1. d.event[p] \in EventRows
    BY DEF Databases
  <2> QED BY <2>1 DEF EventRows, Publishable
<1>4. batch \in Batches
  <2>1. CASE DOMAIN o.markets = {}
    BY <2>1 DEF Databases
  <2>2. CASE DOMAIN o.markets # {}
    <3> DEFINE ids == [m \in DOMAIN o.markets |-> DOMAIN o.markets[m].odds]
    <3>1. ids \in [DOMAIN o.markets -> SUBSET Selection]
      BY DEF Publishable
    <3>2. DOMAIN o.markets \in SUBSET Market
      BY DEF Publishable
    <3>3. batch = ids
      BY <2>2
    <3> HIDE DEF ids, batch
    <3> QED BY <3>1, <3>2, <3>3 DEF Batches
  <2> QED BY <2>1, <2>2
<1>5. list \in [at : Nat, prematch : BOOLEAN]
  BY DEF Databases
<1>6. incomplete \in SUBSET Market
  BY DEF Databases, Incomplete, Publishable
<1>7. \A m \in Market : rows[m] = IF m \in DOMAIN o.markets
                                   THEN Observed(d.market[p][m], o, m, at)
                                   ELSE d.market[p][m]
  OBVIOUS
<1>8. event.at = at
  OBVIOUS
<1> HIDE DEF rows, event, batch, list, incomplete
<1>9. w \in Databases
  BY <1>2, <1>3, <1>4, <1>5, <1>6 DEF Databases
<1>10. /\ w.event[p] = event /\ w.market[p] = rows
       /\ \A q \in Provider \ {p} : w.event[q] = d.event[q] /\ w.market[q] = d.market[q]
  BY DEF Databases
<1> HIDE DEF w
<1> QED BY <1>1, <1>7, <1>8, <1>9, <1>10

\* A publication leaves every row sound and no younger than its event, every
\* selection that was there, and the other providers alone.
Republished(d, w, p, offers) ==
  /\ w \in Databases
  /\ \A q \in Provider \ {p} : w.event[q] = d.event[q] /\ w.market[q] = d.market[q]
  /\ RowsSound(w, p, offers)
  /\ \A m \in Market : DOMAIN d.market[p][m].selections
                         \subseteq DOMAIN w.market[p][m].selections

LEMMA PublishStep ==
  ASSUME NEW d \in Databases, NEW p \in Provider, NEW kind \in Forms,
         NEW o, Publishable(o), NEW at \in Nat \ {0},
         NEW offers, d.event[p].at < at, RowsSound(d, p, offers)
  PROVE  Republished(d, Written(d, kind, p, o, at), p, offers \union Offers(o, at))
<1> DEFINE w == Written(d, kind, p, o, at)
<1>1. \A m \in Market : d.market[p][m] \in MarketRows
  BY DEF Databases
<1>2. d.event[p].at \in Nat
  BY DEF Databases, EventRows
<1>3. ASSUME NEW m \in Market
      PROVE  Sound(d.market[p][m], offers) /\ d.market[p][m].at < at
  <2>1. d.market[p][m].at \in Nat /\ d.market[p][m].at <= d.event[p].at
    BY <1>1 DEF RowsSound, MarketRows
  <2> QED BY <1>2, <2>1 DEF RowsSound
<1>4. ASSUME NEW m \in Market, m \in DOMAIN o.markets
      PROVE  /\ Observed(d.market[p][m], o, m, at) \in MarketRows
             /\ Sound(Observed(d.market[p][m], o, m, at), offers \union Offers(o, at))
  BY <1>1, <1>3, <1>4, ObservedSound
<1>5. /\ w \in Databases /\ w.event[p].at = at
      /\ \A q \in Provider \ {p} : w.event[q] = d.event[q] /\ w.market[q] = d.market[q]
      /\ \A m \in Market :
           w.market[p][m] = IF m \in DOMAIN o.markets
                            THEN Observed(d.market[p][m], o, m, at) ELSE d.market[p][m]
  <2>1. \A m \in Market : Observed(d.market[p][m], o, m, at) \in MarketRows
                           \/ m \notin DOMAIN o.markets
    BY <1>4
  <2> QED BY <2>1, WrittenFields
<1> HIDE DEF w
<1>6. ASSUME NEW m \in Market
      PROVE  /\ Sound(w.market[p][m], offers \union Offers(o, at))
             /\ w.market[p][m].at <= w.event[p].at
             /\ DOMAIN d.market[p][m].selections \subseteq DOMAIN w.market[p][m].selections
  <2>1. CASE m \in DOMAIN o.markets
    <3>1. w.market[p][m] = Observed(d.market[p][m], o, m, at)
      BY <1>5, <2>1
    <3>2. /\ Observed(d.market[p][m], o, m, at).at = at
          /\ DOMAIN d.market[p][m].selections
               \subseteq DOMAIN Observed(d.market[p][m], o, m, at).selections
      BY DEF Observed
    <3> DEFINE new == Observed(d.market[p][m], o, m, at)
    <3>3. Sound(new, offers \union Offers(o, at)) /\ new.at = at
      BY <1>4, <2>1, <3>2
    <3>4. w.market[p][m] = new /\ w.event[p].at = at
      BY <1>5, <3>1
    <3> HIDE DEF new
    <3>5. DOMAIN d.market[p][m].selections \subseteq DOMAIN new.selections
      BY <3>2 DEF new
    <3>6. w.market[p][m].at <= w.event[p].at
      BY <3>3, <3>4
    <3> QED BY <3>3, <3>4, <3>5, <3>6, Zenon
  <2>2. CASE m \notin DOMAIN o.markets
    <3>1. w.market[p][m] = d.market[p][m]
      BY <1>5, <2>2
    <3>2. d.market[p][m].at \in Nat
      BY <1>1 DEF MarketRows
    <3> QED BY <1>2, <1>3, <1>5, <3>1, <3>2, SoundGrows
  <2> QED BY <2>1, <2>2
<1> QED BY <1>5, <1>6 DEF w, RowsSound, Republished

-----------------------------------------------------------------------------
(* The invariant holds at first.                                           *)

LEMMA EmptyTyped == Empty \in Databases /\ \A p \in Provider : Empty.event[p].at = 0
<1>1. Unlisted \in EventRows /\ Unlisted.at = 0
  BY DEF Unlisted, EventRows, Play
<1>2. << >> \in Batches
  <2>1. << >> \in [{} -> SUBSET Selection]
    OBVIOUS
  <2> QED BY <2>1 DEF Batches
<1>3. /\ Empty.event = [p \in Provider |-> Unlisted]
      /\ Empty.list = [p \in Provider |-> [at |-> 0, prematch |-> FALSE]]
      /\ Empty.updated = [p \in Provider |-> 0]
      /\ Empty.others = [p \in Provider |-> 0]
      /\ Empty.market = [p \in Provider |-> [m \in Market |-> Unseen]]
      /\ Empty.incomplete = [p \in Provider |-> {}]
      /\ Empty.batch = [p \in Provider |-> << >>]
      /\ Empty.linked = {}
      /\ Empty = [event |-> Empty.event, list |-> Empty.list, updated |-> Empty.updated,
                  others |-> Empty.others, market |-> Empty.market,
                  incomplete |-> Empty.incomplete, batch |-> Empty.batch,
                  linked |-> Empty.linked]
  BY DEF Empty
<1>4. [at |-> 0, prematch |-> FALSE] \in [at : Nat, prematch : BOOLEAN]
  OBVIOUS
<1>5. /\ Empty.list \in [Provider -> [at : Nat, prematch : BOOLEAN]]
      /\ Empty.market \in [Provider -> [Market -> MarketRows]]
      /\ Empty.event \in [Provider -> EventRows]
      /\ Empty.batch \in [Provider -> Batches]
  BY <1>1, <1>2, <1>3, <1>4, UnseenSound
<1>6. /\ Empty.updated \in [Provider -> Nat] /\ Empty.others \in [Provider -> {0, 1}]
      /\ Empty.incomplete \in [Provider -> SUBSET Market]
      /\ Empty.linked \in SUBSET Provider
  BY <1>3
<1>7. Empty \in Databases
  BY <1>3, <1>5, <1>6, Zenon DEF Databases
<1> QED BY <1>1, <1>3, <1>7

LEMMA OpenedTyped ==
  ASSUME NEW first,
         \A p \in Provider : first[p] # Unpublished => Publishable(first[p])
  PROVE  /\ Opened(first) \in Databases
         /\ \A p \in Provider :
              RowsSound(Opened(first), p, IF first[p] = Unpublished THEN {} ELSE Offers(first[p], 1))
<1> DEFINE after(p) == IF first[p] = Unpublished THEN Empty
                       ELSE Written(Empty, "list", p, first[p], 1)
           said(p) == IF first[p] = Unpublished THEN {} ELSE Offers(first[p], 1)
<1>1. ASSUME NEW p \in Provider
      PROVE  after(p) \in Databases /\ RowsSound(after(p), p, said(p))
  <2>1. RowsSound(Empty, p, {})
    BY UnseenSound DEF Empty, Unseen, Unlisted, RowsSound
  <2>2. CASE first[p] = Unpublished
    BY <2>1, <2>2, EmptyTyped
  <2>3. CASE first[p] # Unpublished
    <3>1. "list" \in Forms /\ Publishable(first[p]) /\ 1 \in Nat \ {0} /\ Empty.event[p].at < 1
      BY <2>3, EmptyTyped DEF Forms
    <3> DEFINE w == Written(Empty, "list", p, first[p], 1)
    <3>2. Republished(Empty, w, p, {} \union Offers(first[p], 1))
      BY <2>1, <3>1, EmptyTyped, PublishStep
    <3>3. after(p) = w /\ said(p) = {} \union Offers(first[p], 1)
      BY <2>3
    <3> HIDE DEF w
    <3> QED BY <3>2, <3>3 DEF Republished
  <2> QED BY <2>2, <2>3
<1>2. Opened(first) =
        [event |-> [p \in Provider |-> after(p).event[p]],
         list |-> [p \in Provider |-> after(p).list[p]],
         updated |-> [p \in Provider |-> after(p).updated[p]],
         others |-> Empty.others,
         market |-> [p \in Provider |-> after(p).market[p]],
         incomplete |-> [p \in Provider |-> after(p).incomplete[p]],
         batch |-> [p \in Provider |-> after(p).batch[p]],
         linked |-> {}]
  BY DEF Opened
<1>3. Empty.others \in [Provider -> {0, 1}]
  BY EmptyTyped DEF Databases
<1> HIDE DEF after
<1>4. \A p \in Provider :
        /\ after(p).event[p] \in EventRows /\ after(p).updated[p] \in Nat
        /\ after(p).list[p] \in [at : Nat, prematch : BOOLEAN]
        /\ after(p).market[p] \in [Market -> MarketRows]
        /\ after(p).incomplete[p] \in SUBSET Market
        /\ after(p).batch[p] \in Batches
  BY <1>1 DEF Databases
<1>5. Opened(first) \in Databases
  BY <1>2, <1>3, <1>4 DEF Databases
<1>6. \A p \in Provider : /\ Opened(first).event[p] = after(p).event[p]
                            /\ Opened(first).market[p] = after(p).market[p]
  BY <1>2
<1> QED BY <1>1, <1>5, <1>6 DEF RowsSound, after

LEMMA InitInv == Init => Inv
<1> SUFFICES ASSUME Init PROVE Inv
  OBVIOUS
<1>1. PICK first \in Opening :
        /\ db = Reconciled(Opened(first))
        /\ offered = [p \in Provider |->
                        IF first[p] = Unpublished THEN {} ELSE Offers(first[p], 1)]
  BY DEF Init
<1>2. \A p \in Provider : first[p] # Unpublished => Publishable(first[p])
  BY MonitorReadsAssumption
<1>3. /\ db \in Databases
      /\ db.event = Opened(first).event /\ db.market = Opened(first).market
  BY <1>1, <1>2, OpenedTyped, ReconciledFields
<1>4. OfferInv
  BY <1>1, <1>2, <1>3, OpenedTyped DEF OfferInv, RowsSound
<1>5. request.kind = "none" /\ DOMAIN request.got = {}
      /\ request = [kind |-> request.kind, got |-> request.got]
  BY DEF Init, NoRequest
<1>6. TypeInv
  BY <1>1, <1>3, <1>5 DEF Init, TypeInv, Kinds
<1>7. UnmovedInv /\ RowsInv /\ ReadInv /\ HealthInv
  BY <1>5 DEF UnmovedInv, ReadingMarkets, RowsInv, ReadInv, HealthInv
<1> QED BY <1>4, <1>6, <1>7 DEF Inv, DataInv

-----------------------------------------------------------------------------
(* Every step preserves it.                                                *)

\* What the steps that touch no request share.
LEMMA RequestKept ==
  ASSUME DataInv, UNCHANGED request, overtaken \subseteq overtaken',
         \A p \in Provider : offered[p] \subseteq offered'[p],
         \A p \in Provider : \A m \in Market :
           DOMAIN db.market[p][m].selections \subseteq DOMAIN db'.market[p][m].selections,
         ReadingMarkets => \A p \in Provider \ overtaken' : db'.market[p] = db.market[p]
  PROVE  UnmovedInv' /\ RowsInv' /\ ReadInv'
<1>1. ReadInv'
  BY DEF DataInv, ReadInv
<1>2. UnmovedInv'
  BY DEF DataInv, UnmovedInv, ReadingMarkets
<1>3. RowsInv'
  <2>1. ("markets" \in DOMAIN request.got =>
           request.got.markets \in [Provider -> [Market -> [play : Play, at : Nat]]])'
    BY DEF DataInv, RowsInv
  <2>2. ("selections" \in DOMAIN request.got =>
           /\ "markets" \in DOMAIN request.got
           /\ \A p \in Provider : \A m \in Market :
                DOMAIN request.got.selections[p][m] \subseteq DOMAIN db.market[p][m].selections)'
    BY DEF DataInv, RowsInv
  <2>3. ASSUME "prices" \in DOMAIN request.got
        PROVE  /\ "selections" \in DOMAIN request.got
               /\ \A p \in Provider : \A m \in Market :
                    LET prices == request.got.prices[p][m]
                        row == ReadRow(request.got.markets[p][m], prices)
                    IN /\ DOMAIN prices = DOMAIN request.got.selections[p][m]
                       /\ row \in MarketRows
                       /\ \A s \in DOMAIN prices : Quoted(s, prices[s], offered'[p])
                       /\ p \notin overtaken' => Sound(row, offered'[p])
    BY <2>3, SoundGrows DEF DataInv, RowsInv, Quoted
  <2> QED BY <2>1, <2>2, <2>3 DEF RowsInv
<1> QED BY <1>1, <1>2, <1>3

LEMMA PublishInv ==
  ASSUME DataInv, NEW p \in Provider, NEW kind \in Forms,
         NEW o \in Content, Publish(p, kind, o)
  PROVE  DataInv'
<1> DEFINE w == Written(db, kind, p, o, now)
<1>1. /\ db' = Reconciled(w) /\ db.event[p].at < now
      /\ offered' = [offered EXCEPT ![p] = @ \union Offers(o, now)]
      /\ overtaken' = IF ReadingMarkets THEN overtaken \union {p} ELSE overtaken
      /\ UNCHANGED <<now, request>>
  BY DEF Publish
<1>2. db \in Databases /\ now \in Nat \ {0} /\ Publishable(o)
  BY MonitorReadsAssumption DEF DataInv, TypeInv
<1>3. \A q \in Provider : RowsSound(db, q, offered[q])
  BY DEF DataInv, OfferInv
<1>4. /\ w \in Databases
      /\ \A q \in Provider \ {p} : w.event[q] = db.event[q] /\ w.market[q] = db.market[q]
      /\ RowsSound(w, p, offered[p] \union Offers(o, now))
      /\ \A m \in Market : DOMAIN db.market[p][m].selections
                             \subseteq DOMAIN w.market[p][m].selections
  <2>1. RowsSound(db, p, offered[p]) /\ db.event[p].at < now
    BY <1>1, <1>3
  <2>2. Republished(db, w, p, offered[p] \union Offers(o, now))
    BY <1>2, <2>1, PublishStep
  <2> HIDE DEF w
  <2> QED BY <2>2 DEF Republished
<1> HIDE DEF w
<1>5. /\ db' \in Databases /\ db'.event = w.event /\ db'.market = w.market
  BY <1>1, <1>4, ReconciledFields
<1>6. /\ offered'[p] = offered[p] \union Offers(o, now)
      /\ \A q \in Provider \ {p} : offered'[q] = offered[q]
      /\ offered' = [q \in Provider |-> offered'[q]]
  BY <1>1 DEF DataInv, TypeInv
<1>7. OfferInv'
  <2> SUFFICES ASSUME NEW q \in Provider
               PROVE  RowsSound(db', q, offered'[q])
    BY DEF OfferInv, RowsSound
  <2>1. CASE q = p
    BY <1>4, <1>5, <1>6, <2>1 DEF RowsSound
  <2>2. CASE q # p
    BY <1>3, <1>4, <1>5, <1>6, <2>2 DEF RowsSound
  <2> QED BY <2>1, <2>2
<1>8. TypeInv'
  BY <1>1, <1>5, <1>6 DEF DataInv, TypeInv
<1>9. \A q \in Provider : offered[q] \subseteq offered'[q]
  BY <1>6
<1>10. \A q \in Provider : \A m \in Market :
         DOMAIN db.market[q][m].selections \subseteq DOMAIN db'.market[q][m].selections
  BY <1>4, <1>5
<1>11. /\ overtaken \subseteq overtaken'
       /\ ReadingMarkets => \A q \in Provider \ overtaken' : db'.market[q] = db.market[q]
  BY <1>1, <1>4, <1>5
<1>12. UnmovedInv' /\ RowsInv' /\ ReadInv'
  BY <1>1, <1>9, <1>10, <1>11, RequestKept
<1> QED BY <1>7, <1>8, <1>12 DEF DataInv

\* A publication that leaves the game's markets alone.
LEMMA OtherInv ==
  ASSUME DataInv, NEW d \in Databases, db' = Reconciled(d), d.market = db.market,
         \A p \in Provider : d.event[p].at = db.event[p].at,
         UNCHANGED <<now, request, offered, overtaken>>
  PROVE  DataInv'
<1>1. /\ db' \in Databases /\ db'.event = d.event /\ db'.market = d.market
  BY ReconciledFields
<1>2. OfferInv'
  BY <1>1 DEF DataInv, OfferInv, RowsSound
<1>3. TypeInv'
  BY <1>1 DEF DataInv, TypeInv
<1>4. UnmovedInv' /\ RowsInv' /\ ReadInv'
  BY <1>1, RequestKept
<1> QED BY <1>2, <1>3, <1>4 DEF DataInv

LEMMA PublishOtherInv ==
  ASSUME DataInv, NEW p \in Provider, PublishOther(p)
  PROVE  DataInv'
<1> DEFINE d == [db EXCEPT !.others[p] = 1, !.updated[p] = now]
<1>1. db' = Reconciled(d) /\ UNCHANGED <<now, request, offered, overtaken>>
  BY DEF PublishOther
<1>2. /\ d \in Databases /\ d.market = db.market /\ d.event = db.event
  BY DEF DataInv, TypeInv, Databases
<1> HIDE DEF d
<1> QED BY <1>1, <1>2, OtherInv

LEMMA WithdrawInv ==
  ASSUME DataInv, NEW p \in Provider, Withdraw(p)
  PROVE  DataInv'
<1> DEFINE row == [db.event[p] EXCEPT !.listed = FALSE]
           list == [at |-> now, prematch |-> FALSE]
           d == [db EXCEPT !.event[p] = row, !.list[p] = list, !.others[p] = 1,
                           !.updated[p] = now]
<1>1. db' = Reconciled(d) /\ UNCHANGED <<now, request, offered, overtaken>>
  BY DEF Withdraw
<1>2. row \in EventRows /\ row.at = db.event[p].at
  <2>1. db.event[p] \in EventRows
    BY DEF DataInv, TypeInv, Databases
  <2> QED BY <2>1 DEF EventRows
<1>3. list \in [at : Nat, prematch : BOOLEAN]
  BY DEF DataInv, TypeInv
<1> HIDE DEF row, list
<1>4. /\ d \in Databases /\ d.market = db.market
      /\ \A q \in Provider : d.event[q].at = db.event[q].at
  BY <1>2, <1>3 DEF DataInv, TypeInv, Databases
<1> HIDE DEF d
<1> QED BY <1>1, <1>4, OtherInv

LEMMA TickInv == ASSUME DataInv, Tick PROVE DataInv'
<1>1. UNCHANGED <<db, request, offered, overtaken>> /\ now' = now + 1
  BY DEF Tick
<1>2. TypeInv' /\ OfferInv'
  BY <1>1 DEF DataInv, TypeInv, OfferInv, RowsSound
<1>3. UnmovedInv' /\ RowsInv' /\ ReadInv'
  BY <1>1, RequestKept
<1> QED BY <1>2, <1>3 DEF DataInv

\* A request that has read nothing yet owes nothing.
LEMMA FreshInv ==
  ASSUME DataInv, NEW kind \in Kinds, request' = [kind |-> kind, got |-> << >>],
         UNCHANGED <<now, db, offered>>
  PROVE  DataInv'
<1>1. /\ DOMAIN request'.got = {} /\ request'.kind = kind
      /\ request' = [kind |-> request'.kind, got |-> request'.got]
  OBVIOUS
<1>2. UnmovedInv' /\ RowsInv' /\ ReadInv'
  BY <1>1 DEF UnmovedInv, ReadingMarkets, RowsInv, ReadInv
<1>3. TypeInv' /\ OfferInv'
  BY <1>1 DEF DataInv, TypeInv, OfferInv, RowsSound
<1> QED BY <1>2, <1>3 DEF DataInv

\* What a query returns is what the request then has.
LEMMA ReadGets ==
  ASSUME TypeInv, NEW query, Read(query)
  PROVE  /\ query \in Queries(request.kind) /\ query \notin DOMAIN request.got
         /\ Earlier(request.kind, query) \subseteq DOMAIN request.got
         /\ request'.kind = request.kind
         /\ request' = [kind |-> request'.kind, got |-> request'.got]
         /\ DOMAIN request'.got = DOMAIN request.got \union {query}
         /\ request'.got[query] = Result(query)
         /\ \A q \in DOMAIN request.got : request'.got[q] = request.got[q]
         /\ UNCHANGED <<now, db, offered, overtaken>>
<1> DEFINE got == [q \in DOMAIN request.got \union {query} |->
                     IF q = query THEN Result(q) ELSE request.got[q]]
<1>1. /\ request' = [request EXCEPT !.got =
           [q \in DOMAIN @ \union {query} |-> IF q = query THEN Result(q) ELSE @[q]]]
      /\ query \in Queries(request.kind) \ DOMAIN request.got
      /\ Earlier(request.kind, query) \subseteq DOMAIN request.got
      /\ UNCHANGED <<now, db, published, offered, overtaken>>
  BY DEF Read
<1>2. /\ request'.got = got /\ request'.kind = request.kind
      /\ request' = [kind |-> request'.kind, got |-> request'.got]
  BY <1>1 DEF TypeInv
<1>3. /\ DOMAIN got = DOMAIN request.got \union {query}
      /\ got[query] = Result(query)
      /\ \A q \in DOMAIN request.got : got[q] = request.got[q]
  BY <1>1
<1> HIDE DEF got
<1> QED BY <1>1, <1>2, <1>3

\* The three queries for the markets, one after the other.
LEMMA MarketsRead ==
  ASSUME DataInv, Read("markets")
  PROVE  UnmovedInv' /\ RowsInv'
<1>1. /\ "markets" \notin DOMAIN request.got
      /\ DOMAIN request'.got = DOMAIN request.got \union {"markets"}
      /\ request'.got["markets"] = Result("markets")
      /\ UNCHANGED <<now, db, offered, overtaken>>
  BY ReadGets DEF DataInv
<1>2. request'.got["markets"] =
        [p \in Provider |-> [m \in Market |->
           [play |-> db.market[p][m].play, at |-> db.market[p][m].at]]]
  BY <1>1 DEF Result
<1>3. "selections" \notin DOMAIN request'.got /\ "prices" \notin DOMAIN request'.got
  BY <1>1 DEF DataInv, RowsInv
<1>4. \A p \in Provider : \A m \in Market : db.market[p][m] \in MarketRows
  BY DEF DataInv, TypeInv, Databases
<1>5. UnmovedInv'
  BY <1>1, <1>2, <1>3 DEF UnmovedInv
<1>6. RowsInv'
  BY <1>1, <1>2, <1>3, <1>4 DEF RowsInv, MarketRows
<1> QED BY <1>5, <1>6

LEMMA SelectionsRead ==
  ASSUME DataInv, Read("selections")
  PROVE  UnmovedInv' /\ RowsInv'
<1>1. /\ "selections" \notin DOMAIN request.got /\ "markets" \in DOMAIN request.got
      /\ DOMAIN request'.got = DOMAIN request.got \union {"selections"}
      /\ request'.got["selections"] = Result("selections")
      /\ request'.got["markets"] = request.got["markets"]
      /\ UNCHANGED <<now, db, offered, overtaken>>
  BY ReadGets DEF DataInv, Earlier
<1>2. request'.got["selections"] =
        [p \in Provider |-> [m \in Market |->
           [s \in DOMAIN db.market[p][m].selections |-> db.market[p][m].selections[s].at]]]
  BY <1>1 DEF Result
<1>3. \A p \in Provider : \A m \in Market :
        DOMAIN request'.got["selections"][p][m] = DOMAIN db.market[p][m].selections
  BY <1>2
<1>4. "prices" \notin DOMAIN request.got /\ "prices" \notin DOMAIN request'.got
  BY <1>1 DEF DataInv, RowsInv
<1>5. UnmovedInv'
  BY <1>1, <1>3, <1>4 DEF UnmovedInv, ReadingMarkets, DataInv
<1>6. RowsInv'
  BY <1>1, <1>3, <1>4 DEF RowsInv, DataInv
<1> QED BY <1>5, <1>6

LEMMA PricesRead ==
  ASSUME DataInv, Read("prices")
  PROVE  UnmovedInv' /\ RowsInv'
<1>1. /\ "prices" \notin DOMAIN request.got /\ "selections" \in DOMAIN request.got
      /\ DOMAIN request'.got = DOMAIN request.got \union {"prices"}
      /\ request'.got["prices"] = Result("prices")
      /\ \A q \in DOMAIN request.got : request'.got[q] = request.got[q]
      /\ UNCHANGED <<now, db, offered, overtaken>>
  BY ReadGets DEF DataInv, Earlier
<1>2. request'.got["prices"] =
        [p \in Provider |-> [m \in Market |->
           [s \in DOMAIN request.got.selections[p][m] |-> db.market[p][m].selections[s]]]]
  BY <1>1 DEF Result
<1>3. /\ "markets" \in DOMAIN request.got
      /\ request.got.markets \in [Provider -> [Market -> [play : Play, at : Nat]]]
      /\ \A p \in Provider : \A m \in Market :
           DOMAIN request.got.selections[p][m] \subseteq DOMAIN db.market[p][m].selections
  BY <1>1 DEF DataInv, RowsInv
<1>4. ASSUME NEW p \in Provider, NEW m \in Market
      PROVE  LET prices == request'.got["prices"][p][m]
                 row == ReadRow(request.got.markets[p][m], prices)
             IN /\ DOMAIN prices = DOMAIN request.got.selections[p][m]
                /\ row \in MarketRows
                /\ \A s \in DOMAIN prices : Quoted(s, prices[s], offered[p])
                /\ p \notin overtaken => Sound(row, offered[p])
  <2> DEFINE read == request.got.selections[p][m]
             held == db.market[p][m]
             prices == [s \in DOMAIN read |-> held.selections[s]]
             row == ReadRow(request.got.markets[p][m], prices)
  <2>1. request'.got["prices"][p][m] = prices
    BY <1>2
  <2>2. held \in MarketRows /\ Sound(held, offered[p]) /\ DOMAIN read \subseteq DOMAIN held.selections
    BY <1>3 DEF DataInv, TypeInv, Databases, OfferInv, RowsSound
  <2>3. request.got.markets[p][m] \in [play : Play, at : Nat]
    BY <1>3
  <2>4. p \notin overtaken =>
          /\ request.got.markets[p][m] = [play |-> held.play, at |-> held.at]
          /\ DOMAIN read = DOMAIN held.selections
    BY <1>1, <1>3 DEF DataInv, UnmovedInv, ReadingMarkets
  <2> HIDE DEF read, held
  <2>5. PICK S \in SUBSET Selection : held.selections \in [S -> PriceRows]
    BY <2>2 DEF MarketRows
  <2>6. prices \in [DOMAIN read -> PriceRows] /\ DOMAIN read \in SUBSET Selection
    BY <2>2, <2>5
  <2>7. row \in MarketRows
    <3>1. prices \in UNION {[T -> PriceRows] : T \in SUBSET Selection}
      <4> HIDE DEF prices
      <4> QED BY <2>6
    <3> HIDE DEF prices
    <3> QED BY <2>3, <3>1 DEF ReadRow, MarketRows
  <2>8. \A s \in DOMAIN prices : Quoted(s, prices[s], offered[p])
    BY <2>2 DEF Sound
  <2>9. p \notin overtaken => row = held
    <3> SUFFICES ASSUME p \notin overtaken PROVE row = held
      OBVIOUS
    <3>1. prices = held.selections
      BY <2>4, <2>5
    <3>2. held = [play |-> held.play, at |-> held.at, selections |-> held.selections]
      BY <2>2 DEF MarketRows
    <3> QED BY <2>4, <3>1, <3>2 DEF ReadRow
  <2> QED BY <2>1, <2>2, <2>7, <2>8, <2>9 DEF read
<1>5. UnmovedInv'
  BY <1>1 DEF UnmovedInv, ReadingMarkets
<1>6. RowsInv'
  <2>1. ("selections" \in DOMAIN request.got =>
           /\ "markets" \in DOMAIN request.got
           /\ \A p \in Provider : \A m \in Market :
                DOMAIN request.got.selections[p][m] \subseteq DOMAIN db.market[p][m].selections)'
    BY <1>1, <1>3
  <2>2. ("markets" \in DOMAIN request.got =>
           request.got.markets \in [Provider -> [Market -> [play : Play, at : Nat]]])'
    BY <1>1, <1>3
  <2>3. \A p \in Provider : \A m \in Market :
          LET prices == request'.got.prices[p][m]
              row == ReadRow(request'.got.markets[p][m], prices)
          IN /\ DOMAIN prices = DOMAIN request'.got.selections[p][m]
             /\ row \in MarketRows
             /\ \A s \in DOMAIN prices : Quoted(s, prices[s], offered'[p])
             /\ p \notin overtaken' => Sound(row, offered'[p])
    BY <1>1, <1>3, <1>4
  <2>4. "selections" \in DOMAIN request'.got
    BY <1>1
  <2> QED BY <2>1, <2>2, <2>3, <2>4 DEF RowsInv
<1> QED BY <1>5, <1>6

\* The others do not touch them.
LEMMA OthersRead ==
  ASSUME DataInv, NEW query, Read(query), query \notin {"markets", "selections", "prices"}
  PROVE  UnmovedInv' /\ RowsInv'
<1>1. /\ DOMAIN request'.got = DOMAIN request.got \union {query}
      /\ \A q \in DOMAIN request.got : request'.got[q] = request.got[q]
      /\ UNCHANGED <<now, db, offered, overtaken>>
  BY ReadGets DEF DataInv
<1>2. UnmovedInv'
  BY <1>1 DEF DataInv, UnmovedInv, ReadingMarkets
<1>3. RowsInv'
  <2>1. ("markets" \in DOMAIN request.got =>
           request.got.markets \in [Provider -> [Market -> [play : Play, at : Nat]]])'
    BY <1>1 DEF DataInv, RowsInv
  <2>2. ("selections" \in DOMAIN request.got =>
           /\ "markets" \in DOMAIN request.got
           /\ \A p \in Provider : \A m \in Market :
                DOMAIN request.got.selections[p][m] \subseteq DOMAIN db.market[p][m].selections)'
    BY <1>1 DEF DataInv, RowsInv
  <2>3. ASSUME "prices" \in DOMAIN request'.got
        PROVE  /\ "selections" \in DOMAIN request'.got
               /\ \A p \in Provider : \A m \in Market :
                    LET prices == request'.got.prices[p][m]
                        row == ReadRow(request'.got.markets[p][m], prices)
                    IN /\ DOMAIN prices = DOMAIN request'.got.selections[p][m]
                       /\ row \in MarketRows
                       /\ \A s \in DOMAIN prices : Quoted(s, prices[s], offered'[p])
                       /\ p \notin overtaken' => Sound(row, offered'[p])
    <3>1. {"prices", "selections", "markets"} \subseteq DOMAIN request.got
      BY <1>1, <2>3 DEF DataInv, RowsInv
    <3> QED BY <1>1, <3>1 DEF DataInv, RowsInv
  <2> QED BY <2>1, <2>2, <2>3 DEF RowsInv
<1> QED BY <1>2, <1>3

LEMMA ReadStep ==
  ASSUME DataInv, NEW query, Read(query)
  PROVE  DataInv'
<1>1. /\ request'.kind = request.kind
      /\ request' = [kind |-> request'.kind, got |-> request'.got]
      /\ DOMAIN request'.got = DOMAIN request.got \union {query}
      /\ request'.got[query] = Result(query)
      /\ \A q \in DOMAIN request.got : request'.got[q] = request.got[q]
      /\ UNCHANGED <<now, db, offered, overtaken>>
  BY ReadGets DEF DataInv
<1>2. TypeInv' /\ OfferInv'
  BY <1>1 DEF DataInv, TypeInv, OfferInv, RowsSound
<1>3. UnmovedInv' /\ RowsInv'
  BY MarketsRead, SelectionsRead, PricesRead, OthersRead
<1>4. "batches" \in DOMAIN request'.got => request'.got["batches"] \in [Provider -> Batches]
  <2>1. CASE query = "batches"
    BY <1>1, <2>1 DEF Result, DataInv, TypeInv, Databases
  <2>2. CASE query # "batches"
    BY <1>1, <2>2 DEF DataInv, ReadInv
  <2> QED BY <2>1, <2>2
<1>5. "eligible" \in DOMAIN request'.got => request'.got["eligible"] \subseteq Provider
  <2>1. CASE query = "eligible"
    BY <1>1, <2>1 DEF Result, Expected
  <2>2. CASE query # "eligible"
    BY <1>1, <2>2 DEF DataInv, ReadInv
  <2> QED BY <2>1, <2>2
<1>6. ReadInv'
  BY <1>4, <1>5 DEF ReadInv
<1> QED BY <1>2, <1>3, <1>6 DEF DataInv

LEMMA DataStep == DataInv /\ [Next]_vars => DataInv'
<1> SUFFICES ASSUME DataInv, [Next]_vars PROVE DataInv'
  OBVIOUS
<1>1. CASE Tick
  BY <1>1, TickInv
<1>2. CASE \E p \in Provider : \E o \in Content, kind \in {"list", "detail"} :
             Publish(p, kind, o)
  BY <1>2, PublishInv DEF Forms
<1>3. CASE \E p \in Provider : PublishOther(p)
  BY <1>3, PublishOtherInv
<1>4. CASE \E p \in Provider : Withdraw(p)
  BY <1>4, WithdrawInv
<1>5. CASE \E kind \in {"events", "detail", "overview"} : Ask(kind)
  BY <1>5, FreshInv DEF Ask, Kinds
<1>6. CASE \E query \in Queries(request.kind) : Read(query)
  BY <1>6, ReadStep
<1>7. CASE Answer
  BY <1>7, FreshInv DEF Answer, NoRequest, Kinds
<1>8. CASE UNCHANGED vars
  <2>1. UNCHANGED <<now, db, request, offered, overtaken>>
    BY <1>8 DEF vars
  <2>2. TypeInv' /\ OfferInv'
    BY <2>1 DEF DataInv, TypeInv, OfferInv, RowsSound
  <2>3. UnmovedInv' /\ RowsInv' /\ ReadInv'
    BY <2>1, RequestKept
  <2> QED BY <2>2, <2>3 DEF DataInv
<1> QED BY <1>1, <1>2, <1>3, <1>4, <1>5, <1>6, <1>7, <1>8 DEF Next

\* What is read of the sources is the moment it is read at.
LEMMA MomentRead ==
  LET down == Down(ProviderStates)
  IN /\ Moment.lost <=> Cardinality(down) >= 2 \/ down = Provider
     /\ Moment.troubled <=> Problems(ProviderStates) # {}
<1>1. Down(ProviderStates) = {p \in Provider : WithoutData(p)}
  BY DEF Down, ProviderStates, WithoutData
<1>2. \A p \in Provider :
        p \in Problems(ProviderStates) <=> WithoutData(p) \/ Stale(db.updated[p])
  BY DEF Problems, Down, ProviderStates, WithoutData, Stale
<1>3. Problems(ProviderStates) \subseteq Provider
  BY DEF Problems, Down
<1>4. /\ Moment.lost <=> \/ Cardinality({p \in Provider : WithoutData(p)}) >= 2
                         \/ \A p \in Provider : WithoutData(p)
      /\ Moment.troubled <=> \E p \in Provider : WithoutData(p) \/ Stale(db.updated[p])
  BY Zenon DEF Moment
<1>5. {p \in Provider : WithoutData(p)} = Provider <=> \A p \in Provider : WithoutData(p)
  OBVIOUS
<1>6. Moment.troubled <=> Problems(ProviderStates) # {}
  BY <1>2, <1>3, <1>4
<1> QED BY <1>1, <1>4, <1>5, <1>6

\* The moments of an overview stay, and the present is one of them.
LEMMA HealthStep == Inv /\ [Next]_vars => HealthInv'
<1> SUFFICES ASSUME Inv, [Next]_vars, request'.kind = "overview" PROVE HealthInv'
  BY DEF HealthInv
<1>1. CASE UNCHANGED vars
  BY <1>1 DEF vars, Inv, HealthInv
<1>2. CASE Next
  <2>1. moments' = moments \union {Moment'}
    BY <1>2 DEF Next, Witnessed
  <2>2. CASE UNCHANGED request
    BY <2>1, <2>2 DEF Inv, HealthInv
  <2>3. CASE \E kind \in {"events", "detail", "overview"} : Ask(kind)
    <3>1. DOMAIN request'.got = {}
      BY <2>3 DEF Ask
    <3> QED BY <3>1 DEF HealthInv
  <2>4. CASE Answer
    BY <2>4 DEF Answer, NoRequest
  <2>5. ASSUME NEW query \in Queries(request.kind), Read(query)
        PROVE  HealthInv'
    <3>1. /\ request'.kind = request.kind
          /\ DOMAIN request'.got = DOMAIN request.got \union {query}
          /\ request'.got[query] = Result(query)
          /\ \A q \in DOMAIN request.got : request'.got[q] = request.got[q]
          /\ UNCHANGED <<now, db, offered, overtaken>>
      BY <2>5, ReadGets DEF Inv, DataInv
    <3>2. Moment' = Moment
      BY <3>1 DEF Moment, WithoutData, EventCount, Stale
    <3>3. ASSUME "providers" \in DOMAIN request'.got
          PROVE  \E m \in moments' :
                   LET down == Down(request'.got["providers"])
                   IN /\ m.lost <=> Cardinality(down) >= 2 \/ down = Provider
                      /\ m.troubled <=> Problems(request'.got["providers"]) # {}
      <4>1. CASE query = "providers"
        <5>1. request'.got["providers"] = ProviderStates
          BY <3>1, <4>1 DEF Result
        <5> QED BY <2>1, <3>2, <5>1, MomentRead
      <4>2. CASE query # "providers"
        <5>1. "providers" \in DOMAIN request.got
              /\ request'.got["providers"] = request.got["providers"]
          BY <3>1, <3>3, <4>2
        <5> QED BY <2>1, <3>1, <5>1 DEF Inv, HealthInv
      <4> QED BY <4>1, <4>2
    <3>4. ASSUME "issues" \in DOMAIN request'.got
          PROVE  /\ request'.got["issues"] \subseteq Provider
                 /\ Cardinality(request'.got["issues"]) >= Significant =>
                      \E m \in moments' : m.many
      <4>1. CASE query = "issues"
        <5>1. request'.got["issues"] = {p \in Provider : db.incomplete[p] # {}}
          BY <3>1, <4>1 DEF Result
        <5>2. Moment.many <=>
                Cardinality({p \in Provider : db.incomplete[p] # {}}) >= Significant
          BY Zenon DEF Moment
        <5> QED BY <2>1, <3>2, <5>1, <5>2
      <4>2. CASE query # "issues"
        <5>1. "issues" \in DOMAIN request.got
              /\ request'.got["issues"] = request.got["issues"]
          BY <3>1, <3>4, <4>2
        <5> QED BY <2>1, <3>1, <5>1 DEF Inv, HealthInv
      <4> QED BY <4>1, <4>2
    <3> QED BY <3>3, <3>4, Zenon DEF HealthInv, Down, Problems
  <2> QED BY <1>2, <2>2, <2>3, <2>4, <2>5 DEF Next, Tick, Publish, PublishOther, Withdraw
<1> QED BY <1>1, <1>2

LEMMA StepInv == Inv /\ [Next]_vars => Inv'
BY DataStep, HealthStep DEF Inv

\* The invariant holds of every state a behaviour reaches.
THEOREM Invariant == Spec => []Inv
BY InitInv, StepInv, PTL DEF Spec

-----------------------------------------------------------------------------
(* What the responses say.                                                 *)

LEMMA PairCardinality ==
  ASSUME NEW x, NEW y, x # y
  PROVE  IsFiniteSet({x, y}) /\ Cardinality({x, y}) = 2
<1>1. IsFiniteSet({x}) /\ Cardinality({x}) = 1
  BY FS_Singleton
<1>2. {x, y} = {x} \union {y} /\ y \notin {x}
  OBVIOUS
<1> QED BY <1>1, <1>2, FS_AddElement

\* A book that is compared was drawn from a healthy market of two prices.
LEMMA BookOfMarket ==
  ASSUME NEW rendered, NEW p \in DOMAIN Books(rendered)
  PROVE  /\ p \in DOMAIN rendered
         /\ \E m \in Entries(rendered[p]) :
              /\ TwoSided(m)
              /\ Books(rendered)[p] =
                   [side \in Side |-> (CHOOSE s \in m.selections : s.side = side).odds]
<1> DEFINE valid == {q \in DOMAIN rendered :
                       /\ Cardinality(Entries(rendered[q])) = 1
                       /\ \A m \in Entries(rendered[q]) : TwoSided(m)}
           market(q) == CHOOSE m \in Entries(rendered[q]) : TRUE
<1>1. Books(rendered) = [q \in valid |-> [side \in Side |->
        (CHOOSE s \in market(q).selections : s.side = side).odds]]
  BY DEF Books
<1>2. p \in valid
  BY <1>1
<1>3. Entries(rendered[p]) # {}
  BY <1>2, FS_EmptySet
<1>4. market(p) \in Entries(rendered[p])
  BY <1>3
<1> QED BY <1>1, <1>2, <1>4

\* A rendered market is as large as the selections it was made of.
LEMMA RenderedSize ==
  ASSUME NEW market, NEW selections, NEW prices, NEW ids, IsFiniteSet(ids)
  PROVE  LET rendered == RenderedMarket(market, selections, prices, ids).selections
         IN /\ IsFiniteSet(ids \intersect DOMAIN selections)
            /\ IsFiniteSet(rendered)
            /\ Cardinality(rendered) = Cardinality(ids \intersect DOMAIN selections)
<1> DEFINE priced == ids \intersect DOMAIN selections
           render(s) == [id |-> s, side |-> SideOf[s], odds |-> prices[s].odds,
                         status |-> SelectionStatus(market, prices[s])]
           image == {render(s) : s \in priced}
           f == [s \in priced |-> render(s)]
<1>1. RenderedMarket(market, selections, prices, ids).selections = image
  BY DEF RenderedMarket
<1>2. IsFiniteSet(priced)
  BY FS_Subset
<1>3. \A s, t \in priced : render(s) = render(t) => s = t
  <2>1. \A s \in priced : render(s).id = s
    OBVIOUS
  <2> QED BY <2>1
<1> HIDE DEF priced, render
<1>4. f \in Surjection(priced, image) /\ f \in Injection(priced, image)
  BY <1>3 DEF Surjection, Injection, IsInjective
<1> HIDE DEF f, image
<1>5. IsFiniteSet(image) /\ Cardinality(image) = Cardinality(priced)
  BY <1>2, <1>4, FS_Surjection
<1> QED BY <1>1, <1>2, <1>5 DEF priced

\* A selection that is rendered healthy was open in the offer it is from.
LEMMA HealthyIsQuoted ==
  ASSUME NEW market, NEW selections, NEW prices, NEW ids, NEW offers,
         ReadRow(market, prices) \in MarketRows, DOMAIN selections = DOMAIN prices,
         \A s \in DOMAIN prices : Quoted(s, prices[s], offers),
         NEW it \in RenderedMarket(market, selections, prices, ids).selections,
         it.status = "healthy"
  PROVE  \E o \in offers : /\ o.open /\ ~Stale(o.at)
                           /\ [side |-> it.side, odds |-> it.odds] \in o.prices
<1>1. RenderedMarket(market, selections, prices, ids).selections =
        {[id |-> s, side |-> SideOf[s], odds |-> prices[s].odds,
          status |-> SelectionStatus(market, prices[s])] : s \in ids \intersect DOMAIN selections}
  BY DEF RenderedMarket
<1>2. PICK s \in DOMAIN prices :
        it = [id |-> s, side |-> SideOf[s], odds |-> prices[s].odds,
              status |-> SelectionStatus(market, prices[s])]
  BY <1>1
<1>3. it.side = SideOf[s] /\ it.odds = prices[s].odds
      /\ SelectionStatus(market, prices[s]) = "healthy"
  BY <1>2
<1>4. prices[s] \in PriceRows
  BY DEF ReadRow, MarketRows
<1>5. ~Stale(prices[s].at) /\ prices[s].play = "open"
  BY <1>3, <1>4 DEF SelectionStatus, PriceRows, Play
<1>6. PICK o \in offers : /\ o.at = prices[s].at
                          /\ [side |-> SideOf[s], odds |-> prices[s].odds] \in o.prices
                          /\ o.open <=> prices[s].play = "open"
  BY DEF Quoted
<1> QED BY <1>3, <1>5, <1>6

\* The two prices of a healthy market are all that one open offer named, if
\* they were read as they were written.
LEMMA HealthyIsOneOffer ==
  ASSUME NEW market, NEW selections, NEW prices, NEW ids \in SUBSET Selection, NEW offers,
         ReadRow(market, prices) \in MarketRows, DOMAIN selections = DOMAIN prices,
         Sound(ReadRow(market, prices), offers), market.at # 0,
         MarketStatus(market, selections, prices, ids) = "healthy",
         TwoSided(RenderedMarket(market, selections, prices, ids))
  PROVE  \E o \in offers :
           /\ o.open /\ ~Stale(o.at)
           /\ o.prices =
                {[side |-> side,
                  odds |-> (CHOOSE s \in RenderedMarket(market, selections, prices, ids).selections :
                              s.side = side).odds] : side \in Side}
<1> DEFINE row == ReadRow(market, prices)
           priced == ids \intersect DOMAIN selections
           rendered == RenderedMarket(market, selections, prices, ids).selections
           valid == ValidSelections(market, selections, prices, ids)
           chosen(side) == CHOOSE s \in rendered : s.side = side
<1>1. /\ row.at = market.at /\ row.selections = prices
      /\ market.at \in Nat /\ \A s \in DOMAIN prices : prices[s] \in PriceRows
      /\ DOMAIN prices \subseteq Selection
  BY DEF ReadRow, MarketRows
<1>2. /\ IsFiniteSet(ids) /\ IsFiniteSet(priced) /\ IsFiniteSet(rendered)
      /\ Cardinality(rendered) = Cardinality(priced)
  BY MonitorReadsAssumption, FS_Subset, RenderedSize
<1>3. /\ Cardinality(rendered) = 2 /\ {s.side : s \in rendered} = Side
      /\ \A s \in rendered : s.status = "healthy"
  BY DEF TwoSided
<1>4. ~Stale(market.at) /\ ~(Cardinality(valid) < 2)
  BY DEF MarketStatus
<1>5. Sound(row, offers)
  OBVIOUS
<1> HIDE DEF row
<1>6. valid \subseteq priced /\ valid \subseteq Newest(row)
  <2>1. \A s \in DOMAIN prices : prices[s].at <= market.at /\ prices[s].at \in Nat
    BY <1>1, <1>5 DEF Sound, PriceRows
  <2> QED BY <1>1, <2>1 DEF ValidSelections, Newest
<1>7. valid = priced
  <2>1. Cardinality(valid) \in Nat /\ Cardinality(valid) <= 2
    BY <1>2, <1>3, <1>6, FS_Subset, FS_CardinalityType
  <2> QED BY <1>2, <1>3, <1>4, <1>6, <2>1, FS_Subset
<1>8. valid = Newest(row)
  <2>1. Newest(row) \subseteq Selection
    BY <1>1 DEF Newest
  <2>2. IsFiniteSet(Newest(row)) /\ Cardinality(Newest(row)) \in Nat
    BY <2>1, MonitorReadsAssumption, FS_Subset, FS_CardinalityType
  <2>3. Cardinality(valid) = 2
    BY <1>2, <1>3, <1>7
  <2>4. Cardinality(Newest(row)) <= 2 /\ Cardinality(valid) <= Cardinality(Newest(row))
    BY <1>5, <1>6, <2>2, FS_Subset DEF Sound
  <2>5. Cardinality(Newest(row)) = Cardinality(valid)
    BY <2>2, <2>3, <2>4
  <2> QED BY <1>6, <2>2, <2>5, FS_Subset
<1>9. PICK o \in offers :
        /\ o.at = row.at
        /\ o.prices = PricesOf(row, Newest(row))
        /\ \A s \in Newest(row) : o.open <=> row.selections[s].play = "open"
  BY <1>1, <1>5, Zenon DEF Sound
<1>10. \A side \in Side : chosen(side) \in rendered /\ chosen(side).side = side
  BY <1>3
<1>11. rendered = {chosen("teamA"), chosen("teamB")}
  <2>1. "teamA" \in Side /\ "teamB" \in Side
    BY DEF Side
  <2>2. chosen("teamA") # chosen("teamB")
    BY <1>10, <2>1
  <2> HIDE DEF chosen, rendered
  <2>3. Cardinality({chosen("teamA"), chosen("teamB")}) = 2
    BY <2>2, PairCardinality
  <2>4. {chosen("teamA"), chosen("teamB")} \subseteq rendered
    BY <1>10, <2>1
  <2> QED BY <1>2, <1>3, <2>3, <2>4, FS_Subset
<1>12. rendered = {[id |-> s, side |-> SideOf[s], odds |-> prices[s].odds,
                    status |-> SelectionStatus(market, prices[s])] : s \in priced}
  BY DEF RenderedMarket
<1>13. priced \subseteq DOMAIN prices
  OBVIOUS
<1> HIDE DEF rendered, chosen, priced, valid
<1>14. ASSUME NEW s \in priced
       PROVE  /\ SideOf[s] \in Side
              /\ chosen(SideOf[s]).odds = prices[s].odds
              /\ prices[s].play = "open"
  <2> DEFINE it == [id |-> s, side |-> SideOf[s], odds |-> prices[s].odds,
                    status |-> SelectionStatus(market, prices[s])]
  <2>1. /\ it \in rendered /\ it.side = SideOf[s] /\ it.odds = prices[s].odds
        /\ it.status = SelectionStatus(market, prices[s])
    BY <1>12
  <2> HIDE DEF it
  <2>2. SideOf[s] \in Side
    BY <1>3, <2>1
  <2>3. it = chosen("teamA") \/ it = chosen("teamB")
    BY <1>11, <2>1
  <2>4. it = chosen(SideOf[s])
    BY <1>10, <2>1, <2>2, <2>3 DEF Side
  <2>5. SelectionStatus(market, prices[s]) = "healthy" /\ prices[s] \in PriceRows
    BY <1>1, <1>3, <1>13, <2>1
  <2>6. prices[s].play = "open"
    BY <2>5 DEF SelectionStatus, PriceRows, Play
  <2> QED BY <2>1, <2>2, <2>4, <2>6
<1>15. \A side \in Side : \E s \in priced : SideOf[s] = side
  BY <1>3, <1>12
<1>16. PricesOf(row, priced) =
         {[side |-> side, odds |-> chosen(side).odds] : side \in Side}
  BY <1>1, <1>14, <1>15 DEF PricesOf
<1>17. o.open /\ ~Stale(o.at)
  <2>1. PICK s \in priced : TRUE
    BY <1>15 DEF Side
  <2>2. row.selections[s].play = "open" /\ s \in Newest(row)
    BY <1>1, <1>7, <1>8, <1>14, <2>1
  <2> QED BY <1>1, <1>4, <1>9, <2>2
<1>18. o.prices = {[side |-> side, odds |-> chosen(side).odds] : side \in Side}
  BY <1>7, <1>8, <1>9, <1>16
<1> QED BY <1>17, <1>18 DEF chosen, rendered

\* The book of p is drawn from market m of the rows a request has, which is
\* healthy and has two prices.
DrawnFrom(p, m) ==
  LET market == request.got.markets[p][m]
      selections == request.got.selections[p][m]
      prices == request.got.prices[p][m]
      ids == request.got.batches[p][m]
      rendered == RenderedMarket(market, selections, prices, ids)
  IN /\ market.at # 0 /\ ids \in SUBSET Selection
     /\ MarketStatus(market, selections, prices, ids) = "healthy"
     /\ TwoSided(rendered)
     /\ \A side \in Side : Analytics.books[p][side]
          = (CHOOSE s \in rendered.selections : s.side = side).odds
     /\ ReadRow(market, prices) \in MarketRows
     /\ DOMAIN selections = DOMAIN prices
     /\ \A s \in DOMAIN prices : Quoted(s, prices[s], offered[p])
     /\ p \notin overtaken => Sound(ReadRow(market, prices), offered[p])

LEMMA BookOfRows ==
  ASSUME Inv, Complete({"events", "detail"}), NEW p \in DOMAIN Analytics.books
  PROVE  p \in Provider /\ \E m \in Market : DrawnFrom(p, m)
<1> DEFINE compared == request.got.group.members \intersect request.got.eligible
           rendered == [q \in compared |-> Rendered(q)]
           batch == request.got.batches[p]
           made(k) == RenderedMarket(request.got.markets[p][k], request.got.selections[p][k],
                                     request.got.prices[p][k], batch[k])
<1>1. {"eligible", "prices", "batches"} \subseteq DOMAIN request.got
  BY DEF Complete, Queries
<1>2. Analytics.books = Books(rendered)
  <2>1. Analytics = AnalyzeMarkets(request.got.group.canonical, request.got.group.status,
                                   Confidence, rendered)
    BY DEF Analytics
  <2> HIDE DEF rendered
  <2>2. Analytics.books = Books(rendered) \/ Analytics.books = << >>
    BY <2>1 DEF AnalyzeMarkets, Nothing
  <2> QED BY <2>2
<1> HIDE DEF rendered
<1>3. PICK m \in Entries(rendered[p]) :
        /\ p \in DOMAIN rendered /\ TwoSided(m)
        /\ Books(rendered)[p] =
             [side \in Side |-> (CHOOSE s \in m.selections : s.side = side).odds]
  BY <1>2, BookOfMarket
<1>4. p \in Provider /\ rendered[p] = Rendered(p)
  BY <1>1, <1>3 DEF rendered, Inv, DataInv, ReadInv
<1>5. m \in Rendered(p).markets /\ m.status = "healthy"
  BY <1>3, <1>4 DEF Entries
<1>6. PICK k \in DOMAIN batch : m = made(k) /\ request.got.markets[p][k].at # 0
  BY <1>5 DEF Rendered
<1>7. k \in Market /\ batch[k] \in SUBSET Selection
  <2>1. batch \in Batches
    BY <1>1, <1>4 DEF Inv, DataInv, ReadInv
  <2> QED BY <2>1 DEF Batches
<1>8. MarketStatus(request.got.markets[p][k], request.got.selections[p][k],
                   request.got.prices[p][k], batch[k]) = "healthy"
  BY <1>5, <1>6 DEF RenderedMarket
<1>9. \A side \in Side :
        Analytics.books[p][side] = (CHOOSE s \in made(k).selections : s.side = side).odds
  <2> DEFINE price(market, side) == (CHOOSE s \in market.selections : s.side = side).odds
  <2>1. Analytics.books[p] = [side \in Side |-> price(m, side)]
    BY <1>2, <1>3, Zenon
  <2> HIDE DEF price, made
  <2>2. \A side \in Side : Analytics.books[p][side] = price(made(k), side)
    BY <1>6, <2>1
  <2> QED BY <2>2, Zenon DEF price
<1>10. TwoSided(made(k))
  <2> HIDE DEF made
  <2> QED BY <1>3, <1>6
<1>11. LET prices == request.got.prices[p][k]
           row == ReadRow(request.got.markets[p][k], prices)
       IN /\ DOMAIN prices = DOMAIN request.got.selections[p][k]
          /\ row \in MarketRows
          /\ \A s \in DOMAIN prices : Quoted(s, prices[s], offered[p])
          /\ p \notin overtaken => Sound(row, offered[p])
  BY <1>1, <1>4, <1>7 DEF Inv, DataInv, RowsInv
<1>12. DrawnFrom(p, k)
  BY <1>6, <1>7, <1>8, <1>9, <1>10, <1>11 DEF DrawnFrom
<1> QED BY <1>4, <1>7, <1>12

LEMMA ComparedFromInv == Inv => ComparedPricesWereOffered
<1> SUFFICES ASSUME Inv, Complete({"events", "detail"}),
                    NEW p \in DOMAIN Analytics.books
             PROVE  LET current == {o \in offered[p] : o.open /\ ~Stale(o.at)}
                    IN /\ \A side \in Side : \E o \in current :
                            [side |-> side, odds |-> Analytics.books[p][side]] \in o.prices
                       /\ p \notin overtaken => \E o \in current :
                            o.prices = {[side |-> side, odds |-> Analytics.books[p][side]] :
                                          side \in Side}
  BY Zenon DEF ComparedPricesWereOffered
<1>1. PICK m \in Market : DrawnFrom(p, m)
  BY BookOfRows
<1> DEFINE market == request.got.markets[p][m]
           selections == request.got.selections[p][m]
           prices == request.got.prices[p][m]
           ids == request.got.batches[p][m]
           rendered == RenderedMarket(market, selections, prices, ids)
           chosen(side) == CHOOSE s \in rendered.selections : s.side = side
<1>2. ASSUME NEW side \in Side
      PROVE  \E o \in offered[p] :
               /\ o.open /\ ~Stale(o.at)
               /\ [side |-> side, odds |-> Analytics.books[p][side]] \in o.prices
  <2>1. TwoSided(rendered) /\ Analytics.books[p][side] = chosen(side).odds
    BY <1>1 DEF DrawnFrom
  <2>2. /\ ReadRow(market, prices) \in MarketRows /\ DOMAIN selections = DOMAIN prices
        /\ \A s \in DOMAIN prices : Quoted(s, prices[s], offered[p])
    BY <1>1 DEF DrawnFrom
  <2> HIDE DEF market, selections, prices, ids
  <2>3. /\ chosen(side) \in rendered.selections /\ chosen(side).side = side
        /\ chosen(side).status = "healthy"
    <3> HIDE DEF rendered
    <3> QED BY <2>1 DEF TwoSided
  <2> HIDE DEF chosen
  <2>4. \E o \in offered[p] :
          /\ o.open /\ ~Stale(o.at)
          /\ [side |-> chosen(side).side, odds |-> chosen(side).odds] \in o.prices
    BY <2>2, <2>3, HealthyIsQuoted
  <2> QED BY <2>1, <2>3, <2>4
<1>3. ASSUME p \notin overtaken
      PROVE  \E o \in offered[p] :
               /\ o.open /\ ~Stale(o.at)
               /\ o.prices = {[side |-> side, odds |-> Analytics.books[p][side]] :
                               side \in Side}
  <2>1. /\ ids \in SUBSET Selection /\ ReadRow(market, prices) \in MarketRows
        /\ DOMAIN selections = DOMAIN prices
        /\ Sound(ReadRow(market, prices), offered[p]) /\ market.at # 0
        /\ MarketStatus(market, selections, prices, ids) = "healthy"
        /\ TwoSided(RenderedMarket(market, selections, prices, ids))
    BY <1>1, <1>3 DEF DrawnFrom
  <2>2. \A side \in Side : Analytics.books[p][side] = chosen(side).odds
    BY <1>1 DEF DrawnFrom
  <2> HIDE DEF market, selections, prices, ids
  <2>3. PICK o \in offered[p] :
          /\ o.open /\ ~Stale(o.at)
          /\ o.prices = {[side |-> side, odds |-> chosen(side).odds] : side \in Side}
    BY <2>1, HealthyIsOneOffer
  <2> HIDE DEF chosen
  <2>4. {[side |-> side, odds |-> chosen(side).odds] : side \in Side}
          = {[side |-> side, odds |-> Analytics.books[p][side]] : side \in Side}
    BY <2>2
  <2> QED BY <2>3, <2>4
<1> QED BY <1>2, <1>3

\* monitor.service.ts, events() and detail(): whatever is published, expires or is
\* withdrawn between the queries of a request, each price a provider is compared with
\* is of an offer of it that was open and is not older than the TTL when the request is
\* answered; and the two are one offer, unless the provider published the event between
\* the query for its markets and that for its prices.
THEOREM OneOfferIsCompared == Spec => []ComparedPricesWereOffered
BY Invariant, ComparedFromInv, PTL

\* Listings with an issue are no fewer than the events they are of.
LEMMA EventsOfIssues ==
  ASSUME NEW issues \in SUBSET Provider, NEW links
  PROVE  LET events == {IF p \in links THEN 0 ELSE p : p \in issues}
         IN /\ Cardinality(events) \in Nat /\ Cardinality(issues) \in Nat
            /\ Cardinality(events) <= Cardinality(issues)
<1> DEFINE of(p) == IF p \in links THEN 0 ELSE p
           events == {of(p) : p \in issues}
           f == [p \in issues |-> of(p)]
<1>1. IsFiniteSet(issues)
  BY MonitorReadsAssumption, FS_Subset
<1> HIDE DEF of
<1>2. f \in Surjection(issues, events)
  BY DEF Surjection
<1> HIDE DEF f, events
<1>3. IsFiniteSet(events) /\ Cardinality(events) <= Cardinality(issues)
  BY <1>1, <1>2, FS_Surjection
<1> QED BY <1>1, <1>3, FS_CardinalityType DEF events, of

LEMMA HealthFromInv == Inv => HealthWasTrue
<1> SUFFICES ASSUME Inv, Complete({"overview"})
             PROVE  \E m \in moments :
                      /\ Health = "critical" <=> m.lost
                      /\ m.troubled => Health # "healthy"
                      /\ Health = "degraded" => m.troubled \/ \E n \in moments : n.many
  BY Zenon DEF HealthWasTrue
<1> DEFINE providers == request.got.providers
           incomplete == IncompleteEvents
           events == Cardinality(request.got.summary)
           down == Down(providers)
           significant == /\ Cardinality(incomplete) >= Significant
                          /\ 10 * Cardinality(incomplete) >= events
<1>1. request.kind = "overview" /\ {"providers", "issues"} \subseteq DOMAIN request.got
  BY DEF Complete, Queries
<1>2. Health = IF Cardinality(down) >= 2 \/ down = Provider THEN "critical"
               ELSE IF Problems(providers) # {} \/ significant THEN "degraded"
               ELSE "healthy"
  BY DEF Health, DataHealth, Down, Problems
<1>3. PICK m \in moments : /\ m.lost <=> Cardinality(down) >= 2 \/ down = Provider
                           /\ m.troubled <=> Problems(providers) # {}
  BY <1>1, Zenon DEF Inv, HealthInv
<1>4. significant => \E n \in moments : n.many
  <2>1. /\ request.got.issues \in SUBSET Provider
        /\ Cardinality(request.got.issues) >= Significant => \E n \in moments : n.many
    BY <1>1 DEF Inv, HealthInv
  <2>2. /\ Cardinality(incomplete) \in Nat /\ Cardinality(request.got.issues) \in Nat
        /\ Cardinality(incomplete) <= Cardinality(request.got.issues)
    BY <2>1, EventsOfIssues DEF IncompleteEvents
  <2>3. Significant \in Nat
    BY MonitorReadsAssumption
  <2> HIDE DEF incomplete
  <2> QED BY <2>1, <2>2, <2>3
<1> HIDE DEF down, providers, significant
<1> QED BY <1>2, <1>3, <1>4

\* monitor.service.ts, overview(), and data-health.ts: the status of the data was true at
\* one moment of the request, whatever was published or expired between its queries:
\* "critical" exactly if so many providers were without data, "healthy" only if every
\* provider had data and none of it was old, and "degraded" for no other reason than such
\* data or, at some moment of the request, many listings with an incomplete market.
THEOREM HealthIsHonest == Spec => []HealthWasTrue
BY Invariant, HealthFromInv, PTL

-----------------------------------------------------------------------------
(* How many prices are value bets.                                         *)

\* Fractions of positive numbers, of finitely many named by numbers.
Fractional(value) ==
  /\ IsFiniteSet(DOMAIN value) /\ DOMAIN value \subseteq Nat
  /\ \A p \in DOMAIN value : value[p][1] \in Nat \ {0} /\ value[p][2] \in Nat \ {0}

LEMMA LessTimes ==
  ASSUME NEW a \in Nat, NEW b \in Nat, NEW c \in Nat, NEW d \in Nat \ {0}
  PROVE  /\ a < b <=> a * d < b * d
         /\ a <= b <=> a * d <= b * d
         /\ a <= b => a * c <= b * c
<1>1. ASSUME a < b PROVE a * d < b * d
  <2>1. (b - a) * d > 0
    BY <1>1, SMT
  <2>2. (b - a) * d = b * d - a * d
    BY SMT
  <2> QED BY <2>1, <2>2, SMT
<1>2. ASSUME a > b PROVE a * d > b * d
  <2>1. (a - b) * d > 0
    BY <1>2, SMT
  <2>2. (a - b) * d = a * d - b * d
    BY SMT
  <2> QED BY <2>1, <2>2, SMT
<1>3. ASSUME a <= b PROVE a * c <= b * c
  <2>1. (b - a) * c >= 0
    BY <1>3, SMT
  <2>2. (b - a) * c = b * c - a * c
    BY SMT
  <2> QED BY <2>1, <2>2, SMT
<1>4. a = b => a * d = b * d
  OBVIOUS
<1> QED BY <1>1, <1>2, <1>3, <1>4, SMT

\* The order of fractions by their cross products is transitive.
LEMMA CrossTransitive ==
  ASSUME NEW a \in Nat \ {0}, NEW b \in Nat \ {0}, NEW c \in Nat \ {0},
         NEW d \in Nat \ {0}, NEW e \in Nat \ {0}, NEW f \in Nat \ {0},
         a * d <= c * b, c * f <= e * d
  PROVE  /\ a * f <= e * b
         /\ a * f = e * b => a * d = c * b /\ c * f = e * d
<1>1. (a * d) * f <= (c * b) * f
  BY LessTimes, SMT
<1>2. (c * f) * b <= (e * d) * b
  BY LessTimes, SMT
<1>3. /\ (a * d) * f = (a * f) * d /\ (c * b) * f = (c * f) * b
      /\ (e * d) * b = (e * b) * d
  BY SMT
<1>4. (a * f) * d <= (e * b) * d
  BY <1>1, <1>2, <1>3, SMT
<1>5. /\ a * f \in Nat /\ e * b \in Nat /\ a * d \in Nat /\ c * b \in Nat
      /\ c * f \in Nat /\ e * d \in Nat
  BY SMT
<1>6. a * f <= e * b
  BY <1>4, <1>5, LessTimes
<1>7. ASSUME a * f = e * b PROVE a * d = c * b /\ c * f = e * d
  <2>1. (a * d) * f = (c * b) * f /\ (c * f) * b = (e * d) * b
    BY <1>1, <1>2, <1>3, <1>7, <1>5, SMT
  <2>2. ~ (a * d < c * b)
    BY <2>1, <1>5, LessTimes
  <2>3. ~ (c * f < e * d)
    BY <2>1, <1>5, LessTimes
  <2> QED BY <2>2, <2>3, <1>5, SMT
<1> QED BY <1>6, <1>7

LEMMA PrecedesOrder ==
  ASSUME NEW value, Fractional(value),
         NEW p \in DOMAIN value, NEW q \in DOMAIN value, NEW r \in DOMAIN value
  PROVE  /\ ~ Precedes(value, p, p)
         /\ p # q => Precedes(value, p, q) \/ Precedes(value, q, p)
         /\ Precedes(value, p, q) /\ Precedes(value, q, r) => Precedes(value, p, r)
<1> DEFINE num(s) == value[s][1]
           den(s) == value[s][2]
<1>1. \A s, t \in {p, q, r} : /\ num(s) \in Nat \ {0} /\ den(t) \in Nat \ {0}
                              /\ s \in Nat
                              /\ num(s) * den(t) \in Nat
  BY SMT DEF Fractional
<1>2. \A s, t \in {p, q, r} : Precedes(value, s, t)
        <=> \/ num(s) * den(t) < num(t) * den(s)
            \/ num(s) * den(t) = num(t) * den(s) /\ s < t
  BY DEF Precedes
<1> HIDE DEF num, den
<1>3. ASSUME Precedes(value, p, q), Precedes(value, q, r) PROVE Precedes(value, p, r)
  <2>1. /\ num(p) * den(q) <= num(q) * den(p)
        /\ num(q) * den(r) <= num(r) * den(q)
    BY <1>1, <1>2, <1>3
  <2>2. /\ num(p) * den(r) <= num(r) * den(p)
        /\ num(p) * den(r) = num(r) * den(p) =>
             num(p) * den(q) = num(q) * den(p) /\ num(q) * den(r) = num(r) * den(q)
    BY <1>1, <2>1, CrossTransitive
  <2>3. CASE num(p) * den(r) = num(r) * den(p)
    <3>1. num(p) * den(q) = num(q) * den(p) /\ num(q) * den(r) = num(r) * den(q)
      BY <2>2, <2>3
    <3>2. p < q /\ q < r
      BY <1>1, <1>2, <1>3, <3>1
    <3> QED BY <1>1, <1>2, <2>3, <3>2
  <2>4. CASE num(p) * den(r) # num(r) * den(p)
    BY <1>1, <1>2, <2>2, <2>4
  <2> QED BY <2>3, <2>4
<1>4. ~ Precedes(value, p, p)
  BY <1>1, <1>2
<1>5. p # q => Precedes(value, p, q) \/ Precedes(value, q, p)
  BY <1>1, <1>2
<1> QED BY <1>3, <1>4, <1>5

\* Each place of the ascending order is taken by one of the values.
LEMMA SortedIsTaken ==
  ASSUME NEW value, Fractional(value), NEW k \in 0..Cardinality(DOMAIN value) - 1
  PROVE  \E p \in DOMAIN value : /\ Sorted(value, k) = value[p]
                                 /\ Cardinality(Ahead(value, p)) = k
<1> DEFINE P == DOMAIN value
           n == Cardinality(P)
           rank == [p \in P |-> Cardinality(Ahead(value, p))]
           ranks == {rank[p] : p \in P}
<1>1. IsFiniteSet(P) /\ n \in Nat
  BY FS_CardinalityType DEF Fractional
<1>2. ASSUME NEW p \in P
      PROVE  /\ Ahead(value, p) \in SUBSET P /\ IsFiniteSet(Ahead(value, p))
             /\ rank[p] \in 0..n - 1
  <2>1. Ahead(value, p) \in SUBSET P /\ p \notin Ahead(value, p)
    BY PrecedesOrder DEF Ahead
  <2>2. /\ IsFiniteSet(Ahead(value, p)) /\ Cardinality(Ahead(value, p)) <= n
        /\ Cardinality(Ahead(value, p)) # n
    BY <1>1, <2>1, FS_Subset
  <2>3. Cardinality(Ahead(value, p)) \in Nat
    BY <2>2, FS_CardinalityType
  <2> QED BY <1>1, <2>1, <2>2, <2>3
<1>3. ASSUME NEW p \in P, NEW q \in P, Precedes(value, p, q)
      PROVE  rank[p] < rank[q]
  <2>1. Ahead(value, p) \subseteq Ahead(value, q)
    BY <1>3, PrecedesOrder DEF Ahead
  <2>2. p \in Ahead(value, q) /\ p \notin Ahead(value, p)
    BY <1>3, PrecedesOrder DEF Ahead
  <2>3. /\ Cardinality(Ahead(value, p)) <= Cardinality(Ahead(value, q))
        /\ Cardinality(Ahead(value, p)) # Cardinality(Ahead(value, q))
    BY <1>2, <2>1, <2>2, FS_Subset
  <2> QED BY <1>2, <2>3
<1>4. \A p, q \in P : rank[p] = rank[q] => p = q
  BY <1>2, <1>3, PrecedesOrder
<1> HIDE DEF rank
<1>5. /\ rank \in Surjection(P, ranks) /\ rank \in Injection(P, ranks)
  <2>1. DOMAIN rank = P /\ rank = [p \in P |-> rank[p]]
    BY DEF rank
  <2> QED BY <1>4, <2>1 DEF Surjection, Injection, IsInjective
<1>6. IsFiniteSet(ranks) /\ Cardinality(ranks) = n
  BY <1>1, <1>5, FS_Surjection
<1>7. ranks \in SUBSET (0..n - 1)
  BY <1>2
<1>8. IsFiniteSet(0..n - 1) /\ Cardinality(0..n - 1) = n
  <2>1. n - 1 \in Int /\ 0 \in Int
    BY <1>1
  <2>2. IsFiniteSet(0..n - 1) /\ Cardinality(0..n - 1) = IF 0 > n - 1 THEN 0 ELSE n - 1 - 0 + 1
    BY <2>1, FS_Interval
  <2> QED BY <1>1, <2>2
<1> HIDE DEF ranks
<1>9. ranks = 0..n - 1
  BY <1>6, <1>7, <1>8, FS_Subset
<1>10. \E p \in P : Cardinality(Ahead(value, p)) = k
  <2>1. k \in ranks
    BY <1>9
  <2>2. \E p \in P : rank[p] = k
    BY <2>1 DEF ranks
  <2> QED BY <2>2 DEF rank
<1> DEFINE it == CHOOSE p \in P : Cardinality(Ahead(value, p)) = k
<1>11. it \in P /\ Cardinality(Ahead(value, it)) = k
  BY <1>10
<1>12. Sorted(value, k) = value[it]
  BY DEF Sorted
<1> QED BY <1>11, <1>12

\* What is less than the mean of two fractions is less than the larger.
LEMMA BelowMean ==
  ASSUME NEW a \in Nat \ {0}, NEW b \in Nat \ {0}, NEW c \in Nat \ {0},
         NEW d \in Nat \ {0}, NEW e \in Nat \ {0}, NEW f \in Nat \ {0},
         a * d <= c * b, e * (2 * b * d) < (a * d + c * b) * f
  PROVE  e * d < c * f
<1>1. /\ a * d \in Nat /\ c * b \in Nat /\ e * d \in Nat /\ c * f \in Nat
  BY SMT
<1>2. (a * d + c * b) * f <= (2 * (c * b)) * f
  <2>1. a * d + c * b <= 2 * (c * b) /\ a * d + c * b \in Nat /\ 2 * (c * b) \in Nat
    BY <1>1, SMT
  <2> QED BY <2>1, LessTimes
<1>3. e * (2 * b * d) = (e * d) * (2 * b) /\ (2 * (c * b)) * f = (c * f) * (2 * b)
  BY SMT
<1>4. (e * d) * (2 * b) < (c * f) * (2 * b)
  <2>1. /\ e * (2 * b * d) \in Int /\ (a * d + c * b) * f \in Int /\ (2 * (c * b)) * f \in Int
    BY SMT
  <2> QED BY <1>2, <1>3, <2>1
<1>5. 2 * b \in Nat \ {0}
  BY SMT
<1> QED BY <1>1, <1>4, <1>5, LessTimes

\* At most half of the values are less than the median.
LEMMA BelowMedian ==
  ASSUME NEW value, Fractional(value), NEW S \in SUBSET DOMAIN value,
         \A p \in S : value[p][1] * Median(value)[2] < Median(value)[1] * value[p][2]
  PROVE  IsFiniteSet(S) /\ 2 * Cardinality(S) <= Cardinality(DOMAIN value)
<1> DEFINE n == Cardinality(DOMAIN value)
<1>1. IsFiniteSet(DOMAIN value) /\ n \in Nat /\ IsFiniteSet(S)
  BY FS_CardinalityType, FS_Subset DEF Fractional
<1>2. ASSUME S # {} PROVE 2 * Cardinality(S) <= n
  <2>1. n # 0
    BY <1>1, <1>2, FS_EmptySet
  <2>2. n \div 2 \in 0..n - 1
    BY <1>1, <2>1
  <2>3. PICK u \in DOMAIN value : /\ Sorted(value, n \div 2) = value[u]
                                  /\ Cardinality(Ahead(value, u)) = n \div 2
    BY <2>2, SortedIsTaken
  <2>4. S \subseteq Ahead(value, u)
    <3> SUFFICES ASSUME NEW p \in S PROVE p \in Ahead(value, u)
      OBVIOUS
    <3>1. /\ value[p][1] \in Nat \ {0} /\ value[p][2] \in Nat \ {0}
          /\ value[u][1] \in Nat \ {0} /\ value[u][2] \in Nat \ {0}
      BY DEF Fractional
    <3>2. CASE n % 2 = 1
      <4>1. Median(value) = value[u]
        BY <2>3, <3>2 DEF Median
      <4> QED BY <4>1 DEF Ahead, Precedes
    <3>3. CASE n % 2 # 1
      <4>1. (n \div 2) - 1 \in 0..n - 1 /\ (n \div 2) - 1 < n \div 2
        BY <1>1, <2>1, <3>3
      <4>2. PICK l \in DOMAIN value : /\ Sorted(value, (n \div 2) - 1) = value[l]
                                      /\ Cardinality(Ahead(value, l)) = (n \div 2) - 1
        BY <4>1, SortedIsTaken
      <4>3. /\ value[l][1] \in Nat \ {0} /\ value[l][2] \in Nat \ {0}
        BY DEF Fractional
      <4>4. ~ Precedes(value, u, l)
        <5> SUFFICES ASSUME Precedes(value, u, l) PROVE FALSE
          OBVIOUS
        <5>1. Ahead(value, u) \subseteq Ahead(value, l)
          BY PrecedesOrder DEF Ahead
        <5>2. Ahead(value, l) \in SUBSET DOMAIN value
          BY DEF Ahead
        <5>3. Cardinality(Ahead(value, u)) <= Cardinality(Ahead(value, l))
          BY <1>1, <5>1, <5>2, FS_Subset
        <5>4. n \div 2 \in Int
          BY <1>1
        <5> HIDE DEF n
        <5> QED BY <2>3, <4>1, <4>2, <5>3, <5>4
      <4>5. Median(value) = <<value[l][1] * value[u][2] + value[u][1] * value[l][2],
                              2 * value[l][2] * value[u][2]>>
        BY <2>3, <3>3, <4>2 DEF Median
      <4>6. value[l][1] * value[u][2] <= value[u][1] * value[l][2]
        BY <3>1, <4>3, <4>4, SMT DEF Precedes
      <4>7. value[p][1] * (2 * value[l][2] * value[u][2])
              < (value[l][1] * value[u][2] + value[u][1] * value[l][2]) * value[p][2]
        BY <4>5
      <4>8. value[p][1] * value[u][2] < value[u][1] * value[p][2]
        BY <3>1, <4>3, <4>6, <4>7, BelowMean
      <4> QED BY <4>8 DEF Ahead, Precedes
    <3> QED BY <3>2, <3>3
  <2>5. IsFiniteSet(Ahead(value, u)) /\ Ahead(value, u) \subseteq DOMAIN value
    BY <1>1, FS_Subset DEF Ahead
  <2>6. Cardinality(S) <= n \div 2 /\ Cardinality(S) \in Nat
    BY <1>1, <2>3, <2>4, <2>5, FS_Subset, FS_CardinalityType
  <2> QED BY <1>1, <2>6
<1>3. S = {} => Cardinality(S) = 0
  BY FS_EmptySet
<1> QED BY <1>1, <1>2, <1>3

\* Two prices of each of finitely many providers, each above 1.
Priced(books) ==
  /\ IsFiniteSet(DOMAIN books) /\ DOMAIN books \subseteq Nat
  /\ \A p \in DOMAIN books : \A side \in Side :
       books[p][side] \in Nat /\ books[p][side] > 100

\* A book with a margin pays no more than its own fair price.
LEMMA MarginIsFair ==
  ASSUME NEW a \in Nat \ {0}, NEW b \in Nat \ {0}, 100 * (a + b) >= a * b,
         NEW num \in Nat \ {0}, NEW den \in Nat \ {0},
         a * num >= (100 + ValuePercent) * den
  PROVE  b * den < num * (a + b)
<1>1. /\ a + b \in Nat \ {0} /\ a * b \in Nat /\ b * den \in Nat /\ a * num \in Nat
      /\ num * (a + b) \in Nat /\ ValuePercent * den \in Nat \ {0}
      /\ (100 + ValuePercent) * den \in Nat /\ 100 * den \in Nat
  BY AnalyticsAssumption, SMT
<1>2. (a * b) * den <= (100 * (a + b)) * den
  <2>1. 100 * (a + b) \in Nat
    BY <1>1, SMT
  <2> QED BY <1>1, <2>1, LessTimes
<1>3. (100 * den) * (a + b) < (a * num) * (a + b)
  <2>1. 100 * den < a * num
    <3>1. (100 + ValuePercent) * den = 100 * den + ValuePercent * den
      BY AnalyticsAssumption, SMT
    <3>2. 100 * den < 100 * den + ValuePercent * den
      BY <1>1, SMT
    <3> QED BY <1>1, <3>1, <3>2, SMT
  <2> QED BY <1>1, <2>1, LessTimes
<1>4. /\ (a * b) * den = (b * den) * a
      /\ (100 * (a + b)) * den = (100 * den) * (a + b)
      /\ (a * num) * (a + b) = (num * (a + b)) * a
  BY SMT
<1>5. (b * den) * a < (num * (a + b)) * a
  <2>1. /\ (b * den) * a \in Int /\ (100 * den) * (a + b) \in Int
        /\ (num * (a + b)) * a \in Int
    BY <1>1, SMT
  <2> QED BY <1>2, <1>3, <1>4, <2>1
<1> QED BY <1>1, <1>5, LessTimes

\* The median of positive fractions is a positive fraction.
LEMMA MedianPositive ==
  ASSUME NEW value, Fractional(value), DOMAIN value # {}
  PROVE  Median(value)[1] \in Nat \ {0} /\ Median(value)[2] \in Nat \ {0}
<1> DEFINE n == Cardinality(DOMAIN value)
<1>1. n \in Nat /\ n # 0
  BY FS_CardinalityType, FS_EmptySet DEF Fractional
<1>2. n \div 2 \in 0..n - 1
  BY <1>1
<1>3. PICK u \in DOMAIN value : Sorted(value, n \div 2) = value[u]
  BY <1>2, SortedIsTaken
<1>4. value[u][1] \in Nat \ {0} /\ value[u][2] \in Nat \ {0}
  BY DEF Fractional
<1>5. CASE n % 2 = 1
  BY <1>3, <1>4, <1>5 DEF Median
<1>6. CASE n % 2 # 1
  <2>1. (n \div 2) - 1 \in 0..n - 1
    BY <1>1, <1>6
  <2>2. PICK l \in DOMAIN value : Sorted(value, (n \div 2) - 1) = value[l]
    BY <2>1, SortedIsTaken
  <2>3. value[l][1] \in Nat \ {0} /\ value[l][2] \in Nat \ {0}
    BY DEF Fractional
  <2>4. Median(value) = <<value[l][1] * value[u][2] + value[u][1] * value[l][2],
                          2 * value[l][2] * value[u][2]>>
    BY <1>3, <1>6, <2>2 DEF Median
  <2>5. /\ value[l][1] * value[u][2] + value[u][1] * value[l][2] \in Nat \ {0}
        /\ 2 * value[l][2] * value[u][2] \in Nat \ {0}
    BY <1>4, <2>3, SMT
  <2> QED BY <2>4, <2>5
<1> QED BY <1>5, <1>6

\* Where every book has a margin, at most half of the prices of a side are value bets.
LEMMA ValueBetsOfBooks ==
  ASSUME NEW books, Priced(books), NEW status, NEW confidence, NEW side \in Side,
         \A p \in DOMAIN books :
           100 * (books[p]["teamA"] + books[p]["teamB"])
             >= books[p]["teamA"] * books[p]["teamB"]
  PROVE  2 * Cardinality({v \in ValueBets(books, status, confidence) : v[2] = side})
           <= Cardinality(DOMAIN books)
<1> DEFINE value == [p \in DOMAIN books |-> Fair(books[p], side)]
           M == Median(value)
           bets == {v \in ValueBets(books, status, confidence) : v[2] = side}
           S == {v[1] : v \in bets}
           first == [v \in bets |-> v[1]]
<1>1. Side = {side, Opposite(side)} /\ Opposite(side) \in Side
  BY DEF Side, Opposite
<1>2. ASSUME NEW p \in DOMAIN books
      PROVE  /\ books[p][side] \in Nat \ {0} /\ books[p][Opposite(side)] \in Nat \ {0}
             /\ value[p] = <<books[p][Opposite(side)],
                             books[p][side] + books[p][Opposite(side)]>>
             /\ 100 * (books[p][side] + books[p][Opposite(side)])
                  >= books[p][side] * books[p][Opposite(side)]
  <2>1. /\ books[p][side] \in Nat /\ books[p][side] > 100
        /\ books[p][Opposite(side)] \in Nat /\ books[p][Opposite(side)] > 100
    BY <1>1 DEF Priced
  <2>2. \/ side = "teamA" /\ Opposite(side) = "teamB"
        \/ side = "teamB" /\ Opposite(side) = "teamA"
    BY <1>1 DEF Side
  <2>3. value[p] = <<books[p][Opposite(side)], books[p]["teamA"] + books[p]["teamB"]>>
    BY DEF Fair
  <2>4. CASE side = "teamA" /\ Opposite(side) = "teamB"
    BY <2>1, <2>3, <2>4
  <2>5. CASE side = "teamB" /\ Opposite(side) = "teamA"
    <3>1. /\ books[p]["teamA"] + books[p]["teamB"] = books[p]["teamB"] + books[p]["teamA"]
          /\ books[p]["teamA"] * books[p]["teamB"] = books[p]["teamB"] * books[p]["teamA"]
      BY <2>1, <2>5, SMT
    <3> QED BY <2>1, <2>3, <2>5, <3>1
  <2> QED BY <2>2, <2>4, <2>5
<1>3. Fractional(value) /\ DOMAIN value = DOMAIN books
  <2>1. DOMAIN value = DOMAIN books
    OBVIOUS
  <2> HIDE DEF value
  <2>2. \A p \in DOMAIN value : value[p][1] \in Nat \ {0} /\ value[p][2] \in Nat \ {0}
    BY <1>2, <2>1
  <2> QED BY <2>1, <2>2 DEF Fractional, Priced
<1>4. M = FairProbability(books, side)
  BY DEF FairProbability
<1>5. ASSUME NEW v \in bets
      PROVE  /\ v = <<v[1], side>> /\ v[1] \in DOMAIN books
             /\ books[v[1]][side] * M[1] >= (100 + ValuePercent) * M[2]
  BY <1>4 DEF ValueBets
<1> HIDE DEF value, M
<1>6. ASSUME NEW p \in S
      PROVE  p \in DOMAIN value /\ value[p][1] * M[2] < M[1] * value[p][2]
  <2>1. /\ p \in DOMAIN books
        /\ books[p][side] * M[1] >= (100 + ValuePercent) * M[2]
    BY <1>5
  <2>2. M[1] \in Nat \ {0} /\ M[2] \in Nat \ {0}
    BY <1>3, <2>1, MedianPositive DEF M
  <2>3. books[p][Opposite(side)] * M[2]
          < M[1] * (books[p][side] + books[p][Opposite(side)])
    BY <1>2, <2>1, <2>2, MarginIsFair
  <2> QED BY <1>2, <1>3, <2>1, <2>3
<1> HIDE DEF bets
<1>7. IsFiniteSet(S) /\ 2 * Cardinality(S) <= Cardinality(DOMAIN books)
  <2>1. S \in SUBSET DOMAIN value
    BY <1>6
  <2> HIDE DEF S
  <2> QED BY <1>3, <1>6, <2>1, BelowMedian DEF M
<1>8. first \in Injection(bets, S)
  <2>1. \A v, w \in bets : v[1] = w[1] => v = w
    BY <1>5
  <2> QED BY <2>1 DEF Injection, IsInjective
<1> HIDE DEF S, first
<1>9. Cardinality(bets) <= Cardinality(S) /\ IsFiniteSet(bets)
  BY <1>7, <1>8, FS_Injection
<1>10. Cardinality(bets) \in Nat /\ Cardinality(S) \in Nat /\ Cardinality(DOMAIN books) \in Nat
  BY <1>7, <1>9, FS_CardinalityType DEF Priced
<1> QED BY <1>7, <1>9, <1>10 DEF bets

\* The books of a complete request are the prices of known providers.
LEMMA BooksArePriced ==
  ASSUME Inv, Complete({"events", "detail"})
  PROVE  Priced(Analytics.books)
<1>1. DOMAIN Analytics.books \subseteq Provider
  BY BookOfRows
<1>2. IsFiniteSet(DOMAIN Analytics.books) /\ DOMAIN Analytics.books \subseteq Nat
  BY <1>1, MonitorReadsAssumption, FS_Subset
<1>3. ASSUME NEW p \in DOMAIN Analytics.books, NEW side \in Side
      PROVE  Analytics.books[p][side] \in Nat /\ Analytics.books[p][side] > 100
  <2>1. PICK m \in Market : DrawnFrom(p, m)
    BY BookOfRows
  <2> DEFINE market == request.got.markets[p][m]
             selections == request.got.selections[p][m]
             prices == request.got.prices[p][m]
             ids == request.got.batches[p][m]
             rendered == RenderedMarket(market, selections, prices, ids)
             it == CHOOSE s \in rendered.selections : s.side = side
  <2>2. TwoSided(rendered) /\ Analytics.books[p][side] = it.odds
    BY <2>1 DEF DrawnFrom
  <2>3. it \in rendered.selections /\ it.odds > 100
    <3> HIDE DEF rendered
    <3> QED BY <2>2 DEF TwoSided
  <2>4. rendered.selections = {[id |-> s, side |-> SideOf[s], odds |-> prices[s].odds,
                                status |-> SelectionStatus(market, prices[s])] :
                                 s \in ids \intersect DOMAIN selections}
    BY DEF RenderedMarket
  <2>5. DOMAIN selections = DOMAIN prices /\ ReadRow(market, prices) \in MarketRows
    BY <2>1 DEF DrawnFrom
  <2> HIDE DEF it, rendered, market, selections, prices, ids
  <2>6. PICK s \in DOMAIN prices : it.odds = prices[s].odds
    BY <2>3, <2>4, <2>5
  <2>7. prices[s].odds \in Nat
    BY <2>5, <2>6 DEF ReadRow, MarketRows, PriceRows
  <2> QED BY <2>3, <2>2, <2>6, <2>7
<1> QED BY <1>2, <1>3 DEF Priced

LEMMA ValuesFromInv == Inv => ValueBetsAreAtMostHalf
<1> DEFINE books == Analytics.books
<1> SUFFICES ASSUME Inv, Complete({"events", "detail"}),
                    \A p \in DOMAIN books :
                      100 * (books[p]["teamA"] + books[p]["teamB"])
                        >= books[p]["teamA"] * books[p]["teamB"],
                    NEW side \in Side
             PROVE  2 * Cardinality({v \in Analytics.values : v[2] = side})
                      <= Cardinality(DOMAIN books)
  BY Zenon DEF ValueBetsAreAtMostHalf
<1>1. Priced(books)
  BY BooksArePriced
<1>2. \/ Analytics.values = ValueBets(books, request.got.group.status, Confidence)
      \/ Analytics.values = {}
  BY DEF Analytics, AnalyzeMarkets, Nothing
<1> HIDE DEF books
<1>3. CASE Analytics.values = {}
  <2>1. {v \in Analytics.values : v[2] = side} = {}
    BY <1>3
  <2>2. Cardinality(DOMAIN books) \in Nat
    BY <1>1, FS_CardinalityType DEF Priced
  <2>3. Cardinality({v \in Analytics.values : v[2] = side}) = 0
    BY <2>1, FS_EmptySet
  <2> QED BY <2>2, <2>3
<1>4. CASE Analytics.values = ValueBets(books, request.got.group.status, Confidence)
  BY <1>1, <1>4, ValueBetsOfBooks
<1> QED BY <1>2, <1>3, <1>4

\* market-analytics.ts, analyzeMarkets(): whatever the bookmakers offer, and whatever
\* is published while a request is answered, at most half of the prices of a side are
\* shown as value bets, as long as no book pays out more than it takes.  A median
\* needs no more: half of the fair prices are not below it, and theirs do not beat it.
THEOREM ValueBetsAreTheFewer == Spec => []ValueBetsAreAtMostHalf
BY Invariant, ValuesFromInv, PTL

-----------------------------------------------------------------------------
(* Functions defined step by step.                                         *)

\* Induction up to a bound, on a set.
LEMMA Induct ==
  ASSUME NEW N \in Nat, NEW T, 0 \in T, \A n \in 1..N : n - 1 \in T => n \in T
  PROVE  \A n \in 0..N : n \in T
<1> DEFINE bad == {n \in 0..N : n \notin T}
<1> SUFFICES ASSUME bad # {} PROVE FALSE
  OBVIOUS
<1>1. bad \subseteq Nat
  OBVIOUS
<1>2. PICK n \in bad : \A m \in bad : ~ (<<m, n>> \in OpToRel(<, Nat))
  <2> HIDE DEF bad
  <2> QED BY <1>1, NatLessThanWellFounded, WFMin
<1>3. \A m \in bad : ~ (m < n)
  BY <1>1, <1>2 DEF OpToRel
<1>4. n \in 1..N /\ n - 1 \in 0..N
  OBVIOUS
<1>5. n - 1 \notin bad
  BY <1>3, <1>4
<1> QED BY <1>4, <1>5

\* What each of N steps makes of the value before it.
Steps(N, S) == [1..N -> [S -> S]]

Follows(f, base, N, S, step) ==
  /\ f \in [0..N -> S]
  /\ f[0] = base
  /\ \A n \in 1..N : f[n] = step[n][f[n - 1]]

\* There is a function that follows such steps.
LEMMA Recursion ==
  ASSUME NEW S, NEW base \in S, NEW N \in Nat, NEW step \in Steps(N, S)
  PROVE  \E f : Follows(f, base, N, S, step)
<1> DEFINE Is(f, n) == f[0] = base /\ \A k \in 1..n : f[k] = step[k][f[k - 1]]
           T == {n \in 0..N : \E f \in [0..n -> S] : Is(f, n)}
<1> USE DEF Steps
<1>1. 0 \in T
  <2> DEFINE f == [k \in 0..0 |-> base]
  <2>1. f \in [0..0 -> S] /\ f[0] = base
    OBVIOUS
  <2> HIDE DEF f
  <2>2. Is(f, 0)
    BY <2>1
  <2>3. \E h \in [0..0 -> S] : Is(h, 0)
    BY <2>1, <2>2
  <2>4. 0 \in 0..N
    OBVIOUS
  <2> HIDE DEF Is
  <2> QED BY <2>3, <2>4
<1>2. ASSUME NEW n \in 1..N, n - 1 \in T PROVE n \in T
  <2>1. PICK f \in [0..n - 1 -> S] : Is(f, n - 1)
    BY <1>2
  <2> DEFINE g == [k \in 0..n |-> IF k = n THEN step[n][f[n - 1]] ELSE f[k]]
  <2>2. \A k \in 0..n - 1 : g[k] = f[k] /\ f[k] \in S
    BY <2>1
  <2>3. g[n] = step[n][f[n - 1]] /\ g[n] \in S
    BY <2>2
  <2>4. g \in [0..n -> S]
    BY <2>2, <2>3
  <2>5. \A k \in 1..n - 1 : k \in 0..n - 1 /\ k - 1 \in 0..n - 1
    OBVIOUS
  <2>6. \A k \in 1..n : k = n \/ k \in 1..n - 1
    OBVIOUS
  <2>7. n - 1 \in 0..n - 1 /\ 0 \in 0..n - 1
    OBVIOUS
  <2> HIDE DEF g
  <2>8. Is(g, n)
    BY <2>1, <2>2, <2>3, <2>5, <2>6, <2>7
  <2>9. n \in 0..N
    OBVIOUS
  <2> HIDE DEF Is
  <2> QED BY <2>4, <2>8, <2>9
<1> HIDE DEF T
<1>3. \A n \in 0..N : n \in T
  BY <1>1, <1>2, Induct
<1>4. N \in T
  BY <1>3
<1> QED BY <1>4 DEF T, Follows

-----------------------------------------------------------------------------
(* Sequences of events. *)

\* The places of s have different rows.
RowsApart(s) == \A i, j \in 1..Len(s) : s[i].row = s[j].row => i = j

LEMMA AppendFacts ==
  ASSUME NEW E, NEW s \in Seq(E), NEW x \in E
  PROVE  /\ Append(s, x) \in Seq(E)
         /\ Members(Append(s, x)) = Members(s) \cup {x}
         /\ RowsApart(s) /\ x.row \notin RowsOf(s) => RowsApart(Append(s, x))
<1> DEFINE t == Append(s, x)
<1>1. /\ t \in Seq(E) /\ Len(t) = Len(s) + 1 /\ Len(s) \in Nat
      /\ \A i \in 1..Len(s) : t[i] = s[i]
      /\ t[Len(s) + 1] = x
  OBVIOUS
<1>2. \A i \in 1..Len(t) : i \in 1..Len(s) \/ i = Len(s) + 1
  BY <1>1
<1>3. 1..Len(s) \subseteq 1..Len(t) /\ Len(s) + 1 \in 1..Len(t)
  BY <1>1
<1> HIDE DEF t
<1>4. Members(t) = Members(s) \cup {x}
  BY <1>1, <1>2, <1>3 DEF Members
<1>5. ASSUME RowsApart(s), x.row \notin RowsOf(s) PROVE RowsApart(t)
  <2>1. \A i \in 1..Len(s) : s[i].row # x.row
    BY <1>5 DEF RowsOf, Members
  <2> QED BY <1>1, <1>2, <1>5, <2>1 DEF RowsApart
<1> QED BY <1>1, <1>4, <1>5 DEF t

LEMMA ConcatFacts ==
  ASSUME NEW E, NEW s \in Seq(E), NEW u \in Seq(E)
  PROVE  /\ s \o u \in Seq(E)
         /\ Members(s \o u) = Members(s) \cup Members(u)
         /\ RowsApart(s) /\ RowsApart(u) /\ RowsOf(s) \cap RowsOf(u) = {}
              => RowsApart(s \o u)
<1> DEFINE t == s \o u
<1>1. /\ t \in Seq(E) /\ Len(t) = Len(s) + Len(u) /\ Len(s) \in Nat /\ Len(u) \in Nat
      /\ \A i \in 1..Len(s) : t[i] = s[i]
      /\ \A i \in 1..Len(u) : t[Len(s) + i] = u[i]
  OBVIOUS
<1>2. \A i \in 1..Len(t) : i \in 1..Len(s) \/ \E j \in 1..Len(u) : i = Len(s) + j
  <2> SUFFICES ASSUME NEW i \in 1..Len(t), i \notin 1..Len(s)
               PROVE  \E j \in 1..Len(u) : i = Len(s) + j
    OBVIOUS
  <2>1. i - Len(s) \in 1..Len(u) /\ i = Len(s) + (i - Len(s))
    BY <1>1
  <2> QED BY <2>1
<1>3. 1..Len(s) \subseteq 1..Len(t) /\ \A j \in 1..Len(u) : Len(s) + j \in 1..Len(t)
  BY <1>1
<1> HIDE DEF t
<1>4. Members(t) = Members(s) \cup Members(u)
  <2>1. ASSUME NEW i \in 1..Len(t) PROVE t[i] \in Members(s) \cup Members(u)
    BY <1>1, <1>2 DEF Members
  <2>2. ASSUME NEW i \in 1..Len(s) PROVE s[i] \in Members(t)
    BY <1>1, <1>3 DEF Members
  <2>3. ASSUME NEW i \in 1..Len(u) PROVE u[i] \in Members(t)
    BY <1>1, <1>3 DEF Members
  <2> QED BY <2>1, <2>2, <2>3 DEF Members
<1>5. ASSUME RowsApart(s), RowsApart(u), RowsOf(s) \cap RowsOf(u) = {} PROVE RowsApart(t)
  <2>1. \A i \in 1..Len(s), j \in 1..Len(u) : s[i].row # u[j].row
    BY <1>5 DEF RowsOf, Members
  <2> SUFFICES ASSUME NEW i \in 1..Len(t), NEW j \in 1..Len(t), t[i].row = t[j].row
               PROVE  i = j
    BY DEF RowsApart
  <2>2. CASE i \in 1..Len(s) /\ j \in 1..Len(s)
    BY <1>1, <1>5, <2>2 DEF RowsApart
  <2>3. CASE i \in 1..Len(s) /\ j \notin 1..Len(s)
    <3>1. PICK k \in 1..Len(u) : j = Len(s) + k
      BY <1>2, <2>3
    <3> QED BY <1>1, <2>1, <2>3, <3>1
  <2>4. CASE i \notin 1..Len(s) /\ j \in 1..Len(s)
    <3>1. PICK k \in 1..Len(u) : i = Len(s) + k
      BY <1>2, <2>4
    <3> QED BY <1>1, <2>1, <2>4, <3>1
  <2>5. CASE i \notin 1..Len(s) /\ j \notin 1..Len(s)
    <3>1. PICK k \in 1..Len(u) : i = Len(s) + k
      BY <1>2, <2>5
    <3>2. PICK l \in 1..Len(u) : j = Len(s) + l
      BY <1>2, <2>5
    <3> QED BY <1>1, <1>5, <3>1, <3>2 DEF RowsApart
  <2> QED BY <2>2, <2>3, <2>4, <2>5
<1> QED BY <1>1, <1>4, <1>5 DEF t

LEMMA KeptFacts ==
  ASSUME NEW E, NEW s \in Seq(E), NEW S
  PROVE  /\ Kept(s, S) \in Seq(E)
         /\ Members(Kept(s, S)) = Members(s) \cap S
         /\ RowsApart(s) => RowsApart(Kept(s, S))
<1> DEFINE N == Len(s)
           next(q, n) == IF s[n] \in S THEN Append(q, s[n]) ELSE q
           Is(f) == f = [n \in 0..N |-> IF n = 0 THEN <<>> ELSE next(f[n - 1], n)]
           kept == CHOOSE f : Is(f)
           upTo(n) == {s[i] : i \in 1..n}
<1>1. N \in Nat /\ \A n \in 1..N : s[n] \in E
  OBVIOUS
<1>2. Kept(s, S) = kept[N]
  BY DEF Kept
<1>3. \E f : Is(f)
  <2> DEFINE step == [n \in 1..N |-> [q \in Seq(E) |-> next(q, n)]]
  <2>1. ASSUME NEW n \in 1..N, NEW q \in Seq(E) PROVE next(q, n) \in Seq(E)
    BY <1>1
  <2> HIDE DEF next
  <2>2. step \in Steps(N, Seq(E))
    BY <2>1 DEF Steps
  <2>3. <<>> \in Seq(E)
    OBVIOUS
  <2> HIDE DEF step
  <2>4. PICK f : Follows(f, <<>>, N, Seq(E), step)
    <3> HIDE DEF N
    <3>1. N \in Nat
      BY <1>1
    <3> QED BY <2>2, <2>3, <3>1, Recursion
  <2>5. \A n \in 1..N : f[n] = next(f[n - 1], n)
    <3>1. ASSUME NEW n \in 1..N PROVE f[n - 1] \in Seq(E)
      BY <1>1, <2>4 DEF Follows
    <3> QED BY <2>4, <3>1 DEF step, Follows
  <2>6. f = [n \in 0..N |-> IF n = 0 THEN <<>> ELSE next(f[n - 1], n)]
    BY <1>1, <2>4, <2>5 DEF Follows
  <2> QED BY <2>6
<1>4. /\ kept[0] = <<>>
      /\ \A n \in 1..N : kept[n] = next(kept[n - 1], n)
  <2>1. Is(kept)
    BY <1>3
  <2> HIDE DEF kept, next
  <2> QED BY <1>1, <2>1
<1> HIDE DEF kept
<1> DEFINE T == {n \in 0..N : /\ kept[n] \in Seq(E)
                              /\ Members(kept[n]) = upTo(n) \cap S
                              /\ RowsApart(s) => RowsApart(kept[n])}
<1>5. 0 \in T
  <2>1. upTo(0) = {}
    OBVIOUS
  <2>2. <<>> \in Seq(E) /\ Members(<<>>) = {} /\ RowsApart(<<>>)
    BY DEF Members, RowsApart
  <2>3. 0 \in 0..N
    BY <1>1
  <2> HIDE DEF upTo, N
  <2> QED BY <1>4, <2>1, <2>2, <2>3
<1>6. ASSUME NEW n \in 1..N, n - 1 \in T PROVE n \in T
  <2>1. upTo(n) = upTo(n - 1) \cup {s[n]}
    <3>1. 1..n = (1..(n - 1)) \cup {n}
      OBVIOUS
    <3> QED BY <3>1
  <2>2. RowsApart(s) => s[n].row \notin {e.row : e \in upTo(n - 1)}
    BY DEF RowsApart
  <2>3. n \in 0..N /\ s[n] \in E
    BY <1>1
  <2> HIDE DEF upTo, N
  <2>4. CASE s[n] \in S
    <3>1. kept[n] = Append(kept[n - 1], s[n])
      BY <1>4, <2>4
    <3>2. RowsApart(s) => s[n].row \notin RowsOf(kept[n - 1])
      BY <1>6, <2>2 DEF RowsOf
    <3>3. /\ kept[n - 1] \in Seq(E)
          /\ Members(kept[n - 1]) = upTo(n - 1) \cap S
          /\ RowsApart(s) => RowsApart(kept[n - 1])
      BY <1>6
    <3>4. /\ kept[n] \in Seq(E)
          /\ Members(kept[n]) = Members(kept[n - 1]) \cup {s[n]}
          /\ RowsApart(kept[n - 1]) /\ s[n].row \notin RowsOf(kept[n - 1]) => RowsApart(kept[n])
      BY <2>3, <3>1, <3>3, AppendFacts
    <3>5. Members(kept[n]) = upTo(n) \cap S
      BY <2>1, <2>4, <3>3, <3>4
    <3> QED BY <2>3, <3>2, <3>3, <3>4, <3>5
  <2>5. CASE s[n] \notin S
    <3>1. kept[n] = kept[n - 1]
      BY <1>4, <2>5
    <3> QED BY <1>6, <2>1, <2>3, <2>5, <3>1
  <2> QED BY <2>4, <2>5
<1> HIDE DEF T
<1> HIDE DEF N
<1>7. \A n \in 0..N : n \in T
  BY <1>1, <1>5, <1>6, Induct
<1> USE DEF N
<1>8. upTo(N) = Members(s)
  BY DEF Members
<1> HIDE DEF N
<1>9. N \in T
  BY <1>1, <1>7
<1> HIDE DEF upTo
<1> QED BY <1>2, <1>8, <1>9 DEF T

\* A place of P up to N has a last one after it.
LEMMA LastPlace ==
  ASSUME NEW N \in Nat, NEW P, NEW n \in 1..N, n \in P
  PROVE  \E m \in 1..N : m \in P /\ \A k \in m + 1..N : k \notin P
<1> DEFINE Last(m) == m \in P /\ \A k \in m + 1..N : k \notin P
           T == {i \in 0..N : \/ \A k \in N - i + 1..N : k \notin P
                              \/ \E m \in 1..N : Last(m)}
<1>1. 0 \in T
  OBVIOUS
<1>2. ASSUME NEW i \in 1..N, i - 1 \in T PROVE i \in T
  <2> DEFINE m == N - i + 1
  <2>1. m \in 1..N /\ N - (i - 1) + 1 = m + 1 /\ N - i + 1 = m
    OBVIOUS
  <2>2. CASE \E j \in 1..N : Last(j)
    BY <2>2
  <2>3. CASE \A k \in m + 1..N : k \notin P
    <3>1. \A k \in m..N : k = m \/ k \in m + 1..N
      OBVIOUS
    <3>2. m \in P => Last(m)
      BY <2>3
    <3>3. m \notin P => \A k \in m..N : k \notin P
      BY <2>3, <3>1
    <3> HIDE DEF Last, m
    <3> QED BY <2>1, <3>2, <3>3
  <2>4. (\A k \in m + 1..N : k \notin P) \/ \E j \in 1..N : Last(j)
    BY <1>2, <2>1
  <2> HIDE DEF T
  <2> QED BY <2>2, <2>3, <2>4
<1> HIDE DEF T
<1>3. \A i \in 0..N : i \in T
  BY <1>1, <1>2, Induct
<1>4. N \in T /\ N - N + 1 = 1
  BY <1>3
<1> QED BY <1>4 DEF T

\* One observation of each row.
LEMMA UniqueFacts ==
  ASSUME NEW E, NEW events \in Seq(E)
  PROVE  Unique(events) \in Seq(E) /\ RowsApart(Unique(events))
<1> DEFINE N == Len(events)
           final(r) == CHOOSE n \in 1..N :
             events[n].row = r /\ \A k \in n + 1..N : events[k].row # r
           isFirst(n) == \A k \in 1..n - 1 : events[k].row # events[n].row
           next(q, n) == IF isFirst(n) THEN Append(q, events[final(events[n].row)]) ELSE q
           Is(f) == f = [n \in 0..N |-> IF n = 0 THEN <<>> ELSE next(f[n - 1], n)]
           one == CHOOSE f : Is(f)
           upTo(n) == {events[i].row : i \in 1..n}
<1>1. N \in Nat /\ \A n \in 1..N : events[n] \in E
  OBVIOUS
<1>2. Unique(events) = one[N]
  BY DEF Unique
<1>3. ASSUME NEW n \in 1..N
      PROVE  /\ events[final(events[n].row)] \in E
             /\ events[final(events[n].row)].row = events[n].row
  <2> DEFINE r == events[n].row
             P == {k \in 1..N : events[k].row = r}
  <2>1. PICK m \in 1..N : m \in P /\ \A k \in m + 1..N : k \notin P
    <3>1. n \in P
      OBVIOUS
    <3> HIDE DEF P, N
    <3> QED BY <1>1, <3>1, LastPlace
  <2>2. \A k \in m + 1..N : k \in 1..N
    BY <1>1
  <2>3. events[m].row = r /\ \A k \in m + 1..N : events[k].row # r
    BY <2>1, <2>2
  <2> HIDE DEF N, r
  <2>4. final(r) \in 1..N /\ events[final(r)].row = r
    BY <2>3
  <2> HIDE DEF final
  <2> QED BY <1>1, <2>4 DEF r
<1> HIDE DEF final
<1>4. \E f : Is(f)
  <2> DEFINE step == [n \in 1..N |-> [q \in Seq(E) |-> next(q, n)]]
  <2>1. ASSUME NEW n \in 1..N, NEW q \in Seq(E) PROVE next(q, n) \in Seq(E)
    <3> HIDE DEF isFirst
    <3> QED BY <1>3
  <2> HIDE DEF next
  <2>2. step \in Steps(N, Seq(E))
    BY <2>1 DEF Steps
  <2>3. <<>> \in Seq(E)
    OBVIOUS
  <2> HIDE DEF step
  <2>4. PICK f : Follows(f, <<>>, N, Seq(E), step)
    <3> HIDE DEF N
    <3>1. N \in Nat
      BY <1>1
    <3> QED BY <2>2, <2>3, <3>1, Recursion
  <2>5. \A n \in 1..N : f[n] = next(f[n - 1], n)
    <3>1. ASSUME NEW n \in 1..N PROVE f[n - 1] \in Seq(E)
      BY <1>1, <2>4 DEF Follows
    <3> QED BY <2>4, <3>1 DEF step, Follows
  <2>6. f = [n \in 0..N |-> IF n = 0 THEN <<>> ELSE next(f[n - 1], n)]
    BY <1>1, <2>4, <2>5 DEF Follows
  <2> QED BY <2>6
<1>5. /\ one[0] = <<>>
      /\ \A n \in 1..N : one[n] = next(one[n - 1], n)
  <2>1. Is(one)
    BY <1>4
  <2> HIDE DEF one, next
  <2> QED BY <1>1, <2>1
<1> HIDE DEF one
<1> DEFINE T == {n \in 0..N : /\ one[n] \in Seq(E)
                              /\ RowsOf(one[n]) \subseteq upTo(n)
                              /\ RowsApart(one[n])}
<1>6. 0 \in T
  <2>1. <<>> \in Seq(E) /\ RowsOf(<<>>) = {} /\ RowsApart(<<>>)
    BY DEF Members, RowsOf, RowsApart
  <2>2. 0 \in 0..N
    BY <1>1
  <2> HIDE DEF upTo, N
  <2> QED BY <1>5, <2>1, <2>2
<1>7. ASSUME NEW n \in 1..N, n - 1 \in T PROVE n \in T
  <2> DEFINE x == events[final(events[n].row)]
  <2>1. upTo(n) = upTo(n - 1) \cup {events[n].row}
    <3>1. 1..n = (1..(n - 1)) \cup {n}
      OBVIOUS
    <3> QED BY <3>1
  <2>2. /\ n \in 0..N
        /\ one[n - 1] \in Seq(E)
        /\ RowsOf(one[n - 1]) \subseteq upTo(n - 1)
        /\ RowsApart(one[n - 1])
    BY <1>1, <1>7
  <2>3. CASE isFirst(n)
    <3>1. events[n].row \notin upTo(n - 1)
      BY <2>3
    <3> HIDE DEF upTo, N
    <3>2. one[n] = Append(one[n - 1], x)
      BY <1>5, <2>3
    <3>3. x \in E /\ x.row = events[n].row
      BY <1>3
    <3> HIDE DEF x
    <3>4. /\ one[n] \in Seq(E)
          /\ Members(one[n]) = Members(one[n - 1]) \cup {x}
          /\ RowsApart(one[n])
      BY <2>2, <3>1, <3>2, <3>3, AppendFacts
    <3>5. RowsOf(one[n]) = RowsOf(one[n - 1]) \cup {x.row}
      BY <3>4 DEF RowsOf
    <3> QED BY <2>1, <2>2, <3>3, <3>4, <3>5
  <2>4. CASE ~ isFirst(n)
    <3>1. one[n] = one[n - 1]
      BY <1>5, <2>4
    <3> HIDE DEF upTo, N
    <3> QED BY <2>1, <2>2, <3>1
  <2> QED BY <2>3, <2>4
<1> HIDE DEF T, N
<1>8. \A n \in 0..N : n \in T
  BY <1>1, <1>6, <1>7, Induct
<1>9. N \in T
  BY <1>1, <1>8
<1> QED BY <1>2, <1>9 DEF T

LEMMA OwnMembers ==
  ASSUME NEW E, NEW s \in Seq(E)
  PROVE  s \in Seq(Members(s)) /\ Members(s) \subseteq E
<1>1. Len(s) \in Nat /\ \A i \in 1..Len(s) : s[i] \in E
  OBVIOUS
<1>2. \A i \in 1..Len(s) : s[i] \in Members(s)
  BY DEF Members
<1>3. Members(s) \subseteq E
  BY <1>1 DEF Members
<1> QED BY <1>1, <1>2, <1>3

\* A sequence of all's members with different rows is not longer than all.
LEMMA NoLongerThan ==
  ASSUME NEW E, NEW all \in Seq(E), NEW g \in Seq(Members(all)), RowsApart(g)
  PROVE  Len(g) <= Len(all)
<1>1. Len(g) \in Nat /\ Len(all) \in Nat /\ \A i \in 1..Len(g) : g[i] \in Members(all)
  OBVIOUS
<1> SUFFICES ASSUME Len(all) < Len(g) PROVE FALSE
  BY <1>1
<1> DEFINE place == [i \in 1..Len(g) |-> CHOOSE k \in 1..Len(all) : all[k] = g[i]]
<1>2. \A i \in 1..Len(g) : place[i] \in 1..Len(all) /\ all[place[i]] = g[i]
  BY <1>1 DEF Members
<1>3. /\ IsFiniteSet(1..Len(g)) /\ Cardinality(1..Len(g)) = Len(g)
      /\ IsFiniteSet(1..Len(all)) /\ Cardinality(1..Len(all)) = Len(all)
  <2>1. ASSUME NEW n \in Nat PROVE IsFiniteSet(1..n) /\ Cardinality(1..n) = n
    <3>1. n \in Int /\ 1 \in Int
      OBVIOUS
    <3>2. IsFiniteSet(1..n) /\ Cardinality(1..n) = IF 1 > n THEN 0 ELSE n - 1 + 1
      BY <3>1, FS_Interval
    <3> QED BY <3>2
  <2> QED BY <1>1, <2>1
<1>4. place \in [1..Len(g) -> 1..Len(all)]
  BY <1>2
<1> HIDE DEF place
<1>5. \E i, j \in 1..Len(g) : i # j /\ place[i] = place[j]
  BY <1>3, <1>4, FS_PigeonHole
<1> QED BY <1>2, <1>5 DEF RowsApart

\* X leads nowhere else in all.
LeadsNowhere(X, all, aliases) ==
  \A e \in X, f \in Members(all) \ X : ~ eligible(e, f, aliases)

\* A group has different rows, none of them seen before; whatever one of its events
\* is eligible with is in it or seen; and it stays in every set of events that leads
\* nowhere else.
LEMMA GroupFacts ==
  ASSUME NEW E, NEW all \in Seq(E), RowsApart(all), NEW seed \in Members(all),
         NEW seen, seed.row \notin seen, NEW aliases
  PROVE  LET g == Group(seed, all, seen, aliases)
         IN  /\ g \in Seq(Members(all))
             /\ RowsApart(g)
             /\ seed \in Members(g)
             /\ RowsOf(g) \cap seen = {}
             /\ \A e \in Members(g), f \in Members(all) :
                  eligible(e, f, aliases) => f \in Members(g) \/ f.row \in seen
             /\ \A X \in SUBSET Members(all) :
                  seed \in X /\ LeadsNowhere(X, all, aliases) => Members(g) \subseteq X
<1> DEFINE A == Members(all)
           N == Len(all)
           met(g, i) == {f \in A : f.row \notin seen \cup RowsOf(g) /\ eligible(g[i], f, aliases)}
           next(g, i) == IF i > Len(g) THEN g ELSE g \o Kept(all, met(g, i))
           Is(f) == f = [i \in 0..N |-> IF i = 0 THEN <<seed>> ELSE next(f[i - 1], i)]
           grown == CHOOSE f : Is(f)
<1>1. N \in Nat /\ all \in Seq(A)
  BY OwnMembers
<1>2. Group(seed, all, seen, aliases) = grown[N]
  BY DEF Group
<1> HIDE DEF met
<1>3. ASSUME NEW S PROVE Kept(all, S) \in Seq(A) /\ Members(Kept(all, S)) = A \cap S
                         /\ RowsApart(Kept(all, S))
  <2> HIDE DEF A
  <2>1. Members(all) = A
    BY DEF A
  <2> QED BY <1>1, <2>1, KeptFacts
<1>4. /\ grown[0] = <<seed>>
      /\ \A i \in 1..N : grown[i] = next(grown[i - 1], i)
  <2> DEFINE step == [i \in 1..N |-> [g \in Seq(A) |-> next(g, i)]]
  <2> HIDE DEF A
  <2>1. ASSUME NEW i \in 1..N, NEW g \in Seq(A) PROVE next(g, i) \in Seq(A)
    BY <1>3, ConcatFacts
  <2>2. <<seed>> \in Seq(A)
    BY DEF A
  <2> HIDE DEF next
  <2>3. step \in Steps(N, Seq(A))
    BY <2>1 DEF Steps
  <2> HIDE DEF step
  <2>4. PICK f : Follows(f, <<seed>>, N, Seq(A), step)
    <3> HIDE DEF N
    <3>1. N \in Nat
      BY <1>1
    <3> QED BY <2>2, <2>3, <3>1, Recursion
  <2>5. \A i \in 1..N : f[i] = next(f[i - 1], i)
    <3>1. ASSUME NEW i \in 1..N PROVE f[i - 1] \in Seq(A)
      BY <1>1, <2>4 DEF Follows
    <3> QED BY <2>4, <3>1 DEF step, Follows
  <2>6. \A i \in 0..N : i = 0 \/ i \in 1..N
    BY <1>1
  <2>7. 0 \in 0..N /\ \A i \in 1..N : i \in 0..N /\ i # 0
    BY <1>1
  <2> HIDE DEF N
  <2>8. f = [i \in 0..N |-> IF i = 0 THEN <<seed>> ELSE next(f[i - 1], i)]
    BY <2>4, <2>5, <2>6 DEF Follows
  <2>9. Is(grown)
    BY <2>8
  <2> HIDE DEF grown
  <2> QED BY <2>7, <2>9
<1> HIDE DEF grown
<1> DEFINE Done(g, i) == \A j \in 1..i : j <= Len(g) =>
             \A f \in A : eligible(g[j], f, aliases) => f \in Members(g) \/ f.row \in seen
           Within(g) == \A X \in SUBSET A :
             seed \in X /\ LeadsNowhere(X, all, aliases) => Members(g) \subseteq X
           Good(g) == /\ g \in Seq(A)
                      /\ RowsApart(g)
                      /\ seed \in Members(g)
                      /\ RowsOf(g) \cap seen = {}
                      /\ Within(g)
           T == {i \in 0..N : Good(grown[i]) /\ Done(grown[i], i)}
<1>5. 0 \in T
  <2>1. /\ <<seed>> \in Seq(A)
        /\ RowsApart(<<seed>>)
        /\ Members(<<seed>>) = {seed}
    BY DEF RowsApart, Members
  <2>2. RowsOf(<<seed>>) = {seed.row}
    BY <2>1 DEF RowsOf
  <2>3. Good(<<seed>>)
    BY <2>1, <2>2
  <2>4. Done(<<seed>>, 0)
    OBVIOUS
  <2>5. 0 \in 0..N
    BY <1>1
  <2> HIDE DEF Good, Done, N
  <2> QED BY <1>4, <2>3, <2>4, <2>5
<1>6. ASSUME NEW i \in 1..N, i - 1 \in T PROVE i \in T
  <2> DEFINE h == grown[i - 1]
             more == Kept(all, met(h, i))
  <2>1. i \in 0..N /\ Good(h) /\ Done(h, i - 1)
    BY <1>1, <1>6
  <2>2. grown[i] = next(h, i)
    BY <1>4
  <2>3. \A j \in 1..i : j = i \/ j \in 1..i - 1
    OBVIOUS
  <2> HIDE DEF A, N, h, T
  <2>4. CASE i > Len(h)
    <3>1. grown[i] = h
      BY <2>2, <2>4
    <3>2. Done(h, i)
      BY <2>1, <2>3, <2>4
    <3> QED BY <2>1, <3>1, <3>2 DEF T
  <2>5. CASE ~ i > Len(h)
    <3> DEFINE g == h \o more
    <3>1. grown[i] = g
      BY <2>2, <2>5
    <3>2. more \in Seq(A) /\ Members(more) = A \cap met(h, i) /\ RowsApart(more)
      BY <1>3
    <3>3. RowsOf(h) \cap RowsOf(more) = {} /\ RowsOf(more) \cap seen = {}
      BY <3>2 DEF RowsOf, met
    <3>4. g \in Seq(A) /\ Members(g) = Members(h) \cup Members(more) /\ RowsApart(g)
      BY <2>1, <3>2, <3>3, ConcatFacts
    <3>5. Len(h) \in Nat /\ Len(h) <= Len(g) /\ \A j \in 1..Len(h) : g[j] = h[j]
      BY <2>1, <3>2
    <3> HIDE DEF g
    <3>6. RowsOf(g) = RowsOf(h) \cup RowsOf(more)
      BY <3>4 DEF RowsOf
    <3>7. h[i] \in Members(h) /\ h[i] \in A
      BY <2>1, <2>5, <3>5 DEF Members
    <3>8. Within(g)
      <4> SUFFICES ASSUME NEW X \in SUBSET A, seed \in X, LeadsNowhere(X, all, aliases)
                   PROVE  Members(g) \subseteq X
        OBVIOUS
      <4>1. Members(h) \subseteq X
        BY <2>1
      <4>2. Members(more) \subseteq X
        BY <3>2, <3>7, <4>1 DEF LeadsNowhere, met, A
      <4> QED BY <3>4, <4>1, <4>2
    <3>9. Good(g)
      BY <2>1, <3>3, <3>4, <3>6, <3>8
    <3>10. Done(g, i)
      <4> SUFFICES ASSUME NEW j \in 1..i, NEW f \in A, eligible(g[j], f, aliases),
                          f \notin Members(g), f.row \notin seen
                   PROVE  FALSE
        OBVIOUS
      <4>1. j \in 1..Len(h) /\ g[j] = h[j]
        BY <2>5, <3>5
      <4>2. j = i
        BY <2>1, <2>3, <3>4, <4>1
      <4>3. f.row \in RowsOf(h)
        BY <3>2, <3>4, <4>1, <4>2 DEF met
      <4>4. PICK e \in Members(h) : e.row = f.row
        BY <4>3 DEF RowsOf
      <4>5. e \in A
        BY <2>1 DEF Members
      <4>6. e = f
        BY <1>1, <4>4, <4>5 DEF A, Members, RowsApart
      <4> QED BY <3>4, <4>4, <4>6
    <3> HIDE DEF Good, Done
    <3> QED BY <2>1, <3>1, <3>9, <3>10 DEF T
  <2> QED BY <2>4, <2>5
<1> DEFINE g == grown[N]
<1>7. Good(g) /\ Done(g, N)
  <2> HIDE DEF T, N
  <2>1. \A i \in 0..N : i \in T
    BY <1>1, <1>5, <1>6, Induct
  <2>2. N \in T
    BY <1>1, <2>1
  <2> QED BY <2>2 DEF T
<1>8. Len(g) <= N /\ Len(g) \in Nat
  <2>1. g \in Seq(Members(all)) /\ RowsApart(g)
    BY <1>7
  <2> HIDE DEF g
  <2> QED BY <2>1, NoLongerThan
<1>9. ASSUME NEW e \in Members(g), NEW f \in A, eligible(e, f, aliases)
      PROVE  f \in Members(g) \/ f.row \in seen
  <2>1. PICK j \in 1..Len(g) : g[j] = e
    BY DEF Members
  <2>2. j \in 1..N /\ j <= Len(g)
    BY <1>1, <1>8
  <2> HIDE DEF A, N, g
  <2> QED BY <1>7, <1>9, <2>1, <2>2
<1> HIDE DEF g
<1>10. Group(seed, all, seen, aliases) = g
  BY <1>2 DEF g
<1> QED BY <1>7, <1>9, <1>10

Symmetric(all, aliases) ==
  \A e, f \in Members(all) : eligible(e, f, aliases) => eligible(f, e, aliases)

\* The groups share no row; every isolated clique is one of them; and where being
\* eligible does not depend on who is asked, every one of them leads nowhere else.
LEMMA GroupsFacts ==
  ASSUME NEW E, NEW all \in Seq(E), RowsApart(all), NEW aliases
  PROVE  LET groups == Groups(all, aliases)
         IN  /\ groups \in Seq(Seq(Members(all)))
             /\ \A g \in Members(groups) : g \in Seq(Members(all)) /\ RowsApart(g)
             /\ \A g, h \in Members(groups) : g = h \/ RowsOf(g) \cap RowsOf(h) = {}
             /\ \A X \in IsolatedCliques(Members(all), aliases) :
                  \E g \in Members(groups) : Members(g) = X
             /\ Symmetric(all, aliases) =>
                  \A g \in Members(groups) : LeadsNowhere(Members(g), all, aliases)
<1> DEFINE A == Members(all)
           N == Len(all)
           S == [groups : Seq(Seq(A)), seen : SUBSET RowsOf(all)]
           empty == [groups |-> <<>>, seen |-> {}]
           grp(q, n) == Group(all[n], all, q.seen, aliases)
           next(q, n) == IF all[n].row \in q.seen THEN q
                         ELSE [groups |-> Append(q.groups, grp(q, n)),
                               seen |-> q.seen \cup RowsOf(grp(q, n))]
           Is(f) == f = [n \in 0..N |-> IF n = 0 THEN empty ELSE next(f[n - 1], n)]
           found == CHOOSE f : Is(f)
<1>1. N \in Nat /\ all \in Seq(A)
  BY OwnMembers
<1>2. Groups(all, aliases) = found[N].groups
  BY DEF Groups
<1>3. ASSUME NEW n \in 1..N, NEW q, all[n].row \notin q.seen
      PROVE  LET g == grp(q, n)
             IN  /\ g \in Seq(A)
                 /\ RowsApart(g)
                 /\ all[n] \in Members(g)
                 /\ RowsOf(g) \cap q.seen = {}
                 /\ \A e \in Members(g), f \in A :
                      eligible(e, f, aliases) => f \in Members(g) \/ f.row \in q.seen
                 /\ \A X \in SUBSET A :
                      all[n] \in X /\ LeadsNowhere(X, all, aliases) => Members(g) \subseteq X
                 /\ Members(g) \subseteq A
                 /\ RowsOf(g) \subseteq RowsOf(all)
  <2> DEFINE g == grp(q, n)
             seed == all[n]
             seen == q.seen
  <2>1. seed \in Members(all) /\ seed.row \notin seen
    BY <1>3 DEF Members
  <2>2. g = Group(seed, all, seen, aliases)
    OBVIOUS
  <2> HIDE DEF g, seed, seen
  <2>3. /\ g \in Seq(Members(all))
        /\ RowsApart(g)
        /\ seed \in Members(g)
        /\ RowsOf(g) \cap seen = {}
        /\ \A e \in Members(g), f \in Members(all) :
             eligible(e, f, aliases) => f \in Members(g) \/ f.row \in seen
        /\ \A X \in SUBSET Members(all) :
             seed \in X /\ LeadsNowhere(X, all, aliases) => Members(g) \subseteq X
    BY <2>1, <2>2, GroupFacts
  <2>4. Members(g) \subseteq Members(all)
    BY <2>3, OwnMembers
  <2>5. RowsOf(g) \subseteq RowsOf(all)
    BY <2>4 DEF RowsOf
  <2> QED BY <2>3, <2>4, <2>5 DEF g, seed, seen
<1> HIDE DEF grp
<1>4. /\ found[0] = empty
      /\ \A n \in 1..N : found[n] = next(found[n - 1], n)
  <2> DEFINE step == [n \in 1..N |-> [q \in S |-> next(q, n)]]
  <2> HIDE DEF A
  <2>1. ASSUME NEW n \in 1..N, NEW q \in S PROVE next(q, n) \in S
    <3>1. CASE all[n].row \in q.seen
      BY <3>1
    <3>2. CASE all[n].row \notin q.seen
      <4>1. grp(q, n) \in Seq(A) /\ RowsOf(grp(q, n)) \subseteq RowsOf(all)
        BY <1>3, <3>2
      <4>2. Append(q.groups, grp(q, n)) \in Seq(Seq(A))
        BY <4>1
      <4>3. q.seen \cup RowsOf(grp(q, n)) \in SUBSET RowsOf(all)
        BY <4>1
      <4> QED BY <3>2, <4>2, <4>3
    <3> QED BY <3>1, <3>2
  <2>2. empty \in S
    OBVIOUS
  <2> HIDE DEF next, S, empty
  <2>3. step \in Steps(N, S)
    BY <2>1 DEF Steps
  <2> HIDE DEF step
  <2>4. PICK f : Follows(f, empty, N, S, step)
    <3> HIDE DEF N
    <3>1. N \in Nat
      BY <1>1
    <3> QED BY <2>2, <2>3, <3>1, Recursion
  <2>5. \A n \in 1..N : f[n] = next(f[n - 1], n)
    <3>1. ASSUME NEW n \in 1..N PROVE f[n - 1] \in S
      BY <1>1, <2>4 DEF Follows
    <3> QED BY <2>4, <3>1 DEF step, Follows
  <2>6. \A n \in 0..N : n = 0 \/ n \in 1..N
    BY <1>1
  <2>7. 0 \in 0..N /\ \A n \in 1..N : n \in 0..N /\ n # 0
    BY <1>1
  <2> HIDE DEF N
  <2>8. f = [n \in 0..N |-> IF n = 0 THEN empty ELSE next(f[n - 1], n)]
    BY <2>4, <2>5, <2>6 DEF Follows
  <2>9. Is(found)
    BY <2>8
  <2> HIDE DEF found
  <2> QED BY <2>7, <2>9
<1> HIDE DEF found
<1> DEFINE Shaped(q) ==
             /\ q.groups \in Seq(Seq(A))
             /\ \A g \in Members(q.groups) : g \in Seq(A) /\ Members(g) \subseteq A /\ RowsApart(g)
             /\ \A r : r \in q.seen <=> \E g \in Members(q.groups) : r \in RowsOf(g)
             /\ \A g, h \in Members(q.groups) : g = h \/ RowsOf(g) \cap RowsOf(h) = {}
           Covered(q, n) == \A k \in 1..n : all[k].row \in q.seen
           Cliques(q) == \A X \in IsolatedCliques(A, aliases) :
             \/ \A e \in X : e.row \notin q.seen
             \/ \E g \in Members(q.groups) : Members(g) = X
           Closed(q) == Symmetric(all, aliases) =>
             \A g \in Members(q.groups) : LeadsNowhere(Members(g), all, aliases)
           T == {n \in 0..N : /\ Shaped(found[n])
                              /\ Covered(found[n], n)
                              /\ Cliques(found[n])
                              /\ Closed(found[n])}
<1>5. 0 \in T
  <2>1. Members(<<>>) = {} /\ <<>> \in Seq(Seq(A))
    BY DEF Members
  <2>2. 0 \in 0..N /\ 1..0 = {}
    BY <1>1
  <2> HIDE DEF N, A
  <2>3. empty.groups = <<>> /\ empty.seen = {}
    OBVIOUS
  <2> HIDE DEF empty
  <2>4. Shaped(empty) /\ Covered(empty, 0) /\ Cliques(empty) /\ Closed(empty)
    BY <2>1, <2>2, <2>3
  <2> HIDE DEF Shaped, Covered, Cliques, Closed
  <2> QED BY <1>4, <2>2, <2>4
<1>6. ASSUME NEW n \in 1..N, n - 1 \in T PROVE n \in T
  <2> DEFINE q == found[n - 1]
             g == grp(q, n)
             p == found[n]
  <2>1. n \in 0..N /\ Shaped(q) /\ Covered(q, n - 1) /\ Cliques(q) /\ Closed(q)
    BY <1>1, <1>6
  <2>2. p = next(q, n)
    BY <1>4
  <2>3. \A k \in 1..n : k = n \/ k \in 1..n - 1
    OBVIOUS
  <2>4. /\ \A e \in A : e.row \in RowsOf(all)
        /\ \A e, f \in A : e.row = f.row => e = f
    BY DEF A, Members, RowsOf, RowsApart
  <2> HIDE DEF A, N, q, T
  <2>5. CASE all[n].row \in q.seen
    <3>1. p = q
      BY <2>2, <2>5
    <3>2. Covered(q, n)
      BY <2>1, <2>3, <2>5
    <3> HIDE DEF Shaped, Covered, Cliques, Closed
    <3> QED BY <2>1, <3>1, <3>2 DEF T
  <2>6. CASE all[n].row \notin q.seen
    <3>1. /\ g \in Seq(A)
          /\ RowsApart(g)
          /\ all[n] \in Members(g)
          /\ RowsOf(g) \cap q.seen = {}
          /\ \A e \in Members(g), f \in A :
               eligible(e, f, aliases) => f \in Members(g) \/ f.row \in q.seen
          /\ \A X \in SUBSET A :
               all[n] \in X /\ LeadsNowhere(X, all, aliases) => Members(g) \subseteq X
          /\ Members(g) \subseteq A
      BY <1>3, <2>6
    <3>2. p.groups = Append(q.groups, g) /\ p.seen = q.seen \cup RowsOf(g)
      BY <2>2, <2>6
    <3> HIDE DEF g, p
    <3>3. p.groups \in Seq(Seq(A)) /\ Members(p.groups) = Members(q.groups) \cup {g}
      BY <2>1, <3>1, <3>2, AppendFacts
    <3>4. \A e \in A : e.row \in RowsOf(g) <=> e \in Members(g)
      BY <2>4, <3>1 DEF RowsOf
    <3>5. Shaped(p)
      <4>1. \A h \in Members(q.groups) : RowsOf(h) \cap RowsOf(g) = {}
        BY <2>1, <3>1
      <4>2. \A h, k \in Members(p.groups) : h = k \/ RowsOf(h) \cap RowsOf(k) = {}
        BY <2>1, <3>3, <4>1
      <4>3. \A r : r \in p.seen <=> \E h \in Members(p.groups) : r \in RowsOf(h)
        BY <2>1, <3>2, <3>3
      <4> QED BY <2>1, <3>1, <3>3, <4>2, <4>3
    <3>6. Covered(p, n)
      <4>1. all[n].row \in RowsOf(g)
        BY <3>1 DEF RowsOf
      <4> QED BY <2>1, <2>3, <3>2, <4>1
    <3>7. Cliques(p)
      <4> SUFFICES ASSUME NEW X \in IsolatedCliques(A, aliases)
                   PROVE  \/ \A e \in X : e.row \notin p.seen
                          \/ \E h \in Members(p.groups) : Members(h) = X
        OBVIOUS
      <4>1. /\ X \in SUBSET A
            /\ \A e, f \in X : e # f => eligible(e, f, aliases)
            /\ LeadsNowhere(X, all, aliases)
            /\ LeadsNowhere(A \ X, all, aliases)
        BY DEF IsolatedCliques, LeadsNowhere, A
      <4>2. CASE \E h \in Members(q.groups) : Members(h) = X
        BY <3>3, <4>2
      <4>3. CASE (\A e \in X : e.row \notin q.seen) /\ all[n] \in X
        <5>1. Members(g) \subseteq X
          BY <3>1, <4>1, <4>3
        <5>2. X \subseteq Members(g)
          BY <3>1, <4>1, <4>3
        <5>3. Members(g) = X
          BY <5>1, <5>2
        <5>4. g \in Members(p.groups)
          BY <3>3
        <5> QED BY <5>3, <5>4
      <4>4. CASE (\A e \in X : e.row \notin q.seen) /\ all[n] \notin X
        <5>1. all[n] \in A \ X /\ A \ X \in SUBSET A
          BY <3>1, <4>4
        <5>2. Members(g) \subseteq A \ X
          BY <3>1, <4>1, <5>1
        <5>3. \A e \in X : e.row \notin RowsOf(g)
          BY <3>4, <4>1, <5>2
        <5> QED BY <3>2, <4>4, <5>3
      <4> QED BY <2>1, <4>2, <4>3, <4>4
    <3>8. Closed(p)
      <4> SUFFICES ASSUME Symmetric(all, aliases), NEW e \in Members(g),
                          NEW f \in A \ Members(g), eligible(e, f, aliases)
                   PROVE  FALSE
        <5>1. Symmetric(all, aliases) =>
                \A h \in Members(q.groups) : LeadsNowhere(Members(h), all, aliases)
          BY <2>1
        <5> QED BY <3>3, <5>1 DEF LeadsNowhere, A
      <4>1. f.row \in q.seen
        BY <3>1
      <4>2. PICK h \in Members(q.groups) : f.row \in RowsOf(h)
        BY <2>1, <4>1
      <4>3. Members(h) \subseteq A /\ LeadsNowhere(Members(h), all, aliases)
        BY <2>1
      <4>4. f \in Members(h)
        BY <2>4, <4>2, <4>3 DEF RowsOf
      <4>5. e \notin Members(h)
        <5>1. e.row \in RowsOf(g)
          BY DEF RowsOf
        <5>2. e.row \notin q.seen
          BY <3>1, <5>1
        <5>3. e.row \notin RowsOf(h)
          BY <2>1, <5>2
        <5> QED BY <5>3 DEF RowsOf
      <4>6. eligible(f, e, aliases)
        BY <3>1 DEF Symmetric, A
      <4> QED BY <3>1, <4>3, <4>4, <4>5, <4>6 DEF LeadsNowhere, A
    <3> HIDE DEF Shaped, Covered, Cliques, Closed
    <3> QED BY <2>1, <3>5, <3>6, <3>7, <3>8 DEF T, p
  <2> QED BY <2>5, <2>6
<1> DEFINE q == found[N]
<1>7. Shaped(q) /\ Covered(q, N) /\ Cliques(q) /\ Closed(q)
  <2> HIDE DEF T, N
  <2>1. \A n \in 0..N : n \in T
    BY <1>1, <1>5, <1>6, Induct
  <2>2. N \in T
    BY <1>1, <2>1
  <2> HIDE DEF Shaped, Covered, Cliques, Closed
  <2> QED BY <2>2 DEF T
<1> HIDE DEF q
<1>8. ASSUME NEW X \in IsolatedCliques(A, aliases)
      PROVE  \E g \in Members(q.groups) : Members(g) = X
  <2>1. PICK e \in X : e \in A
    BY DEF IsolatedCliques
  <2>2. PICK k \in 1..N : e = all[k]
    BY <2>1 DEF Members
  <2>3. e.row \in q.seen
    BY <1>7, <2>2
  <2> HIDE DEF A, N
  <2> QED BY <1>7, <2>1, <2>3
<1> QED BY <1>2, <1>7, <1>8 DEF q

\* A group of an isolated clique has as many bookmakers as events.
LEMMA OneOfEach ==
  ASSUME NEW E, NEW g \in Seq(E), RowsApart(g), NEW aliases,
         \A e, f \in Members(g) : e # f => eligible(e, f, aliases)
  PROVE  Cardinality({ProviderOf[r] : r \in RowsOf(g)}) = Len(g)
<1> DEFINE P == {ProviderOf[r] : r \in RowsOf(g)}
           site == [j \in 1..Len(g) |-> ProviderOf[g[j].row]]
<1>1. Len(g) \in Nat /\ \A j \in 1..Len(g) : g[j] \in Members(g)
  BY DEF Members
<1>2. \A j \in 1..Len(g) : site[j] \in P
  BY <1>1 DEF RowsOf
<1>3. \A p \in P : \E j \in 1..Len(g) : site[j] = p
  BY DEF RowsOf, Members
<1>4. ASSUME NEW i \in 1..Len(g), NEW j \in 1..Len(g), i # j PROVE site[i] # site[j]
  <2>1. g[i] # g[j]
    BY <1>4 DEF RowsApart
  <2>2. eligible(g[i], g[j], aliases)
    BY <1>1, <2>1
  <2> QED BY <2>2 DEF eligible
<1>5. site \in [1..Len(g) -> P]
  BY <1>2
<1> HIDE DEF site, P
<1>6. site \in Bijection(1..Len(g), P)
  BY <1>3, <1>4, <1>5 DEF Bijection, Injection, Surjection, IsInjective
<1>7. ExistsBijection(1..Len(g), P)
  BY <1>6 DEF ExistsBijection
<1>8. Cardinality(P) = Len(g)
  BY <1>1, <1>7, FS_CountingElements
<1> QED BY <1>8 DEF P

\* A comparison accepts every isolated clique without a conflict, and nothing else
\* where being eligible does not depend on who is asked.
LEMMA CompareFindsCliques ==
  ASSUME NEW E, NEW events \in Seq(E), NEW providers, NEW aliases
  PROVE  LET all == Members(Compared(events, providers))
             found == {RowsOf(g) : g \in Members(Compare(events, providers, aliases).matched)}
             reference == Reference(all, Conflicts(Mine(events, providers)), aliases)
         IN  /\ \A X, Y \in found : X = Y \/ X \cap Y = {}
             /\ \A X \in found : \A r, q \in X : r # q => ProviderOf[r] # ProviderOf[q]
             /\ reference \subseteq found
             /\ (\A e, f \in all : eligible(e, f, aliases) => eligible(f, e, aliases))
                  => found \subseteq reference
<1> DEFINE mine == Mine(events, providers)
           s == Compared(events, providers)
           A == Members(s)
           conflicts == Conflicts(mine)
           groups == Groups(s, aliases)
           accepted == {g \in Members(groups) : Accepted(g, conflicts, aliases)}
           matched == Compare(events, providers, aliases).matched
<1>1. s \in Seq(E) /\ RowsApart(s)
  <2>1. mine \in Seq(E)
    BY KeptFacts DEF Mine
  <2> HIDE DEF mine
  <2>2. Unique(mine) \in Seq(E) /\ RowsApart(Unique(mine))
    BY <2>1, UniqueFacts
  <2>3. <<>> \in Seq(E) /\ RowsApart(<<>>)
    BY DEF RowsApart
  <2> QED BY <2>2, <2>3 DEF Compared, mine
<1>2. matched = Kept(groups, accepted)
  BY DEF Compare
<1> HIDE DEF s, conflicts, matched
<1>3. /\ groups \in Seq(Seq(A))
      /\ \A g \in Members(groups) : g \in Seq(A) /\ RowsApart(g)
      /\ \A g, h \in Members(groups) : g = h \/ RowsOf(g) \cap RowsOf(h) = {}
      /\ \A X \in IsolatedCliques(A, aliases) : \E g \in Members(groups) : Members(g) = X
      /\ Symmetric(s, aliases) =>
           \A g \in Members(groups) : LeadsNowhere(Members(g), s, aliases)
  BY <1>1, GroupsFacts
<1> HIDE DEF groups
<1>4. Members(matched) = accepted
  <2>1. Members(matched) = Members(groups) \cap accepted
    <3> HIDE DEF accepted
    <3> QED BY <1>2, <1>3, KeptFacts
  <2> QED BY <2>1
<1>5. ASSUME NEW X \in IsolatedCliques(A, aliases), \A e \in X : e.row \notin conflicts
      PROVE  \E g \in Members(matched) : RowsOf(g) = {e.row : e \in X}
  <2>1. PICK g \in Members(groups) : Members(g) = X
    BY <1>3
  <2>2. g \in Seq(A) /\ RowsApart(g)
    BY <1>3
  <2>3. /\ \E e, f \in X : e # f
        /\ \A e, f \in X : e # f => eligible(e, f, aliases)
    BY DEF IsolatedCliques
  <2>4. RowsOf(g) = {e.row : e \in X}
    BY <2>1 DEF RowsOf
  <2>5. Len(g) > 1
    <3>1. PICK e, f \in Members(g) : e # f
      BY <2>1, <2>3
    <3>2. PICK i, j \in 1..Len(g) : e = g[i] /\ f = g[j]
      BY <3>1 DEF Members
    <3>3. Len(g) \in Nat /\ i # j
      BY <2>2, <3>1, <3>2
    <3> QED BY <3>3
  <2>6. Cardinality({ProviderOf[r] : r \in RowsOf(g)}) = Len(g)
    BY <2>1, <2>2, <2>3, OneOfEach
  <2>7. RowsOf(g) \cap conflicts = {}
    BY <1>5, <2>4
  <2>8. ASSUME NEW m \in 1..Len(g), NEW n \in 1..Len(g), m < n
        PROVE  eligible(g[m], g[n], aliases)
    <3>1. g[m] # g[n]
      <4>1. m # n
        BY <2>8
      <4> QED BY <2>2, <4>1 DEF RowsApart
    <3>2. g[m] \in X /\ g[n] \in X
      BY <2>1 DEF Members
    <3> QED BY <2>3, <3>1, <3>2
  <2>9. Accepted(g, conflicts, aliases)
    BY <2>5, <2>6, <2>7, <2>8 DEF Accepted
  <2> QED BY <1>4, <2>1, <2>4, <2>9
<1>6. ASSUME \A e, f \in A : eligible(e, f, aliases) => eligible(f, e, aliases),
             NEW g \in Members(matched)
      PROVE  /\ Members(g) \in IsolatedCliques(A, aliases)
             /\ \A e \in Members(g) : e.row \notin conflicts
             /\ RowsOf(g) = {e.row : e \in Members(g)}
  <2>1. g \in Members(groups) /\ Accepted(g, conflicts, aliases)
    BY <1>4
  <2>2. g \in Seq(A) /\ RowsApart(g) /\ Members(g) \subseteq A
    BY <1>3, <2>1, OwnMembers
  <2>3. LeadsNowhere(Members(g), s, aliases)
    BY <1>3, <1>6, <2>1 DEF Symmetric
  <2>4. \A e \in Members(g), f \in A \ Members(g) :
          ~ eligible(e, f, aliases) /\ ~ eligible(f, e, aliases)
    BY <1>6, <2>2, <2>3 DEF LeadsNowhere
  <2>5. /\ Len(g) > 1
        /\ RowsOf(g) \cap conflicts = {}
        /\ \A m, n \in 1..Len(g) : m < n => eligible(g[m], g[n], aliases)
    BY <2>1 DEF Accepted
  <2>6. Len(g) \in Nat
    BY <2>2
  <2>7. \E e, f \in Members(g) : e # f
    <3>1. g[1] \in Members(g) /\ g[2] \in Members(g) /\ 1 \in 1..Len(g) /\ 2 \in 1..Len(g)
      BY <2>5, <2>6 DEF Members
    <3>2. g[1] # g[2]
      BY <2>2, <3>1 DEF RowsApart
    <3> QED BY <3>1, <3>2
  <2>8. ASSUME NEW e \in Members(g), NEW f \in Members(g), e # f
        PROVE  eligible(e, f, aliases)
    <3>1. PICK i, j \in 1..Len(g) : e = g[i] /\ f = g[j]
      BY DEF Members
    <3>2. i < j \/ j < i
      BY <2>6, <2>8, <3>1
    <3>3. CASE i < j
      BY <2>5, <3>1, <3>3
    <3>4. CASE j < i
      <4>1. eligible(f, e, aliases)
        BY <2>5, <3>1, <3>4
      <4> QED BY <1>6, <2>2, <4>1
    <3> QED BY <3>2, <3>3, <3>4
  <2>9. Members(g) \in IsolatedCliques(A, aliases)
    BY <2>2, <2>4, <2>7, <2>8 DEF IsolatedCliques
  <2>10. \A e \in Members(g) : e.row \notin conflicts
    BY <2>5 DEF RowsOf
  <2> QED BY <2>9, <2>10 DEF RowsOf
<1>7. ASSUME NEW g \in Members(matched), NEW r \in RowsOf(g), NEW q \in RowsOf(g), r # q
      PROVE  ProviderOf[r] # ProviderOf[q]
  <2>1. g \in Members(groups) /\ Accepted(g, conflicts, aliases)
    BY <1>4
  <2>2. PICK i, j \in 1..Len(g) : r = g[i].row /\ q = g[j].row
    BY DEF RowsOf, Members
  <2>3. \A m, n \in 1..Len(g) : m < n => eligible(g[m], g[n], aliases)
    BY <2>1 DEF Accepted
  <2>4. Len(g) \in Nat
    BY <1>3, <2>1
  <2>5. i < j \/ j < i
    BY <1>7, <2>2, <2>4
  <2>6. eligible(g[i], g[j], aliases) \/ eligible(g[j], g[i], aliases)
    BY <2>3, <2>5
  <2> QED BY <2>2, <2>6 DEF eligible
<1>8. \A g, h \in Members(matched) : RowsOf(g) = RowsOf(h) \/ RowsOf(g) \cap RowsOf(h) = {}
  BY <1>3, <1>4
<1> DEFINE rows == {RowsOf(g) : g \in Members(matched)}
           cliques == {X \in IsolatedCliques(A, aliases) : \A e \in X : e.row \notin conflicts}
           isolated == {{e.row : e \in X} : X \in cliques}
<1>9. /\ isolated \subseteq rows
      /\ (\A e, f \in A : eligible(e, f, aliases) => eligible(f, e, aliases))
           => rows \subseteq isolated
  BY <1>5, <1>6
<1>10. /\ \A X, Y \in rows : X = Y \/ X \cap Y = {}
       /\ \A X \in rows : \A r, q \in X : r # q => ProviderOf[r] # ProviderOf[q]
  BY <1>7, <1>8
<1>11. isolated = Reference(A, conflicts, aliases)
  BY DEF Reference
<1> HIDE DEF A, mine, isolated
<1> QED BY <1>9, <1>10, <1>11 DEF rows, A, s, conflicts, matched, mine

\* What lists of events show is a list of events.
LEMMA ShownFacts ==
  ASSUME NEW E, NEW held, NEW order, Len(order) \in Nat,
         \A n \in 1..Len(order) : held[order[n]].events \in Seq(E)
  PROVE  Shown(held, order) \in Seq(E)
<1> DEFINE N == Len(order)
           next(q, n) == q \o held[order[n]].events
           Is(f) == f = [n \in 0..N |-> IF n = 0 THEN <<>> ELSE next(f[n - 1], n)]
           upTo == CHOOSE f : Is(f)
           step == [n \in 1..N |-> [q \in Seq(E) |-> next(q, n)]]
<1>1. Shown(held, order) = upTo[N]
  BY DEF Shown
<1> HIDE DEF N
<1>2. N \in Nat /\ \A n \in 1..N : held[order[n]].events \in Seq(E)
  BY DEF N
<1>3. ASSUME NEW n \in 1..N, NEW q \in Seq(E) PROVE next(q, n) \in Seq(E)
  BY <1>2, ConcatFacts
<1> HIDE DEF next
<1>4. step \in Steps(N, Seq(E)) /\ <<>> \in Seq(E)
  BY <1>3 DEF Steps
<1> HIDE DEF step
<1>5. PICK f : Follows(f, <<>>, N, Seq(E), step)
  BY <1>2, <1>4, Recursion
<1>6. /\ \A n \in 0..N : n = 0 \/ n \in 1..N
      /\ N \in 0..N /\ \A n \in 1..N : n - 1 \in 0..N /\ n # 0
  BY <1>2
<1>7. \A n \in 1..N : f[n] = next(f[n - 1], n)
  BY <1>5, <1>6 DEF step, Follows
<1>8. f = [n \in 0..N |-> IF n = 0 THEN <<>> ELSE next(f[n - 1], n)]
  BY <1>5, <1>6, <1>7 DEF Follows
<1>9. Is(upTo)
  BY <1>8
<1> HIDE DEF upTo
<1> DEFINE T == {n \in 0..N : upTo[n] \in Seq(E)}
<1>10. 0 \in T
  BY <1>2, <1>4, <1>9
<1>11. ASSUME NEW n \in 1..N, n - 1 \in T PROVE n \in T
  <2>1. n \in 0..N /\ upTo[n] = next(upTo[n - 1], n)
    BY <1>6, <1>9
  <2> QED BY <1>3, <1>11, <2>1
<1> HIDE DEF T, Is
<1>12. \A n \in 0..N : n \in T
  BY <1>2, <1>10, <1>11, Induct
<1> QED BY <1>1, <1>6, <1>12 DEF T

\* Lists are lists of events.
ListInv ==
  /\ DOMAIN lists = Scope
  /\ \A s \in Scope : lists[s] # None => lists[s].events \in Seq(Observation)

LEMMA ListInit == MatchInit => ListInv
BY DEF MatchInit, ListInv

LEMMA ListStep ==
  ASSUME ListInv, [MatchNext]_matchVars
  PROVE  ListInv'
<1>1. ASSUME NEW s \in Scope, PublishList(s) PROVE ListInv'
  <2>1. PICK at \in 1..MaxAt, events \in Listings[s] :
          lists' = [lists EXCEPT ![s] = [events |-> events, at |-> at]]
    BY <1>1 DEF PublishList
  <2>2. events \in Seq(Observation)
    BY ReconcileAssumption
  <2>3. DOMAIN lists' = Scope
    BY <2>1 DEF ListInv
  <2>4. ASSUME NEW t \in Scope, lists'[t] # None
        PROVE  lists'[t].events \in Seq(Observation)
    <3>1. CASE t = s
      <4>1. lists'[t] = [events |-> events, at |-> at]
        BY <2>1, <3>1 DEF ListInv
      <4> QED BY <2>2, <4>1
    <3>2. CASE t # s
      <4>1. lists'[t] = lists[t]
        BY <2>1, <3>2 DEF ListInv
      <4> QED BY <2>4, <4>1 DEF ListInv
    <3> QED BY <3>1, <3>2
  <2> QED BY <2>3, <2>4 DEF ListInv
<1>2. CASE UNCHANGED lists
  BY <1>2 DEF ListInv
<1> QED BY <1>1, <1>2 DEF MatchNext, PublishDetail, Review, matchVars

LEMMA CliquesFromList ==
  ASSUME ListInv
  PROVE  GroupsAreCliques
<1> DEFINE S == Fresh(lists, 0)
<1>1. S \subseteq Scope /\ \A s \in S : lists[s].events \in Seq(Observation)
  BY DEF Fresh, ListInv
<1>2. Cardinality(S) \in Nat
  <2>1. IsFiniteSet(Scope)
    BY ReconcileAssumption
  <2> HIDE DEF S
  <2>2. IsFiniteSet(S)
    BY <1>1, <2>1, FS_Subset
  <2> QED BY <2>2, FS_CardinalityType
<1> SUFFICES ASSUME NEW order \in Orders(S)
             PROVE  LET events == Shown(lists, order)
                        sites == {SiteOf[s] : s \in S}
                        all == Members(Compared(events, sites))
                        found == {RowsOf(g) : g \in Members(Compare(events, sites, team).matched)}
                        reference == Reference(all, Conflicts(Mine(events, sites)), team)
                    IN  /\ \A X, Y \in found : X = Y \/ X \cap Y = {}
                        /\ \A X \in found :
                             \A r, q \in X : r # q => ProviderOf[r] # ProviderOf[q]
                        /\ reference \subseteq found
                        /\ (\A e, f \in all : eligible(e, f, team) => eligible(f, e, team))
                             => found \subseteq reference
  BY DEF GroupsAreCliques
<1> HIDE DEF S
<1>3. order \in [1..Cardinality(S) -> S]
  BY DEF Orders
<1>4. Len(order) = Cardinality(S)
  BY <1>2, <1>3
<1>5. Shown(lists, order) \in Seq(Observation)
  <2>1. Len(order) \in Nat /\ \A n \in 1..Len(order) : order[n] \in S
    BY <1>2, <1>3, <1>4
  <2>2. \A n \in 1..Len(order) : lists[order[n]].events \in Seq(Observation)
    BY <1>1, <2>1
  <2> QED BY <2>1, <2>2, ShownFacts
<1> DEFINE events == Shown(lists, order)
           sites == {SiteOf[s] : s \in S}
<1> HIDE DEF events, sites
<1>6. events \in Seq(Observation)
  BY <1>5 DEF events
<1> QED BY <1>6, CompareFindsCliques DEF events, sites

\* matching.ts: compareAllProviders() accepts the isolated cliques without a conflict,
\* in whatever order the lists are read, and nothing else where being eligible does not
\* depend on who is asked.
THEOREM GroupsAreTheCliques == MatchSpec => []GroupsAreCliques
<1>1. ListInv /\ [MatchNext]_matchVars => ListInv'
  BY ListStep
<1>2. ListInv => GroupsAreCliques
  BY CliquesFromList
<1> QED BY <1>1, <1>2, ListInit, PTL DEF MatchSpec

-----------------------------------------------------------------------------
(* The records of the decisions. *)

\* With nobody to compare with there is no group, so no row left alone.
LEMMA NoGroups ==
  ASSUME NEW aliases
  PROVE  Groups(<<>>, aliases) = <<>>
<1> DEFINE empty == [groups |-> <<>>, seen |-> {}]
           step(found, n) ==
             LET g == Group(<<>>[n], <<>>, found.seen, aliases) IN
             IF <<>>[n].row \in found.seen THEN found
             ELSE [groups |-> Append(found.groups, g),
                   seen |-> found.seen \cup RowsOf(g)]
           body(f) == [n \in 0..0 |-> IF n = 0 THEN empty ELSE step(f[n - 1], n)]
           found == CHOOSE f : f = body(f)
<1>1. Groups(<<>>, aliases) = found[0].groups
  BY DEF Groups
<1> HIDE DEF step
<1>2. \E f : f = body(f)
  <2> DEFINE f == [n \in 0..0 |-> empty]
  <2>1. \A n \in 0..0 : n = 0
    OBVIOUS
  <2>2. f = body(f)
    BY <2>1, Zenon
  <2> QED
    BY <2>2
<1> HIDE DEF body
<1>3. found = body(found)
  BY <1>2, Zenon
<1> HIDE DEF found
<1>4. found[0] = empty
  BY <1>3 DEF body
<1> QED
  BY <1>1, <1>4 DEF found, body

\* A row is not both without a counterpart and without anybody to compare with.
LEMMA AloneOrNotApplicable ==
  ASSUME NEW events, NEW providers, NEW aliases, NEW r,
         r \in Compare(events, providers, aliases).notApplicable
  PROVE  \A u \in Compare(events, providers, aliases).unmatched : u[1] # r
<1> DEFINE result == Compare(events, providers, aliases)
           mine == Mine(events, providers)
           all == Compared(events, providers)
           conflicts == Conflicts(mine)
           groups == Groups(all, aliases)
           accepted == {g \in Members(groups) : Accepted(g, conflicts, aliases)}
           alone == Members(groups) \ accepted
<1>1. /\ result.notApplicable =
             IF Cardinality(providers) < 2 THEN RowsOf(mine) ELSE {}
      /\ result.unmatched =
           UNION {{<<e.row, Reason(e, g, all, conflicts, aliases)>> :
                     e \in Members(g)} : g \in alone}
  BY DEF Compare
<1> HIDE DEF result, mine, conflicts
<1>2. Cardinality(providers) < 2
  BY <1>1 DEF result
<1>3. Members(groups) = {}
  BY <1>2, NoGroups DEF Members, Compared
<1> HIDE DEF groups, accepted
<1>4. result.unmatched = {}
  BY <1>1, <1>3
<1> QED
  BY <1>4 DEF result

IsDecision(d) ==
  d = Decision(d.canonical, d.status, d.reason)

\* None stands for no decision, so it is none.
NoneIsNoDecision ==
  \A canonical, reason : Decision(canonical, "manual", reason) # None

RecordInv ==
  /\ match = [r \in Row |-> match[r]]
  /\ \A r \in Row : match[r] # None =>
       IsDecision(match[r]) /\ match[r].status \in {"matched", "unmatched", "manual"}
  /\ RecordsFollowMatch

\* Nothing is decided at first.
LEMMA RecordInit == MatchInit => RecordInv
BY DEF MatchInit, RecordInv, RecordsFollowMatch

\* reconcile() keeps the records together, row by row.
LEMMA RecordsReconciled ==
  ASSUME RecordInv, NEW lasting, NEW at, Reconcile(lasting, at)
  PROVE  RecordInv'
<1>1. PICK order \in Orders(Fresh(lasting, at)) :
        LET result == Compare(Shown(lasting, order),
                        {SiteOf[s] : s \in Fresh(lasting, at)}, team)
            done == AllLinked(result.matched)
            verdict == [r \in Row |-> Verdict(r, result, done.link)]
        IN  /\ match' = [r \in Row |->
                 IF verdict[r] # None THEN verdict[r]
                 ELSE IF NotApplicable(r, result) /\ match[r] # None
                         /\ match[r].status = "unmatched" THEN None
                 ELSE match[r]]
            /\ last' = [r \in Row |->
                 IF Changes(r, verdict[r]) THEN verdict[r] ELSE last[r]]
            /\ issue' = [r \in Row |->
                 IF Resolved(r, verdict[r], result) THEN FALSE
                 ELSE issue[r] \/ (verdict[r] # None /\ verdict[r].status = "unmatched")]
  BY DEF Reconcile
<1> DEFINE result == Compare(Shown(lasting, order),
                       {SiteOf[s] : s \in Fresh(lasting, at)}, team)
           link == AllLinked(result.matched).link
           verdict(r) == Verdict(r, result, link)
<1>2. \A r \in result.notApplicable : \A u \in result.unmatched : u[1] # r
  BY AloneOrNotApplicable
<1>3. /\ match' = [r \in Row |->
             IF verdict(r) # None THEN verdict(r)
             ELSE IF NotApplicable(r, result) /\ match[r] # None
                     /\ match[r].status = "unmatched" THEN None
             ELSE match[r]]
      /\ last' = [r \in Row |-> IF Changes(r, verdict(r)) THEN verdict(r) ELSE last[r]]
      /\ issue' = [r \in Row |->
             IF Resolved(r, verdict(r), result) THEN FALSE
             ELSE issue[r] \/ (verdict(r) # None /\ verdict(r).status = "unmatched")]
  BY <1>1
<1> HIDE DEF result, link
<1>4. ASSUME NEW r \in Row
      PROVE  /\ verdict(r) # None =>
                  IsDecision(verdict(r)) /\ verdict(r).status \in {"matched", "unmatched"}
             /\ IsManual(r) => verdict(r) = None
             /\ verdict(r) # None /\ verdict(r).status = "unmatched" => r \notin result.notApplicable
  BY <1>2 DEF Verdict, Decision, IsDecision
<1> HIDE DEF verdict
<1>5. ASSUME NEW r \in Row
      PROVE  /\ match'[r] # None =>
                  /\ IsDecision(match'[r])
                  /\ match'[r].status \in {"matched", "unmatched", "manual"}
             /\ ~ IsManual(r)' =>
                  /\ match'[r] # None => last'[r] = match'[r]
                  /\ issue'[r] <=> match'[r] # None /\ match'[r].status = "unmatched"
  <2>1. /\ match[r] # None =>
             /\ IsDecision(match[r])
             /\ match[r].status \in {"matched", "unmatched", "manual"}
        /\ ~ IsManual(r) =>
             /\ match[r] # None => last[r] = match[r]
             /\ issue[r] <=> match[r] # None /\ match[r].status = "unmatched"
    BY DEF RecordInv, RecordsFollowMatch
  <2>2. IsManual(r)' <=> match'[r] # None /\ match'[r].status = "manual"
    BY DEF IsManual
  <2>3. CASE IsManual(r)
    BY <1>3, <1>4, <2>1, <2>2, <2>3 DEF IsManual, NotApplicable
  <2>4. CASE ~ IsManual(r) /\ verdict(r) # None
    BY <1>3, <1>4, <2>1, <2>2, <2>4 DEF Changes, Resolved, NotApplicable
  <2>5. CASE ~ IsManual(r) /\ verdict(r) = None
    BY <1>3, <1>4, <2>1, <2>2, <2>5 DEF IsManual, Changes,
       Resolved, NotApplicable
  <2> QED
    BY <2>3, <2>4, <2>5
<1>6. match' = [r \in Row |-> match'[r]]
  BY <1>3
<1> QED
  BY <1>5, <1>6 DEF RecordInv, RecordsFollowMatch

\* So does every step.
LEMMA RecordStep ==
  ASSUME NoneIsNoDecision, RecordInv, [MatchNext]_matchVars
  PROVE  RecordInv'
<1>1. ASSUME NEW s \in Scope, PublishList(s) PROVE RecordInv'
  <2>1. PICK lasting, at : Reconcile(lasting, at)
    BY <1>1 DEF PublishList
  <2> QED
    BY <2>1, RecordsReconciled
<1>2. CASE PublishDetail
  BY <1>2, RecordsReconciled DEF PublishDetail
<1>3. ASSUME NEW r \in Row, Review(r) PROVE RecordInv'
  <2>1. /\ match[r] # None /\ match' = [match EXCEPT ![r].status = "manual"]
        /\ last' = last /\ issue' = issue
    BY <1>3 DEF Review
  <2>2. /\ match'[r] = Decision(match[r].canonical, "manual", match[r].reason)
        /\ \A s \in Row \ {r} : match'[s] = match[s]
    BY <2>1 DEF RecordInv, IsDecision, Decision
  <2>3. /\ IsDecision(match'[r]) /\ match'[r].status = "manual" /\ match'[r] # None
    BY <2>2 DEF NoneIsNoDecision, IsDecision, Decision
  <2>4. match' = [s \in Row |-> match'[s]]
    BY <2>1 DEF RecordInv
  <2>5. ASSUME NEW s \in Row
        PROVE  /\ match'[s] # None =>
                    /\ IsDecision(match'[s])
                    /\ match'[s].status \in {"matched", "unmatched", "manual"}
               /\ ~ IsManual(s)' =>
                    /\ match'[s] # None => last'[s] = match'[s]
                    /\ issue'[s] <=> match'[s] # None /\ match'[s].status = "unmatched"
    <3>1. CASE s # r
      BY <2>1, <2>2, <3>1 DEF RecordInv, RecordsFollowMatch, IsManual
    <3>2. CASE s = r
      BY <2>3, <3>2 DEF IsManual
    <3> QED
      BY <3>1, <3>2
  <2> QED
    BY <2>4, <2>5 DEF RecordInv, RecordsFollowMatch
<1>4. CASE UNCHANGED matchVars
  BY <1>4 DEF matchVars, RecordInv, RecordsFollowMatch, IsManual
<1> QED
  BY <1>1, <1>2, <1>3, <1>4 DEF MatchNext

\* matching.repository.ts: reconcile() writes the decision, its history and its issue in
\* different statements, under different conditions.
THEOREM RecordsAgree ==
  ASSUME NoneIsNoDecision
  PROVE  MatchSpec => []RecordsFollowMatch
<1>1. RecordInv => RecordsFollowMatch
  BY DEF RecordInv
<1>2. RecordInv /\ [MatchNext]_matchVars => RecordInv'
  BY RecordStep
<1>3. MatchSpec => MatchInit /\ [][MatchNext]_matchVars
  BY DEF MatchSpec
<1> QED
  BY <1>1, <1>2, <1>3, RecordInit, PTL

-----------------------------------------------------------------------------
(* The page. *)

\* What a detail holds is of the event it was asked for.
IsOf(data, id) == \A e \in DOMAIN data : data[e].id = id

DetailInv ==
  /\ requests = [v \in View |-> requests[v]]
  /\ shown = [v \in View |-> shown[v]]
  /\ "selected" \in DOMAIN page
  /\ page.selected = Null =>
       requests["detail"] = {} /\ shown["detail"].data = Null
  /\ requests["detail"] # {} => "detail" \in watched
  /\ \A r \in requests["detail"] :
       /\ DOMAIN r = {"id", "answer"} /\ r.id = page.selected
       /\ r.answer # Null /\ r.answer.ok => IsOf(r.answer.data, r.id)
  /\ DOMAIN shown["detail"] = {"data", "error"}
  /\ shown["detail"].data # Null => IsOf(shown["detail"].data, page.selected)

\* No event is open at first.
LEMMA DetailInit == LiveInit => DetailInv
BY DEF LiveInit, DetailInv, View, Visible, NoData

\* The server answers with rows of the event it was asked for.
LEMMA DataIsOf ==
  ASSUME NEW id, Data("detail", id) # Null
  PROVE  IsOf(Data("detail", id), id)
<1>1. Data("detail", id) = [e \in EventsOf(id) |-> RowOf(e, stored.rows[e])]
  BY DEF Data
<1> QED BY <1>1 DEF IsOf, RowOf, EventsOf

\* Only a click changes what is open, and it drops what was asked before.
LEMMA DetailStep ==
  ASSUME DetailInv, [LiveNext]_liveVars
  PROVE  DetailInv'
<1>0. "detail" \in View
  BY DEF View
<1>1. ASSUME UNCHANGED <<page, shown, requests, watched>> PROVE DetailInv'
  BY <1>1 DEF DetailInv
<1>2. CASE UNCHANGED liveVars
  BY <1>1, <1>2 DEF liveVars
<1>3. CASE \/ \E p \in Publication : Commit(p)
           \/ \E e \in Event : Expire(e)
           \/ \E n \in unsent : Notify(n)
           \/ Refresh \/ Heartbeat \/ Start \/ Connect \/ Receive
           \/ \E n \in unsent : ReloadFails(n)
           \/ RefreshFails \/ Drop \/ Refused
  BY <1>1, <1>3 DEF Commit, Expire, Notify, Refresh, ReadMatches, ReadIssues, Look,
     ReadProviders, ReadMarkets, Heartbeat, Start, Connect, Receive,
     ReloadFails, RefreshFails, Drop, Refused
<1>4. CASE Bump
  <2>1. /\ page' = page /\ watched' = watched
        /\ requests' = [v \in View |-> requests'[v]]
        /\ shown' = [v \in View |-> shown'[v]]
        /\ shown'["detail"] \in {shown["detail"], [shown["detail"] EXCEPT !.error = FALSE]}
        /\ requests'["detail"] = requests["detail"]
           \/ (page.selected # Null /\ "detail" \in watched
               /\ requests'["detail"] = {Request(page.selected)})
    BY <1>0, <1>4 DEF Bump, Outstanding, Visible
  <2>2. shown'["detail"].data = shown["detail"].data /\ DOMAIN shown'["detail"] = {"data", "error"}
    BY <2>1 DEF DetailInv
  <2>3. CASE requests'["detail"] = requests["detail"]
    BY <2>1, <2>2, <2>3 DEF DetailInv
  <2>4. CASE /\ page.selected # Null /\ "detail" \in watched
             /\ requests'["detail"] = {Request(page.selected)}
    <3>1. /\ DOMAIN Request(page.selected) = {"id", "answer"}
          /\ Request(page.selected).id = page.selected
          /\ Request(page.selected).answer = Null
      BY DEF Request
    <3> QED
      BY <2>1, <2>2, <2>4, <3>1 DEF DetailInv
  <2> QED
    BY <2>1, <2>3, <2>4
<1>5. ASSUME NEW v \in View, NEW r \in requests[v],
             Serve(v, r) \/ ServeFails(v, r)
      PROVE  DetailInv'
  <2>1. PICK answer : /\ Answered(v, r, answer)
                      /\ v = "detail" /\ answer.ok => IsOf(answer.data, r.id)
    <3>1. CASE Serve(v, r)
      <4> DEFINE data == Data(v, r.id)
      <4>1. Answered(v, r, [ok |-> data # Null, data |-> data])
        BY <3>1 DEF Serve
      <4>2. v = "detail" /\ data # Null => IsOf(data, r.id)
        BY DataIsOf
      <4>3. [ok |-> data # Null, data |-> data].ok = (data # Null)
            /\ [ok |-> data # Null, data |-> data].data = data
        OBVIOUS
      <4> HIDE DEF data
      <4> QED
        BY <4>1, <4>2, <4>3
    <3>2. CASE ServeFails(v, r)
      BY <3>2 DEF ServeFails, Failed
    <3> QED
      BY <1>5, <3>1, <3>2
  <2>2. UNCHANGED <<page, shown, watched>>
    BY <1>5 DEF Serve, ServeFails
  <2>3. CASE v # "detail"
    <3>1. requests'["detail"] = requests["detail"] /\ requests' = [w \in View |-> requests'[w]]
      BY <2>1, <2>3, <1>0 DEF Answered, DetailInv
    <3> QED
      BY <2>2, <3>1 DEF DetailInv
  <2>4. CASE v = "detail"
    <3>1. /\ requests' = [w \in View |-> requests'[w]]
          /\ requests'["detail"] = (requests["detail"] \ {r}) \union {[r EXCEPT !.answer = answer]}
      BY <2>1, <2>4, <1>0 DEF Answered, DetailInv
    <3>2. page.selected # Null /\ "detail" \in watched
      BY <2>4 DEF DetailInv
    <3>3. ASSUME NEW s \in requests'["detail"]
          PROVE  /\ DOMAIN s = {"id", "answer"} /\ s.id = page.selected
                 /\ s.answer # Null /\ s.answer.ok => IsOf(s.answer.data, s.id)
      <4>1. CASE s \in requests["detail"]
        BY <4>1 DEF DetailInv
      <4>2. CASE s = [r EXCEPT !.answer = answer]
        BY <4>2, <2>1, <2>4 DEF DetailInv
      <4> QED
        BY <3>1, <3>3, <4>1, <4>2
    <3> QED
      BY <2>2, <3>1, <3>2, <3>3 DEF DetailInv
  <2> QED
    BY <2>3, <2>4
<1>6. ASSUME NEW v \in View, NEW r \in requests[v], Deliver(v, r)
      PROVE  DetailInv'
  <2>1. /\ page' = page /\ watched' = watched
        /\ requests' = [w \in View |-> requests'[w]]
        /\ shown' = [w \in View |-> shown'[w]]
        /\ requests'["detail"] \subseteq requests["detail"]
    BY <1>0, <1>6 DEF Deliver, DetailInv
  <2>2. CASE v # "detail"
    <3>1. shown'["detail"] = shown["detail"]
      BY <1>0, <1>6, <2>2 DEF Deliver, DetailInv
    <3> QED
      BY <2>1, <3>1 DEF DetailInv
  <2>3. CASE v = "detail"
    <3>1. /\ page.selected # Null /\ r.id = page.selected
          /\ r.answer # Null /\ r.answer.ok => IsOf(r.answer.data, page.selected)
      BY <2>3 DEF DetailInv
    <3>2. shown'["detail"] =
            IF r.answer.ok THEN [data |-> r.answer.data, error |-> FALSE]
            ELSE [shown["detail"] EXCEPT !.error = TRUE]
      BY <1>0, <1>6, <2>3 DEF Deliver, DetailInv
    <3>3. /\ DOMAIN shown'["detail"] = {"data", "error"}
          /\ shown'["detail"].data = IF r.answer.ok THEN r.answer.data ELSE shown["detail"].data
      <4>1. CASE r.answer.ok
        BY <3>2, <4>1
      <4>2. CASE ~ r.answer.ok
        <5>1. DOMAIN shown["detail"] = {"data", "error"}
          BY DEF DetailInv
        <5>2. shown'["detail"] = [shown["detail"] EXCEPT !.error = TRUE]
          BY <3>2, <4>2
        <5> QED
          BY <4>2, <5>1, <5>2
      <4> QED
        BY <4>1, <4>2
    <3>4. r.answer # Null
      BY <1>6 DEF Deliver
    <3> QED
      BY <2>1, <3>1, <3>3, <3>4 DEF DetailInv
  <2> QED
    BY <2>2, <2>3
<1>7. CASE User
  <2>0. /\ \A id \in Event \union {"canonical"} : id # Null
        /\ \E to, asked, closed : Turn(to, asked, closed)
    BY <1>7, MonitorLiveAssumption DEF User, Back, OpenDrawer, Open
  <2>1. /\ watched' = watched
        /\ requests' = [w \in View |-> requests'[w]]
        /\ shown' = [w \in View |-> shown'[w]]
    BY <2>0 DEF Turn
  <2>2. ASSUME NEW id \in Event \union {"canonical"}, Open(id)
        PROVE  DetailInv'
    <3>1. /\ page'.selected = id /\ "selected" \in DOMAIN page'
          /\ shown'["detail"] = [data |-> Null, error |-> FALSE]
          /\ requests'["detail"] =
               IF "detail" \in watched THEN {Request(id)} ELSE {}
      BY <1>0, <2>2 DEF DetailInv, Open, Turn, Outstanding, NoData
    <3> QED
      BY <2>0, <2>1, <3>1 DEF DetailInv, Request
  <2>3. CASE Back
    BY <1>0, <2>1, <2>3 DEF DetailInv, Back, Turn, NoData
  <2>4. CASE OpenDrawer
    BY <1>0, <2>1, <2>4 DEF DetailInv, OpenDrawer, Turn
  <2> QED
    BY <1>7, <2>2, <2>3, <2>4 DEF User
<1>8. CASE Stop
  <2>1. /\ UNCHANGED <<page, shown, watched>>
        /\ requests' = [w \in View |-> requests'[w]]
        /\ requests'["detail"] =
             {IF r.answer = Null THEN [r EXCEPT !.answer = Failed] ELSE r :
                r \in requests["detail"]}
    BY <1>0, <1>8 DEF Stop
  <2>2. ASSUME NEW s \in requests'["detail"]
        PROVE  /\ DOMAIN s = {"id", "answer"} /\ s.id = page.selected
               /\ s.answer # Null /\ s.answer.ok => IsOf(s.answer.data, s.id)
    <3>1. PICK r \in requests["detail"] :
            s = IF r.answer = Null THEN [r EXCEPT !.answer = Failed] ELSE r
      BY <2>1
    <3>2. /\ DOMAIN r = {"id", "answer"} /\ r.id = page.selected
          /\ r.answer # Null /\ r.answer.ok => IsOf(r.answer.data, r.id)
      BY DEF DetailInv
    <3>3. CASE r.answer = Null
      <4>1. DOMAIN s = {"id", "answer"} /\ s.id = page.selected /\ s.answer = Failed
        BY <3>1, <3>2, <3>3
      <4> QED
        BY <4>1 DEF Failed
    <3> QED
      BY <3>1, <3>2, <3>3
  <2> QED
    BY <2>1, <2>2 DEF DetailInv
<1> QED
  BY <1>2, <1>3, <1>4, <1>5, <1>6, <1>7, <1>8 DEF LiveNext, Fault

\* use-resource.ts and App.tsx: whatever is clicked, asked again, answered late or
\* refused, an open event's data is that event's.
THEOREM OpenEventIsShown == LiveSpec => []DetailIsOfTheOpenEvent
<1>0. DetailInv /\ [LiveNext]_liveVars => DetailInv'
  BY DetailStep
<1>1. DetailInv => DetailIsOfTheOpenEvent
  BY DEF DetailInv, IsOf, DetailIsOfTheOpenEvent
<1>2. LiveSpec => LiveInit /\ [][LiveNext]_liveVars
  BY DEF LiveSpec
<1> QED
  BY <1>0, <1>1, <1>2, DetailInit, PTL

-----------------------------------------------------------------------------
(* The changes of a publication. *)

Held(batch, e) == IF e \in DOMAIN batch THEN batch[e] ELSE << >>

\* One change of each kind.
NewEvent(e, after) == [type |-> "EventAdded", event |-> e, markets |-> after[e]]
NewMarket(e, m, new) ==
  [type |-> "MarketAdded", event |-> e, market |-> m, content |-> new[m]]
NewOdds(e, m, s, new) ==
  [type |-> "OddsChanged", event |-> e, market |-> m, selection |-> s, odds |-> new[m].odds[s]]

\* The changes of a publication, which holds all of its scope.
Said(before, after) == MarketChanges(before, after, TRUE)
EventsSaid(before, after) == Events(before, after, TRUE)
Covered(old, new, e) == Coverage(old, new, e, TRUE)

\* The members of each part of the changes.
LEMMA CoverageHas ==
  ASSUME NEW old, NEW new, NEW e, NEW c
  PROVE  c \in Covered(old, new, e) <=>
           \/ \E m \in DOMAIN new \ DOMAIN old : c = NewMarket(e, m, new)
           \/ \E m \in DOMAIN old \ DOMAIN new : c = AboutMarket("MarketRemoved", e, m)
BY DEF Covered, Coverage, NewMarket

LEMMA SuspensionHas ==
  ASSUME NEW old, NEW new, NEW e, NEW c
  PROVE  c \in Suspension(old, new, e) <=>
           \E m \in DOMAIN old \intersect DOMAIN new :
             \/ /\ old[m].suspended = "no" /\ new[m].suspended = "yes"
                /\ c = AboutMarket("MarketSuspended", e, m)
             \/ /\ old[m].suspended = "yes" /\ new[m].suspended = "no"
                /\ c = AboutMarket("MarketReopened", e, m)
BY DEF Suspension

LEMMA OddsHas ==
  ASSUME NEW old, NEW new, NEW e, NEW c
  PROVE  c \in OddsChanges(old, new, e) <=>
           \E m \in DOMAIN old \intersect DOMAIN new :
             \E s \in Moved(old[m].odds, new[m].odds) : c = NewOdds(e, m, s, new)
BY DEF OddsChanges, NewOdds

LEMMA EventsHas ==
  ASSUME NEW before, NEW after, NEW c
  PROVE  c \in EventsSaid(before, after) <=>
           \/ \E e \in DOMAIN after \ DOMAIN before : c = NewEvent(e, after)
           \/ \E e \in DOMAIN before \ DOMAIN after : c = AboutEvent("EventRemoved", e)
BY DEF EventsSaid, Events, NewEvent

\* What is said of an event the later batch has.
Within(before, after, e) ==
  LET old == Held(before, e) IN
  Covered(old, after[e], e) \union Suspension(old, after[e], e)
  \union OddsChanges(old, after[e], e)

\* The changes are those of the events and those within each event that stays or comes.
LEMMA ChangesHas ==
  ASSUME NEW before, NEW after, NEW c
  PROVE  c \in Said(before, after) <=>
           \/ c \in EventsSaid(before, after)
           \/ \E e \in DOMAIN after : c \in Within(before, after, e)
<1>1. Said(before, after) =
        EventsSaid(before, after)
        \union UNION {Within(before, after, e) : e \in DOMAIN after}
  BY Zenon DEF Said, MarketChanges, EventsSaid, Covered, Within, Held
<1> QED
  BY <1>1

\* What is within an event is one of five kinds of change of one of its markets.
LEMMA WithinHas ==
  ASSUME NEW before, NEW after, NEW e, NEW c \in Within(before, after, e)
  PROVE  LET old == Held(before, e) IN
         \/ \E m \in DOMAIN after[e] \ DOMAIN old : c = NewMarket(e, m, after[e])
         \/ \E m \in DOMAIN old \ DOMAIN after[e] : c = AboutMarket("MarketRemoved", e, m)
         \/ \E m \in DOMAIN old \intersect DOMAIN after[e] :
              \/ /\ old[m].suspended = "no" /\ after[e][m].suspended = "yes"
                 /\ c = AboutMarket("MarketSuspended", e, m)
              \/ /\ old[m].suspended = "yes" /\ after[e][m].suspended = "no"
                 /\ c = AboutMarket("MarketReopened", e, m)
              \/ \E s \in Moved(old[m].odds, after[e][m].odds) : c = NewOdds(e, m, s, after[e])
<1> DEFINE old == Held(before, e)
<1>1. \/ c \in Covered(old, after[e], e) \/ c \in Suspension(old, after[e], e)
      \/ c \in OddsChanges(old, after[e], e)
  BY DEF Within
<1> HIDE DEF old
<1>2. CASE c \in Covered(old, after[e], e)
  BY <1>2, CoverageHas DEF old
<1>3. CASE c \in Suspension(old, after[e], e)
  BY <1>3, SuspensionHas DEF old
<1>4. CASE c \in OddsChanges(old, after[e], e)
  BY <1>4, OddsHas DEF old
<1> QED
  BY <1>1, <1>2, <1>3, <1>4

\* What a change of each kind says.
LEMMA AboutEventHas ==
  ASSUME NEW type, NEW e
  PROVE  AboutEvent(type, e).type = type /\ AboutEvent(type, e).event = e
BY DEF AboutEvent

LEMMA AboutMarketHas ==
  ASSUME NEW type, NEW e, NEW m
  PROVE  /\ AboutMarket(type, e, m).type = type /\ AboutMarket(type, e, m).event = e
         /\ AboutMarket(type, e, m).market = m
BY DEF AboutMarket

LEMMA NewEventHas ==
  ASSUME NEW e, NEW after
  PROVE  /\ NewEvent(e, after).type = "EventAdded" /\ NewEvent(e, after).event = e
         /\ NewEvent(e, after).markets = after[e]
BY DEF NewEvent

LEMMA NewMarketHas ==
  ASSUME NEW e, NEW m, NEW new
  PROVE  /\ NewMarket(e, m, new).type = "MarketAdded" /\ NewMarket(e, m, new).event = e
         /\ NewMarket(e, m, new).market = m /\ NewMarket(e, m, new).content = new[m]
BY DEF NewMarket

LEMMA NewOddsHas ==
  ASSUME NEW e, NEW m, NEW s, NEW new
  PROVE  /\ NewOdds(e, m, s, new).type = "OddsChanged" /\ NewOdds(e, m, s, new).event = e
         /\ NewOdds(e, m, s, new).market = m /\ NewOdds(e, m, s, new).selection = s
         /\ NewOdds(e, m, s, new).odds = new[m].odds[s]
BY DEF NewOdds

\* No change is about another event, or of the kinds of another part.
LEMMA WithinIsAbout ==
  ASSUME NEW before, NEW after, NEW e, NEW c \in Within(before, after, e)
  PROVE  /\ c.event = e
         /\ c.type \in {"MarketAdded", "MarketRemoved", "MarketSuspended",
                        "MarketReopened", "OddsChanged"}
BY WithinHas, AboutMarketHas, NewMarketHas, NewOddsHas

LEMMA EventsAre ==
  ASSUME NEW before, NEW after, NEW c \in EventsSaid(before, after)
  PROVE  c.type \in {"EventAdded", "EventRemoved"}
BY EventsHas, NewEventHas, AboutEventHas

\* What is said, exactly, of the events and of the markets of one that stays.
LEMMA RemovedEvent ==
  ASSUME NEW before, NEW after, NEW e
  PROVE  AboutEvent("EventRemoved", e) \in Said(before, after) <=>
           e \in DOMAIN before \ DOMAIN after
<1> DEFINE c == AboutEvent("EventRemoved", e)
<1>1. c.type = "EventRemoved" /\ c.event = e
  BY AboutEventHas
<1>2. ASSUME e \in DOMAIN before \ DOMAIN after PROVE c \in Said(before, after)
  BY <1>2, ChangesHas, EventsHas
<1>3. ASSUME c \in Said(before, after) PROVE e \in DOMAIN before \ DOMAIN after
  <2> HIDE DEF c
  <2>1. c \in EventsSaid(before, after)
    BY <1>1, <1>3, ChangesHas, WithinIsAbout
  <2>2. PICK f \in DOMAIN before \ DOMAIN after : c = AboutEvent("EventRemoved", f)
    BY <1>1, <2>1, EventsHas, NewEventHas
  <2> QED
    BY <1>1, <2>2, AboutEventHas
<1> QED
  BY <1>2, <1>3

LEMMA AddedEvents ==
  ASSUME NEW before, NEW after, NEW c
  PROVE  c \in OfType(Said(before, after), "EventAdded") <=>
           \E e \in DOMAIN after \ DOMAIN before : c = NewEvent(e, after)
<1>1. ASSUME NEW e \in DOMAIN after \ DOMAIN before, c = NewEvent(e, after)
      PROVE  c \in OfType(Said(before, after), "EventAdded")
  <2>1. c \in Said(before, after)
    BY <1>1, ChangesHas, EventsHas
  <2>2. c.type = "EventAdded"
    BY <1>1, NewEventHas
  <2> QED
    BY <2>1, <2>2 DEF OfType
<1>2. ASSUME c \in OfType(Said(before, after), "EventAdded")
      PROVE  \E e \in DOMAIN after \ DOMAIN before : c = NewEvent(e, after)
  <2>1. c \in Said(before, after) /\ c.type = "EventAdded"
    BY <1>2 DEF OfType
  <2>2. c \in EventsSaid(before, after)
    BY <2>1, ChangesHas, WithinIsAbout
  <2> QED
    BY <2>1, <2>2, EventsHas, AboutEventHas
<1> QED
  BY <1>1, <1>2

\* Of an event that stays, only what is within it is said.
LEMMA SaidWithin ==
  ASSUME NEW before, NEW after, NEW e \in DOMAIN after, NEW c,
         c.event = e, c.type \notin {"EventAdded", "EventRemoved"}
  PROVE  c \in Said(before, after) <=> c \in Within(before, after, e)
BY ChangesHas, WithinIsAbout, EventsAre

LEMMA RemovedMarket ==
  ASSUME NEW before, NEW after, NEW e \in DOMAIN before \intersect DOMAIN after, NEW m
  PROVE  AboutMarket("MarketRemoved", e, m) \in Said(before, after) <=>
           m \in DOMAIN before[e] \ DOMAIN after[e]
<1> DEFINE c == AboutMarket("MarketRemoved", e, m)
<1>1. c.type = "MarketRemoved" /\ c.event = e /\ c.market = m
  BY AboutMarketHas
<1>2. Held(before, e) = before[e]
  BY DEF Held
<1>3. ASSUME m \in DOMAIN before[e] \ DOMAIN after[e] PROVE c \in Within(before, after, e)
  BY <1>2, <1>3, CoverageHas DEF Within
<1> HIDE DEF c
<1>4. ASSUME c \in Within(before, after, e) PROVE m \in DOMAIN before[e] \ DOMAIN after[e]
  BY <1>1, <1>2, <1>4, WithinHas, AboutMarketHas, NewMarketHas, NewOddsHas
<1>5. c \in Said(before, after) <=> c \in Within(before, after, e)
  BY <1>1, SaidWithin
<1> QED
  BY <1>3, <1>4, <1>5 DEF c

LEMMA AddedMarkets ==
  ASSUME NEW before, NEW after, NEW e \in DOMAIN before \intersect DOMAIN after, NEW c
  PROVE  c \in OfType(Said(before, after), "MarketAdded") /\ c.event = e <=>
           \E m \in DOMAIN after[e] \ DOMAIN before[e] : c = NewMarket(e, m, after[e])
<1>1. Held(before, e) = before[e]
  BY DEF Held
<1>2. ASSUME NEW m \in DOMAIN after[e] \ DOMAIN before[e], c = NewMarket(e, m, after[e])
      PROVE  c \in OfType(Said(before, after), "MarketAdded") /\ c.event = e
  <2>1. c \in Within(before, after, e)
    BY <1>1, <1>2, CoverageHas DEF Within
  <2> QED
    BY <1>2, <2>1, NewMarketHas, ChangesHas DEF OfType
<1>3. ASSUME c \in OfType(Said(before, after), "MarketAdded"), c.event = e
      PROVE  \E m \in DOMAIN after[e] \ DOMAIN before[e] : c = NewMarket(e, m, after[e])
  <2>1. c \in Said(before, after) /\ c.type = "MarketAdded"
    BY <1>3 DEF OfType
  <2>2. c \in Within(before, after, e)
    BY <1>3, <2>1, SaidWithin
  <2> QED
    BY <1>1, <2>1, <2>2, WithinHas, AboutMarketHas, NewOddsHas
<1> QED
  BY <1>2, <1>3

LEMMA TurnedMarket ==
  ASSUME NEW before, NEW after, NEW e \in DOMAIN before \intersect DOMAIN after,
         NEW m \in DOMAIN before[e] \intersect DOMAIN after[e]
  PROVE  /\ AboutMarket("MarketSuspended", e, m) \in Said(before, after) <=>
              before[e][m].suspended = "no" /\ after[e][m].suspended = "yes"
         /\ AboutMarket("MarketReopened", e, m) \in Said(before, after) <=>
              before[e][m].suspended = "yes" /\ after[e][m].suspended = "no"
<1>0. Held(before, e) = before[e]
  BY DEF Held
<1>1. ASSUME NEW type \in {"MarketSuspended", "MarketReopened"}
      PROVE  AboutMarket(type, e, m) \in Said(before, after) <=>
               AboutMarket(type, e, m) \in Within(before, after, e)
  BY SaidWithin, AboutMarketHas
<1>2. ASSUME before[e][m].suspended = "no", after[e][m].suspended = "yes"
      PROVE  AboutMarket("MarketSuspended", e, m) \in Within(before, after, e)
  BY <1>0, <1>2, SuspensionHas DEF Within
<1>3. ASSUME before[e][m].suspended = "yes", after[e][m].suspended = "no"
      PROVE  AboutMarket("MarketReopened", e, m) \in Within(before, after, e)
  BY <1>0, <1>3, SuspensionHas DEF Within
<1>4. ASSUME NEW c \in Within(before, after, e), c.type = "MarketSuspended", c.market = m
      PROVE  before[e][m].suspended = "no" /\ after[e][m].suspended = "yes"
  BY <1>0, <1>4, WithinHas, AboutMarketHas, NewMarketHas, NewOddsHas
<1>5. ASSUME NEW c \in Within(before, after, e), c.type = "MarketReopened", c.market = m
      PROVE  before[e][m].suspended = "yes" /\ after[e][m].suspended = "no"
  BY <1>0, <1>5, WithinHas, AboutMarketHas, NewMarketHas, NewOddsHas
<1> QED
  BY <1>1, <1>2, <1>3, <1>4, <1>5, AboutMarketHas

LEMMA Requoted ==
  ASSUME NEW before, NEW after, NEW e \in DOMAIN before \intersect DOMAIN after,
         NEW m \in DOMAIN before[e] \intersect DOMAIN after[e], NEW s, NEW c
  PROVE  /\ c \in OfType(Said(before, after), "OddsChanged")
         /\ c.event = e /\ c.market = m /\ c.selection = s
         <=> /\ s \in Moved(before[e][m].odds, after[e][m].odds)
             /\ c = NewOdds(e, m, s, after[e])
<1>1. Held(before, e) = before[e]
  BY DEF Held
<1>2. ASSUME s \in Moved(before[e][m].odds, after[e][m].odds), c = NewOdds(e, m, s, after[e])
      PROVE  /\ c \in OfType(Said(before, after), "OddsChanged")
             /\ c.event = e /\ c.market = m /\ c.selection = s
  <2>1. c \in Within(before, after, e)
    BY <1>1, <1>2, OddsHas DEF Within
  <2> QED
    BY <1>2, <2>1, NewOddsHas, ChangesHas DEF OfType
<1>3. ASSUME c \in OfType(Said(before, after), "OddsChanged"),
             c.event = e, c.market = m, c.selection = s
      PROVE  /\ s \in Moved(before[e][m].odds, after[e][m].odds)
             /\ c = NewOdds(e, m, s, after[e])
  <2>1. c \in Said(before, after) /\ c.type = "OddsChanged"
    BY <1>3 DEF OfType
  <2>2. c \in Within(before, after, e)
    BY <1>3, <2>1, SaidWithin
  <2>3. PICK n \in DOMAIN before[e] \intersect DOMAIN after[e] :
          \E t \in Moved(before[e][n].odds, after[e][n].odds) : c = NewOdds(e, n, t, after[e])
    BY <1>1, <2>1, <2>2, WithinHas, AboutMarketHas, NewMarketHas
  <2> QED
    BY <1>3, <2>3, NewOddsHas
<1> QED
  BY <1>2, <1>3

\* The changes applied to a market, to an event and to a batch.
LEMMA MarketReplayed ==
  ASSUME NEW before, NEW after, IsBatch(before), IsBatch(after), Told(before, after),
         NEW e \in DOMAIN before \intersect DOMAIN after,
         NEW m \in DOMAIN before[e] \intersect DOMAIN after[e]
  PROVE  ReplayedMarket(before[e][m], Said(before, after), e, m) = after[e][m]
<1> DEFINE changes == Said(before, after)
           old == before[e][m]
           new == after[e][m]
           quoted(s) == {c \in OfType(changes, "OddsChanged") :
                           c.event = e /\ c.market = m /\ c.selection = s}
           suspended == IF AboutMarket("MarketSuspended", e, m) \in changes THEN "yes"
                        ELSE IF AboutMarket("MarketReopened", e, m) \in changes THEN "no"
                        ELSE old.suspended
           odds == [s \in DOMAIN old.odds |->
                      IF quoted(s) = {} THEN old.odds[s]
                      ELSE (CHOOSE c \in quoted(s) : TRUE).odds]
<1>1. ReplayedMarket(old, changes, e, m) = [suspended |-> suspended, odds |-> odds]
  BY DEF ReplayedMarket
<1>2. /\ AboutMarket("MarketSuspended", e, m) \in changes <=>
           old.suspended = "no" /\ new.suspended = "yes"
      /\ AboutMarket("MarketReopened", e, m) \in changes <=>
           old.suspended = "yes" /\ new.suspended = "no"
  BY TurnedMarket
<1>3. /\ old.suspended \in {"yes", "no", "unknown"}
      /\ new.suspended \in {"yes", "no", "unknown"}
      /\ new = [suspended |-> new.suspended,
                odds |-> [s \in DOMAIN new.odds |-> new.odds[s]]]
  BY DEF IsBatch
<1>4. /\ old.suspended = new.suspended \/ "unknown" \notin {old.suspended, new.suspended}
      /\ DOMAIN old.odds = DOMAIN new.odds
  BY DEF Told
<1>5. ASSUME NEW s \in DOMAIN old.odds, NEW c
      PROVE  c \in quoted(s) <=> old.odds[s] # new.odds[s] /\ c = NewOdds(e, m, s, after[e])
  <2>1. s \in Moved(old.odds, new.odds) <=> old.odds[s] # new.odds[s]
    BY <1>4 DEF Moved
  <2>2. c \in quoted(s) <=> s \in Moved(old.odds, new.odds) /\ c = NewOdds(e, m, s, after[e])
    BY Requoted
  <2> QED
    BY <2>1, <2>2
<1>7. ASSUME NEW s \in DOMAIN old.odds
      PROVE  odds[s] = new.odds[s]
  <2>1. NewOdds(e, m, s, after[e]).odds = new.odds[s]
    BY NewOddsHas
  <2>2. odds[s] = IF quoted(s) = {} THEN old.odds[s] ELSE (CHOOSE c \in quoted(s) : TRUE).odds
    OBVIOUS
  <2>3. \A c : c \in quoted(s) <=> old.odds[s] # new.odds[s] /\ c = NewOdds(e, m, s, after[e])
    BY <1>5
  <2> HIDE DEF quoted, odds, old, new
  <2> QED
    BY <2>1, <2>2, <2>3
<1>8. odds = [s \in DOMAIN new.odds |-> new.odds[s]]
  <2>1. odds = [s \in DOMAIN old.odds |-> odds[s]]
    OBVIOUS
  <2> HIDE DEF odds, old, new
  <2> QED
    BY <1>4, <1>7, <2>1
<1>9. suspended = new.suspended
  <2> HIDE DEF changes, old, new
  <2> QED
    BY <1>2, <1>3, <1>4
<1> HIDE DEF odds, suspended, changes, old, new
<1>10. ReplayedMarket(old, changes, e, m) = new
  BY <1>1, <1>3, <1>8, <1>9
<1> QED
  BY <1>10 DEF changes, old, new

\* Likewise for the markets of an event that stays.
LEMMA EventReplayed ==
  ASSUME NEW before, NEW after, IsBatch(before), IsBatch(after), Told(before, after),
         NEW e \in DOMAIN before \intersect DOMAIN after
  PROVE  ReplayedEvent(before[e], Said(before, after), e) = after[e]
<1> DEFINE changes == Said(before, after)
           old == before[e]
           new == after[e]
           added == {c \in OfType(changes, "MarketAdded") : c.event = e}
           kept == {m \in DOMAIN old : AboutMarket("MarketRemoved", e, m) \notin changes}
           result == [m \in kept \union {c.market : c \in added} |->
                        IF m \in kept THEN ReplayedMarket(old[m], changes, e, m)
                        ELSE (CHOOSE c \in added : c.market = m).content]
<1>1. ReplayedEvent(old, changes, e) = result
  BY DEF ReplayedEvent
<1>2. kept = DOMAIN old \intersect DOMAIN new
  BY RemovedMarket
<1>3. \A c : c \in added <=> \E m \in DOMAIN new \ DOMAIN old : c = NewMarket(e, m, new)
  BY AddedMarkets
<1>4. new = [m \in DOMAIN new |-> new[m]]
  BY DEF IsBatch
<1>5. \A m \in kept : ReplayedMarket(old[m], changes, e, m) = new[m]
  BY <1>2, MarketReplayed
<1> HIDE DEF changes, old, new, added, kept
<1>6. {c.market : c \in added} = DOMAIN new \ DOMAIN old
  BY <1>3, NewMarketHas
<1>7. ASSUME NEW m \in DOMAIN new \ DOMAIN old
      PROVE  (CHOOSE c \in added : c.market = m).content = new[m]
  <2>1. NewMarket(e, m, new) \in added /\ NewMarket(e, m, new).market = m
    BY <1>3, NewMarketHas
  <2>2. \A c \in added : c.market = m => c.content = new[m]
    BY <1>3, NewMarketHas
  <2> QED
    BY <2>1, <2>2
<1>8. DOMAIN result = DOMAIN new
  BY <1>2, <1>6
<1>9. ASSUME NEW m \in DOMAIN new PROVE result[m] = new[m]
  <2>1. CASE m \in kept
    BY <1>5, <1>8, <2>1
  <2>2. CASE m \notin kept
    <3>1. m \in DOMAIN new \ DOMAIN old
      BY <1>2, <2>2
    <3>2. result[m] = (CHOOSE c \in added : c.market = m).content
      BY <1>8, <2>2
    <3> QED
      BY <1>7, <3>1, <3>2
  <2> QED
    BY <2>1, <2>2
<1>10. result = [m \in DOMAIN result |-> result[m]]
  OBVIOUS
<1> HIDE DEF result
<1>11. result = new
  BY <1>4, <1>8, <1>9, <1>10
<1> QED
  BY <1>1, <1>11 DEF old, new, changes

\* marketChanges() loses nothing: applied to the batch before, the changes give the later one.
LEMMA BatchReplayed ==
  ASSUME NEW before, NEW after, IsBatch(before), IsBatch(after), Told(before, after)
  PROVE  Replayed(before, Said(before, after)) = after
<1> DEFINE changes == Said(before, after)
           added == OfType(changes, "EventAdded")
           kept == {e \in DOMAIN before : AboutEvent("EventRemoved", e) \notin changes}
           result == [e \in kept \union {c.event : c \in added} |->
                        IF e \in kept THEN ReplayedEvent(before[e], changes, e)
                        ELSE (CHOOSE c \in added : c.event = e).markets]
<1>1. Replayed(before, changes) = result
  BY DEF Replayed
<1>2. kept = DOMAIN before \intersect DOMAIN after
  BY RemovedEvent
<1>3. \A c : c \in added <=> \E e \in DOMAIN after \ DOMAIN before : c = NewEvent(e, after)
  BY AddedEvents
<1>4. after = [e \in DOMAIN after |-> after[e]]
  BY DEF IsBatch
<1>5. \A e \in kept : ReplayedEvent(before[e], changes, e) = after[e]
  BY <1>2, EventReplayed
<1> HIDE DEF changes, added, kept
<1>6. {c.event : c \in added} = DOMAIN after \ DOMAIN before
  BY <1>3, NewEventHas
<1>7. ASSUME NEW e \in DOMAIN after \ DOMAIN before
      PROVE  (CHOOSE c \in added : c.event = e).markets = after[e]
  <2>1. NewEvent(e, after) \in added /\ NewEvent(e, after).event = e
    BY <1>3, NewEventHas
  <2>2. \A c \in added : c.event = e => c.markets = after[e]
    BY <1>3, NewEventHas
  <2> QED
    BY <2>1, <2>2
<1>8. DOMAIN result = DOMAIN after
  BY <1>2, <1>6
<1>9. ASSUME NEW e \in DOMAIN after PROVE result[e] = after[e]
  <2>1. CASE e \in kept
    BY <1>5, <1>8, <2>1
  <2>2. CASE e \notin kept
    <3>1. e \in DOMAIN after \ DOMAIN before
      BY <1>2, <2>2
    <3>2. result[e] = (CHOOSE c \in added : c.event = e).markets
      BY <1>8, <2>2
    <3> QED
      BY <1>7, <3>1, <3>2
  <2> QED
    BY <2>1, <2>2
<1>10. result = [e \in DOMAIN result |-> result[e]]
  OBVIOUS
<1> HIDE DEF result
<1>11. result = after
  BY <1>4, <1>8, <1>9, <1>10
<1> QED
  BY <1>1, <1>11 DEF changes

-----------------------------------------------------------------------------
BatchInv == "batch" \in DOMAIN stored /\ IsBatch(stored.batch)

\* The database holds a batch from the start.
LEMMA BatchInit ==
  ASSUME LiveInit
  PROVE  BatchInv
<1>1. IsBatch(First.batch)
  BY MonitorLiveAssumption
<1>2. "batch" \in DOMAIN stored /\ stored.batch = First.batch
  BY DEF LiveInit
<1> QED
  BY <1>1, <1>2 DEF BatchInv

\* Only publications and expiries write the database, and they keep a batch.
LEMMA BatchStep ==
  ASSUME BatchInv, [LiveNext]_liveVars
  PROVE  BatchInv'
<1>1. ASSUME NEW p \in Publication, Commit(p) PROVE BatchInv'
  <2>1. IsBatch(p.batch)
    BY MonitorLiveAssumption
  <2>2. "batch" \in DOMAIN stored' /\ stored'.batch = p.batch
    BY <1>1 DEF Commit
  <2>3. IsBatch(stored'.batch)
    BY <2>1, <2>2
  <2> QED
    BY <2>2, <2>3 DEF BatchInv
<1>2. ASSUME NEW e \in Event, Expire(e) PROVE BatchInv'
  <2>1. "batch" \in DOMAIN stored' /\ stored'.batch = stored.batch
    BY <1>2 DEF Expire, BatchInv
  <2>2. IsBatch(stored'.batch)
    BY <2>1 DEF BatchInv
  <2> QED
    BY <2>1, <2>2 DEF BatchInv
<1>3. CASE stored' = stored
  <2>1. IsBatch(stored'.batch) /\ "batch" \in DOMAIN stored'
    BY <1>3 DEF BatchInv
  <2> QED
    BY <2>1 DEF BatchInv
<1>4. \/ \E p \in Publication : Commit(p)
      \/ \E e \in Event : Expire(e)
      \/ stored' = stored
  BY DEF LiveNext, liveVars, Notify, Refresh, ReadMatches, ReadIssues, Look,
     ReadProviders, ReadMarkets, Heartbeat, Start, Connect, Receive, Bump, Serve,
     Deliver, Fault, ReloadFails, RefreshFails, ServeFails, Drop, Stop, Refused,
     User, Back, OpenDrawer, Open, Turn
<1> QED
  BY <1>1, <1>2, <1>3, <1>4

\* market-journal.ts: the changes of a publication, applied to the batch before it, give
\* its batch, whatever is added, dropped, suspended, reopened and repriced at once.
THEOREM ChangesAreComplete == LiveSpec => ChangesTellTheDifference
<1>1. ASSUME BatchInv, NEW p \in Publication, Told(stored.batch, p.batch)
      PROVE  Replayed(stored.batch, MarketChanges(stored.batch, p.batch, TRUE)) = p.batch
  <2>1. IsBatch(stored.batch) /\ IsBatch(p.batch)
    BY <1>1, MonitorLiveAssumption DEF BatchInv
  <2>2. Replayed(stored.batch, Said(stored.batch, p.batch)) = p.batch
    BY <1>1, <2>1, BatchReplayed
  <2> QED
    BY <2>2, Zenon DEF Said
<1>2. BatchInv /\ [LiveNext]_liveVars =>
        [\A p \in Publication :
           Commit(p) /\ Told(stored.batch, p.batch) =>
             Replayed(stored.batch, MarketChanges(stored.batch, p.batch, TRUE))
               = p.batch]_liveVars
  BY <1>1
<1>3. BatchInv /\ [LiveNext]_liveVars => BatchInv'
  BY BatchStep
<1>4. LiveInit => BatchInv
  BY BatchInit
<1>5. LiveSpec => LiveInit /\ [][LiveNext]_liveVars
  BY DEF LiveSpec
<1> QED
  BY <1>2, <1>3, <1>4, <1>5, PTL DEF ChangesTellTheDifference
=============================================================================
