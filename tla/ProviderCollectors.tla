-------------------------- MODULE ProviderCollectors --------------------------
(***************************************************************************)
(* ProviderCollectors                                                      *)
(*   .../modules/{bet365,betano,superbet,blaze,estrelabet}                 *)
(*                                                                         *)
(* The five providers do the same thing in five ways.  A collector turns   *)
(* a request into a series of awaits, and a store turns a capture into     *)
(* another; this module writes each as the sequence of its steps, which    *)
(* ProviderCollection interprets.  A step names what it does and the keys  *)
(* it does it for, a key being an esport (its listing) or an event (its    *)
(* detail).                                                                *)
(*                                                                         *)
(*   enabled    the provider's switch is read by its collector             *)
(*   need       a detail looks for the context its listing left            *)
(*   open       a current tab is kept, any other is closed and replaced    *)
(*   capture    one answer of the bookmaker, with the time it was taken;   *)
(*              without keys, a page on the way to one                     *)
(*   round      what was captured is checked as one round                  *)
(*   push       the publication is deferred (publishCapture)               *)
(*   remember   the collector keeps the context for details                *)
(*   outbox, journal, file, memory                                         *)
(*              the store's writes: the agent's outbox, the market         *)
(*              journal, the state file, the maps that are read            *)
(***************************************************************************)
EXTENDS Naturals, Sequences, SequencesExt

CONSTANTS
  Esport, Event,
  EsportOf     \* the esport of each event

ASSUME CatalogAssumption ==
  EsportOf \in [Event -> Esport] /\ Esport \cap Event = {}

Provider == {"bet365", "betano", "superbet", "blaze", "estrelabet"}
Chrome == {"bet365", "betano"}
Key == Esport \cup Event

Step(do, keys) == [do |-> do, keys |-> keys]

\* A request to a service: its store is restored first, and what the collector
\* deferred is committed last.
Requested(steps) ==
  <<Step("refresh", {})>> \o steps \o <<Step("commit", {})>>

Pages(n) == [i \in 1..n |-> Step("capture", {})]
Each(do, es) == [i \in 1..Len(es) |-> Step(do, {es[i]})]
ForEach(es, Steps(_)) == FlattenSeq([i \in 1..Len(es) |-> Steps(es[i])])

----------------------------------------------------------------------------
(* Chrome: one tab per provider, and the context a listing leaves in the   *)
(* collector.                                                              *)

Bet365Listing(es) ==
  <<Step("open", {})>> \o
  ForEach(es, LAMBDA e : <<Step("capture", {e}), Step("push", {e}),
                           Step("remember", {e})>>)

\* The main coupon, then the tabs it advertises; normalizeRound sees them all.
Bet365Detail(v, tabs) ==
  <<Step("need", {v}), Step("open", {})>> \o
  [i \in 1..tabs |-> Step("capture", {v})] \o
  <<Step("round", {v}), Step("push", {v})>>

Bet365Request(kind, es, v, n) ==
  Requested(IF kind = "list" THEN Bet365Listing(es) ELSE Bet365Detail(v, n))

\* The directory, then a region with the leagues it did not show at once.
BetanoListing(es, leagues) ==
  <<Step("open", {})>> \o Pages(1) \o
  ForEach(es, LAMBDA e : [i \in 1..leagues |-> Step("capture", {e})] \o
                         <<Step("round", {e}), Step("push", {e}),
                           Step("remember", {e})>>)

\* The listing's page is gone through again; it goes back when it has captured.
BetanoDetail(v) ==
  <<Step("need", {v})>> \o Pages(1) \o
  <<Step("capture", {v}), Step("push", {v})>> \o Pages(1)

BetanoRequest(kind, es, v, n) ==
  Requested(IF kind = "list" THEN BetanoListing(es, n) ELSE BetanoDetail(v))

----------------------------------------------------------------------------
(* Plain HTTP.                                                             *)

SuperbetGet(keys) == <<Step("capture", keys)>>

\* Every esport is captured before any is published, and the structure is
\* kept last.
SuperbetListing(es) ==
  SuperbetGet({}) \o Each("capture", es) \o Each("push", es) \o
  <<Step("remember", ToSet(es))>>

SuperbetDetail(v, known) ==
  (IF known THEN <<>> ELSE SuperbetGet({})) \o
  SuperbetGet({v}) \o <<Step("push", {v})>>

SuperbetRequest(kind, es, v, known) ==
  Requested(IF kind = "list" THEN SuperbetListing(es)
                             ELSE SuperbetDetail(v, known))

\* Page after page of one snapshot, dated when the last has come.
EstrelaBetSnapshot(keys, pages) == Pages(pages - 1) \o <<Step("capture", keys)>>

EstrelaBetListing(es, pages) ==
  <<Step("enabled", {})>> \o EstrelaBetSnapshot(ToSet(es), pages) \o
  Each("push", es)

EstrelaBetDetail(v) ==
  <<Step("enabled", {})>> \o EstrelaBetSnapshot({v}, 1) \o
  <<Step("push", {v})>>

EstrelaBetRequest(kind, es, v, n) ==
  Requested(IF kind = "list" THEN EstrelaBetListing(es, n)
                             ELSE EstrelaBetDetail(v))

\* The manifest, a shard for each version it lists and the descriptions.
BlazeSnapshot(keys, shards) ==
  Pages(1) \o Pages(shards - 1) \o <<Step("capture", keys)>>

BlazeListing(es, shards) ==
  <<Step("enabled", {})>> \o BlazeSnapshot(ToSet(es), shards) \o
  Each("push", es)

\* The details are in the same snapshot: there is no request for one event.
BlazeDetail(v, shards) ==
  <<Step("enabled", {})>> \o BlazeSnapshot({v}, shards) \o
  <<Step("push", {v})>>

BlazeRequest(kind, es, v, n) ==
  Requested(IF kind = "list" THEN BlazeListing(es, n) ELSE BlazeDetail(v, n))

----------------------------------------------------------------------------
(* The stores: what ingest does with a capture it accepts.  `remote' is    *)
(* the agent's persistence, which has an outbox and no files.              *)

Writes(order, k) == [i \in 1..Len(order) |-> Step(order[i], {k})]

\* The outbox takes the file's place, ahead of everything else.
Usual(remote, k) ==
  Writes(IF remote THEN <<"outbox", "journal", "memory">>
                   ELSE <<"journal", "file", "memory">>, k)

\* The listing's own journal is written with its file.
Bet365ListIngest(remote, k) ==
  Writes(IF remote THEN <<"outbox", "memory">>
                   ELSE <<"journal", "file", "memory">>, k)

Bet365DetailIngest(remote, k) == Usual(remote, k)

BetanoIngest(remote, k) ==
  Writes(IF remote THEN <<"outbox", "journal", "memory">>
                   ELSE <<"journal", "memory", "file">>, k)

SuperbetIngest_JournalLast(remote, k) ==
  Writes(IF remote THEN <<"outbox", "memory", "journal">>
                   ELSE <<"file", "memory", "journal">>, k)

SuperbetIngest(remote, k) == Usual(remote, k)
BlazeIngest(remote, k) == Usual(remote, k)
EstrelaBetIngest(remote, k) == Usual(remote, k)
=============================================================================
