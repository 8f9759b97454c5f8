# NexusBet: specifications, model checking and proofs

NexusBet collects eSports betting odds from five bookmakers (bet365, Betano, Superbet,
Blaze, EstrelaBet), keeps their history and compares them. This directory holds TLA+
specifications of its concurrent and durable parts, the TLC configurations that check them
on small instances, and TLAPS proofs of their main invariants for every instance.

Paths below are relative to the repository. `service` is `apps/odds-service/src`,
`extension` is `apps/odds-collector-extension/src`, `monitor` is `apps/odds-monitor/src`.

1. [The system](#1-the-system)
2. [Inventory of components](#2-inventory-of-components)
3. [Modules, and how they correspond to the code](#3-modules-and-how-they-correspond-to-the-code)
4. [Runs: questions, bounds, fairness](#4-runs-questions-bounds-fairness)
5. [Findings](#5-findings)
6. [Proofs](#6-proofs)
7. [What is only model-checked, what is not modelled](#7-what-is-only-model-checked-what-is-not-modelled)
8. [Plan](#8-plan)
9. [Running it](#9-running-it)

## 1. The system

    bookmaker page / API
            |  HTTP, browser tab
            v
    provider client -> collector -> store --commit()--> agent outbox (files)
            ^                                                 |
            |  one job per provider                           | HTTP POST, retried
     collection agenda                                        v
     (AdaptiveScheduler)                   server: publication transaction (PostgreSQL)
                                                              |   ^
    extension worker -> IndexedDB outbox ----HTTP POST--------+---+
                                                              v
                       received catalog (in-memory projection), matching
                                                              |
                          monitor UI <---- SSE notices, HTTP reads

The same service code runs in three compositions: an all-in-one process, a *server* without
browser, and a *collector agent* without database. The agent has the agenda and the provider
code, and an outbox directory as its persistence; the server takes publications by HTTP and
serves the monitor. The Chrome extension is a second, independent source of publications.

Concurrency is that of Node: one thread, interleaved at every `await`; plus several processes
(agent, server, PostgreSQL, the extension's worker), any of which may end at any moment.
Every model below takes one step per code section between two awaits, and interleaves them
freely.

## 2. Inventory of components

For each: the state it keeps, its operations, whom it interacts with, what is hard, and what
makes it correct. **M** is modelled, **P** partly modelled, **-** not modelled.

### Collection (agent side)

| | Component | State | Operations | Hard | Correct when |
|-|-----------|-------|------------|------|--------------|
| M | Collection agenda: `service/modules/collection/adaptive-scheduler.ts`, `scheduled-operation.ts`, `scheduling-policy.ts` | one attempt record per list and per event, job table with abort signals, slot counter, context flag, failure count and cooldown per provider | start, tick, launch (success, failure, started event), timeout, restoreCatalog / reconcile, stop | timeout racing the commit point, shutdown racing both, backoff and recalculation writing the same field, failures of several tasks adding up, cleanup outliving the result | one job per provider; committed work is never aborted; details only after a discovery; the circuit breaker and backoffs hold; an eligible event is never forgotten; stop drains |
| M | Commit section: `ingestion-commit.service.ts` | generation and promise tail per provider | begin, commit, finish | chains of promises over aborted, failing and superseded runs; finish of an old run after a newer begin | one publisher per provider, in begin order; everybody settles; no leak |
| P | Collection service: `collection.service.ts`, `scheduler.service.ts`, `provider-registry.ts`, the cycle's command line | active lock, loops, enabled providers | execute, providerRuntime, restoreCatalog, directOperation, collectCycle, runLoop, close | scheduled jobs, direct cycles and polling loops share one lock; a cycle's cleanup, its loop's timer and shutdown wait on one another; a capture outlives its operation | a late capture is nowhere; shutdown ends |
| P | Provider services and collectors: `bet365`, `betano`, `superbet`, `blaze`, `estrelabet` | listing context, catalog, tab | prepare, collectEvents, collectEventDetails, closeCollection | a context or tab lost between list and detail, seen at different moments by collector, operation and agenda | details are collected against the listing they came from; a lost tab is not driven |
| M | Provider stores: `*/persistence/*.store.ts`, `detail-round.ts`, `listing-round.ts` | catalog, details, rounds | load, ingest: journal, file and maps, each provider in its own order | a crash between two of them; rounds that complete over several captures | what was acknowledged is restored; state never runs ahead of its journal |
| P | Market journal: `snapshots/market-journal.ts` | last state and batches per journal scope | ingest, append (steps of the stores), marketChanges | suspension, removal and price in one batch | applying the changes to the old batch yields the new one |
| P | Shared browser: `service/shared/browser/local-cdp.service.ts`, `cdp-lease.ts`, `cdp-connection.ts`, `chrome-tab.ts`; the CDP feeds | one borrowed Chrome, its connection's lease count, a tab per provider | warmup, runExclusive, openFeed, navigate, lose, close | leases taken while the connection opens, fails or closes; aborted work that goes on in a tab | the connection closes with its last user; late work touches no later tab; no tab is left |
| M | Agent outbox: `runtime/remote-persistence.ts` | directory of pending publications, rest, stop | commit, tick (deliver), retention, stop, restart | the post timing out while its transaction runs; a crash between answer and unlink; a full directory | order kept, nothing lost but by retention, nothing twice |
| - | Parsers, page scripts, browser command lines | none of their own, or a page's | HTTP, translation, page scripting | payload drift | what the captured fixtures say |

### Server

| | Component | State | Operations | Hard | Correct when |
|-|-----------|-------|------------|------|--------------|
| P | Server ingestion: `runtime/server-ingestion.ts`, `server-collection-state.ts` | heartbeats per agent | POST publication (M), POST heartbeat (-) | repeats, orphans, two writers | the answer says what is stored |
| P | Persistence: `persistence/persistence.service.ts`, `repositories/catalog.repository.ts` (M); `issues.repository.ts`, checkpoints, `operationFailed` (-) | receipts, publications, feed scopes, event rows, journal | the publication transaction | idempotence by run and by observation, stale publications, two feed scopes with one journal scope, removal from lists | history ordered, never rewound; one content per run |
| M | Received catalog: `runtime/received-catalog.ts`, `server-providers.module.ts` | projection, tail of reloads | onModuleInit, refresh / reload | three queries with awaits between, reloads failing | answered or announced implies shown; never back in time |
| P | Matching: `matching/matching.ts`, `team-aliases.ts`; reconciliation: `repositories/matching.repository.ts` | groups; canonical identities in the database | group, reconcile | ambiguous pairs, lists in no order, names learned on the way, identities kept while groups change, decisions taken by hand | cliques with at most one event of a provider; one identity per group |
| P | Monitor service: `monitor.service.ts`, `market-analytics.ts`, `data-health.ts`, `repositories/monitor.repository.ts` | none (reads) | events, detail, overview: a few queries each, with awaits between them | prices of different moments compared as one offer; medians of few books | what is compared was on offer; value bets are the exception; good health means current data |
| M | Monitor events: `monitor-events.service.ts` | last state, job queue, clients, timers | enqueue, refresh, stream, heartbeat, resync | a refresh that fails, a notice lost, reconnection around a notice | every change told is one made; every open view becomes current |
| - | Read models, legacy import, memory diagnostics, health, configuration, schema, wire validation | none or read only | - | - | - |

### Extension and monitor

| | Component | State | Operations | Hard | Correct when |
|-|-----------|-------|------------|------|--------------|
| P | Extension worker: `extension/background.ts` | `ticking`, `previewing`, stored switch and schedule | alarm tick, preview, set-enabled, end of the worker | checks separated from flags by awaits; the worker ended anywhere | a preview keeps nothing; a disable that was answered is quiet |
| M | Extension outbox and publisher: `outbox.ts`, `publisher.ts` | IndexedDB queue, the flush promise, the preview flag | queue, flush | a rejected flush shared by its callers; a post stored but not answered | nothing queued is lost; what is pending is stored in the end |
| - | Owned tab, extension providers | a tab | capture | page scripting | - |
| P | Monitor web client: `monitor/src/App.tsx`, `lib/api/use-resource.ts`, `lib/sse/monitor-stream.ts` | data, in-flight request, stream, gathered invalidations | load, reconnect, invalidate, select | answers out of order, an answer to what was open before | the page shows the event that is open, and in the end the newest state |
| P | Monitor proxy: `monitor/server.mjs` | none | GET, the stream | the service is away | it answers 502, which is modelled for the stream |
| - | Deployment scripts | none | - | - | - |

`PROJECT.json` lists the same components with every source file, and the hazards of the code
line by line with the properties that cover them.

## 3. Modules, and how they correspond to the code

| Module | Models | Uses |
|--------|--------|------|
| `CommitLock` | what the commit section promises: a lock per provider with ordered entries | |
| `IngestionCommit` | `ingestion-commit.service.ts`, with `execute()`'s use of `finish()` | refines `CommitLock` |
| `SchedulingPolicy` | `scheduling-policy.ts` (pure) | |
| `AdaptiveScheduler` | `adaptive-scheduler.ts` and `scheduled-operation.ts` | extends `SchedulingPolicy` |
| `ServerIngestion` | from a POST at the server to its answer: transaction, reload, notice | |
| `AgentOutbox` | `remote-persistence.ts` | |
| `Delivery` | what agent and server promise together | |
| `AgentDelivery` | `AgentOutbox` and `ServerIngestion` connected by HTTP | extends `AgentOutbox`, instantiates `ServerIngestion`, refines `Delivery` |
| `Matching` | `compareAllProviders()` and the group's canonical event and aliases, as operators | |
| `MatchReconcile` | `MatchingRepository.reconcile()` over successive publications | extends `Matching` |
| `ExtensionCollector` | `background.ts`, `publisher.ts`, `outbox.ts` of the extension | |
| `ProviderCollectors` | the five providers' collectors and stores, as sequences of steps | |
| `ProviderCollection` | `collection.service.ts`, `scheduled-operation.ts`: one provider of a collecting process, which interprets those steps | extends `ProviderCollectors` |
| `LocalCdp` | the borrowed Chrome: `local-cdp.service.ts`, leases, connection, tabs, feeds | |
| `MarketAnalytics` | `market-analytics.ts`, as operators on exact fractions | |
| `MonitorReads` | the monitor's GETs and `data-health.ts` | extends `MarketAnalytics` |
| `MarketJournal` | `marketChanges()`, as an operator | |
| `MonitorLive` | `monitor-events.service.ts` and the page that follows it | extends `MarketJournal` |
| `MC*` | instances for TLC | |
| `IngestionCommitProofs`, `AdaptiveSchedulerProofs`, `ServerIngestionProofs`, `AgentDeliveryProofs`, `ExtensionCollectorProofs`, `ProviderCollectionProofs`, `LocalCdpProofs`, `MonitorProofs` | theorems, and the lemmas they rest on (section 6) | each extends its component; `MonitorProofs` extends `MonitorReads`, `MonitorLive` and `MatchReconcile`, whose specifications are therefore `Spec`, `LiveSpec` and `MatchSpec` |

In every component module a definition named `<Operation>_<Bug>` is not code: it is the
operation with a plausible bug, kept beside it to show which property the bug would break.

**IngestionCommit.** `generations` and `tails` are the service's two maps; `previous[c]` is
what `commit()` read from `tails` before its first await; `resolved` are the tail promises
that settled. `Commit` is the synchronous prefix (lines 28-36), `Enter` / `Refuse` the checks
after `await previous`, `Publish`, `PublishFails`, `Complete` the loop and its `finally`,
`Resolve` the resolution of `previous.then(() => current)`. `Abort` may fire at any time.
Provider data are absent: a call has a number of items.

**AdaptiveScheduler.** Variables keep the code's names (`attempt`, `catalog`, `jobs`,
`consecutiveFailures`, `cooldownUntil`, `contextReady`, `activeJobs`, `stopping`). `Tick` is
the whole handler: recalculation of the agenda, expiry of cooldowns, the choice and launch of
at most one job per provider. A job goes through collection, `BeginCommit`, and a settlement;
a failed one first goes through the operation's `catch` (`OperationFails`, which may close the
collector and with it `contextOpen`) and only later through the scheduler's
(`SettleFailure`), as in the code. Instants are ticks of an abstract clock; what a page
returns, when and whether it fails are free choices. `MaxFailures` saturates the failure
counters above the last backoff step and the threshold, where the code no longer tells them
apart. `contextOpen` is the collector's side as the agenda can know it; what happens to the
tab behind it is in `ProviderCollection`.

**ServerIngestion.** A publication is a model value with a run, scope, time, hash and listed
events. One PostgreSQL transaction is one action, since `commit()` holds an advisory lock over
all of it; its body follows `commit()`'s checks in order (receipt, conflicting run, repeated
observation, stale, conflicting batch, write). `reported = FALSE` is a COMMIT whose outcome the
server never learns. The transaction's rows are `receipts` (`ingestion_runs`), `published`,
`scopes` (`feed_scopes`), `journal` (`odds_snapshots`), `rows` (`provider_events`).
`afterCommit` is `Refresh` (joins the promise tail), three `Read`s (`catalogEvents` and
`detailEvents` race, `baselines` follows) and `Reloaded`, which assigns the projection, emits
the notice and answers. Abstracted: markets and selections below an event, issues, checkpoints,
`operationFailed`, and `matching.reconcile`, which ends the transaction and neither reads nor
writes what the module has (`MatchReconcile` models it); the reloads of several providers are
reduced to the one of the publication (a failure of a later provider is the second branch of
`ReloadFails`).

**AgentOutbox, AgentDelivery.** `outbox` is the directory by file name. File names start
with `Date.now()`; the model takes the clock to advance from commit to commit, so the order
of names is the order of commits and retention drops a prefix. `commit()` and `tick()` share
one promise queue, hence `~ sending` in `Accept`. `Post` opens a request at the server;
`TimesOut` ends the agent's wait and leaves the request at work (30 s against 150 s in the
code). `InOrder`: a provider has one job at a time (`effectiveConcurrency` is 1, and jobs that
were given up wait for each other in the commit section), so the agent offers what it observed
of a scope in the order of observation, and a list before the details observed after it. It is
the single supported writer of a provider (`docs/MONITOR.md`). `DeliveryAssumption`: there is one
list scope for each esport (`*:list:<esport>`), and an event is of one esport
(`validate-publication.ts:14`), so two list scopes share no event.

**Matching, MatchReconcile.** An observation names a row, two teams, a start, a tournament
and whether it is before the game. Names are model values: `Reviewed` is the table of
reviewed aliases, `Similar` the relation that the abbreviation, inflection and one-letter
rules compute. `Group` follows the code's queue: each member of a growing group brings in
what it is eligible with, in the direction the code asks (`eligible(member, candidate)`), so
an asymmetry of `eligible` shows. `Reconcile` is the whole of `reconcile()`: it chooses the
order in which the database returns the lists, compares, and folds the groups over aliases
and canonical events while rows and decisions keep the values read at the start.
`canonicals` keeps team keys, to which the stored labels map back. Left out: the
`canonical-conflict` issues (opened, never resolved), tournament aliases (they repeat the
reviewed names), and confidence. `PublishDetail` is a publication of any detail: no list
changes, but the moment against which lists are fresh does. `Review` is external: a
`manual` status set in the database, which the code respects.

**ExtensionCollector.** Every handler is cut at its awaits. `Ask` / `Read` / `RunPreview` are
the three parts of a preview message: the busy check, the answer of `storage.get`, the
flags. `flushing` is the shared promise of `publisher.ts`: `Flush` joins or starts it,
`EndFlush` wakes everyone who awaits it. `queue()`'s flag check and its IndexedDB transaction
are one step (no await of ours between them can change the outcome the properties speak of).
A collection is a listing and at most one detail. When a provider is due (`dueAt`,
`failures`) is left out: a tick may collect any of them. Captures are distinct values, each
queued at most once; `Queue` is disabled when they are used up, which is the run's bound.

**ProviderCollectors, ProviderCollection.** The five providers do the same in five ways. A
collector is a sequence of named steps (`enabled`, `need`, `open`, `capture`, `round`,
`push`, `remember`), and so is a store (`outbox`, `journal`, `file`, `memory`, in that
provider's own order); each operator of `ProviderCollectors` gives the sequence of one
provider's operation. `ProviderCollection` interprets them: `OpStep` runs the next step of the
operation under way, which may succeed, fail, find its signal fired, or end for good.
`provider`, `mode` (agent, cycle, loop), `remote` and `enabled` are chosen in `Init` and never
change, so one run covers every composition. `Timeout` and `Stop` fire the signal, `DropTab`
is Chrome's, `Crash` and `Start` keep `disk` and `journal` only. `StartCycle`, `CycleDetail`,
`EndCycle` and `Exit` are the direct cycle and the loop around it. `late` collects what
aborted operations captured. Every listing is taken to hold its esport's events; the choice
of a main market is left out; `load()` is one step; the turn-taking between commits is
`IngestionCommit`'s subject, the choice of what to run `AdaptiveScheduler`'s.

**LocalCdp.** Two providers, each with its tab, its feed and at most one job. A job takes its
place (`runExclusive`), connects, opens or keeps its tab, attaches a feed, navigates and
releases; an abort ends it at once and leaves what it awaited among the `leftover`s, which go
on without it. Every command is answered, refused or times out; the connection may end with
Chrome or without it, which leaves orphan targets behind. One navigation stands for all of a
job's; what is captured, the `status` of `health()`, and the browser that this program would
launch itself (`browser-manager`, used by diagnostics only) are left out.

**MarketAnalytics, MonitorReads.** Odds are hundredths, probabilities and medians exact
fractions, where the code has floating-point numbers. The world is one game with two
alternative markets of one category, map, period and line, which every provider may publish
or withdraw. A GET collects one query's result after another in `got`; publications and the
clock go on meanwhile; the answer is computed at the last moment. No transaction holds them
together, and a `findMany` that selects relations is itself a query per relation, so the events
of a group are read in four steps: `rows`, `markets`, `selections` and `prices`
(`monitor.repository.ts:30-86`), with the latest batches beside them. Only `groups()` asks for one
snapshot (`:107`), and is one step. A price is a row of its own, written with its selection.
`overtaken` and `moments` are history, read by the properties only. The matching's confidence is a
constant, and `Significant` stands for the three incomplete events of `data-health.ts`.
Filters, paging, attention lists, raw and history views are left out.

**MarketJournal, MonitorLive.** A batch is a function from events to markets to observations;
`MarketChanges` is `marketChanges()`, and `Replayed` the reference it is checked against.
`MonitorLive` closes the loop from a publication's commit to what the page shows: `Notify` (or
`ReloadFails`, when the reload after the commit failed), `Refresh` (a job of the service's
queue, one read after another, then compare and emit), `Heartbeat`, the stream with `Connect`,
`Drop`, `Refused` and `Receive`, the page's 300 ms gathering (`Bump`), and each view's requests, of
which only the newest may still deliver. The first read of a refresh is two queries side by side
(`ReadMatches`, `ReadIssues`). `Stop` ends the service with its queue, its stream and the requests
at work; until `Start` the proxy answers 502 to everything. A GET then fails; the stream, if the
browser asks for it just then, is `closed`: an `EventSource` takes any answer but 200 as final, and
`monitor-stream.ts:72` makes one only. A selection's number stands for its odds with its line and
its market's. The manual sync is left out. A view is the data its GET returns at the moment it is
served. Messages are a set, since what one makes the page do depends on no order. No view reads
another's state, so a behaviour follows only some (`watched`).

## 4. Runs: questions, bounds, fairness

Every property of a passing run has a mutant in `PROJECT.json`: a plausible bug in a mapped
definition with which TLC finds the property violated in the same configuration.

### `ingestion_commit` (`IngestionCommit.cfg`)
One provider, three runs (two commit, one may only supersede), three calls, one with two
items. Three is the least with a call that waits behind a waiting call. Shows mutual
exclusion, reclaimed tails, writes in begin order, and the refinement of `CommitLock`, whose
liveness is `Settles`: a call that waits has its turn or is turned away, and a call inside
leaves, so after a failing publication the next call is let in (a tail resolved only on success is
the mutant). `TailsAreReclaimed` says only that nothing is left in the map. That only superseded or
aborted calls are refused is proved.
*Fairness*: weak, on each call's steps and promise reactions; publications run under pool
and statement timeouts. Beginning, aborting and finishing are not fair.
*Deadlock* is not checked: when all runs are over nothing is left to do.

### `adaptive_scheduler` (`AdaptiveScheduler.cfg`)
One provider, one event, seven ticks of two per hour, starts at 3 or 5: the event goes through
the 1-6 h band, the last hour and its start within the run; two failures reach the threshold
and the second backoff (3) outlasts the cooldown (2), so a probe must override it. Timeouts,
failures with and without transport error, removal and return, moved starts and stop at every
moment. `NothingRunsTooSoon` is three promises about one launch: the listing context is there,
the detail's backoff is over, the provider's cooldown is over. *Fairness*: weak, on the tick
timer, on stop(), on cleanup, on a committing job's end and on the end of an aborted one. A
running collection may hang until its signal fires, and the clock need not advance
(`CooldownEnds` says what follows if it does: once the clock is past a cooldown, a job of the
provider is launched, or the scheduler stops; and the launch that clears the cooldown is the list,
whatever the list's own backoff, which is the probe). *Deadlock* is off: the clock ends and a stopped
scheduler stays stopped.

### `scheduler_moved_start` (`AdaptiveSchedulerMovedStart.cfg`, violation)
See Findings.

### `server_ingestion` (`ServerIngestion.cfg`)
Two list scopes sharing a journal scope and a detail scope; `l1` then `l2` of the main list,
`t2` of the other list at the time of `l2`, a detail `d` between them, and `x` reusing the
run of `l1` with another content at the time of `l2`. Two requests at work, each publication
posted any number of times in any order, crashes and failures unbounded (the state is finite
without a fault bound). Two requests suffice for every race of a transaction with a reload
and of two reloads; the proofs lift the bound. *Fairness*: weak, on the handling of each
request (transactions and queries have timeouts) and on the restart.

### `agent_delivery` (`AgentDelivery.cfg`)
A list, the detail of an event on it, and a list without it, through an outbox of two, two
requests, at most two faults (failures, timeouts, process ends; `MaxFaults`) and one expired
file (`MaxExpired`). Two faults allow an orphaned request and a second failure while it is
at work; an outbox of two is full with three publications. Shows that the pair implements
`Delivery` (with `waiting` = the files not yet stored, `lost` = expired and not stored) and
that what is pending is stored once failures stop. The server refuses none of these for good:
a head of the outbox that it does refuse holds up the rest until retention, which no property
covers. *Fairness*: timers, answers, restarts and the server's handling; faults are never fair and are bounded, which is "once failures stop".
`ListedMatchesLatestList` speaks of runs without retention, and holds for one writer: it needs
lists and details to be committed in the order in which they were observed (section 6).

### `extension_collector` (`ExtensionCollector.cfg`)
Two providers, three captures, an outbox of two, one preview, one switch, one item per
flush round, two faults (failed posts, ended workers). Two providers make the flush shared;
one round per flush makes a flush end with items pending. There is one popup here:
`PreviewKeepsNothing` is what `extension_two_previews` refutes for two. *Fairness*: alarm, awaits that are
sure to return (storage, IndexedDB, posts with timeout), collections that end by their own
timeouts, a preview that runs. Messages of popups are not fair.

### `extension_two_previews` (`ExtensionTwoPreviews.cfg`, violation)
The same with two popups: see Findings.

### `match_reconcile` (`MatchReconcile.cfg`)
Three bookmakers, four rows of one game, three names of which two are similar. `b1` and `s1`
differ by a spelling and two minutes, `e1` swaps the teams in another tournament, `b2` is a
second event of `b` for the game. So groups of two and of three, a chain that is no clique,
two rows of one bookmaker, a mismatch of time, a name learned in one step and known in the
next, and identities that disagree all occur. A list is fresh at its own moment only
(`ListTTL = 0`, two moments, in any order), so that every set of lists is fresh at some time;
one decision by hand. `GroupsAreCliques` compares the code's grouping, for every order of
the lists, with sets that have none: no row is in two accepted groups and no two rows of one
bookmaker in the same one; each clique that is isolated (eligible with nothing else, asked
either way) and has no conflict is accepted; and where being eligible does not depend on who
is asked, as in these listings, nothing else is. `RecordsFollowMatch` compares rows, history
and issues with the groups after every publication.
No fairness and no liveness: a publication is one transaction.

### `provider_collection` (`ProviderCollection.cfg`)
Each of the five providers, in each mode it is used in, with files and with the outbox; two
esports and one event, so that a capture of several keys can be complete for one and not for
the other; four captures (`MaxNow`), a round of at most two pages, a freshness and a round
window of two. Four captures are two listings or a listing and its detail, twice: enough for a
state to be replaced, lost and restored. Crashes, timeouts, aborts and lost tabs at every
step, unbounded. Shows that what an operation returned survives a restart, that late captures
reach nothing that is read or kept, that no state is ahead of its journal, that the context
the agenda relies on is there, and that a lost tab is not driven; and that a stop ends.
*Fairness*: weak, on the steps of an operation (each await has a timeout of its own), of the
cycle, and on the exit of a stopped process. Starting, aborting and crashing are not fair.

### `local_cdp` (`LocalCdp.cfg`)
Two providers, three targets, two connections, three jobs and two faults, of which at most
four together (`MaxAll`): three jobs and a fault, or two and two. Two providers make the
connection shared; a second connection and a third target are needed for what is left of the
first ones to meet them. *Fairness*: each command is answered or times out (30 s, 120 s), so
jobs, leftovers, connecting and closing go on. *Deadlock* is off: when all is used up,
nothing is left to do.

### `monitor_reads` (`MonitorReads.cfg`)
Three providers (the least with a median that differs from both sides of a comparison), a
market with an alternative, three moments, two publications, data that expire after one
moment. Each price compared was offered by its provider, open and not expired when the answer is
made, and the two of a provider were one offer unless it published between the request's queries
for the markets and for the prices, which section 5 describes; where every book has a margin, at most half of a side's prices are
called value (exactly half, when their number is even and the median falls between two books:
three books do not show it, so the even case is the theorem's only); the health shown was true at
one moment of the request, though providers, groups, issues and links are read at four: critical
exactly if two providers or all were without data then, never healthy if one was stale or without,
degraded only for that or for incomplete listings. One incomplete listing counts here
(`Significant`), where the code has three: with three providers three could not happen in two
publications. Nothing is fair and nothing is live: requests only read. *Deadlock* is
off: the clock and the publications end.

### `monitor_live` (`MonitorLive.cfg`)
One provider, two events, two publications, one expiry, one fault, one broken stream or stopped
service, two clicks, of which two together (`Often`, `MaxAll`). A behaviour follows the overview,
the list, the issues, or the detail with its history (`Together`). *Fairness*: the service's queue
and timers; its restart (`railway.json`: ON_FAILURE, with no overlap, hence the time without a
service); the browser's reconnection, as long as the stream is not closed; delivery of messages and
of answers. Lost notices, failures, expiry, a refused stream and clicks are not fair.
`EveryViewBecomesCurrent` is the promise of the whole loop: what is open becomes what the server
has, unless a change was announced to nobody, or the stream was closed for good (section 5).
*Deadlock* is off: with its stream closed and no one clicking, the page does rest.

## 5. Findings

* **A moved start does not revive a detail that failed** (`scheduler_moved_start`,
  `adaptive-scheduler.ts:136`). `docs/COLLECTION.md:33` says a future change of `startsAt`
  allows a new evaluation of a stopped event. `reconcile` lifts `preGameStopped`, but
  `recalculate` gives a next run only to a detail with `failureCount = 0`. A detail that
  failed once, was then stopped because its event looked live (which clears `nextRunAt`
  and keeps the count), and whose start moves, is not collected again while it stays listed.
* **Two previews lower each other's flag** (`extension_two_previews`, `background.ts:283`).
  The busy check and the raising of the flags are separated by a storage read. Two popups
  (two windows) can both pass; the first to end lowers the flag for both and the other's
  captures are queued and posted, against `apps/odds-collector-extension/README.md:31`.

Observations, of which no run is kept:

* Matching. `aliasCandidate` (`matching.ts:47`) keeps `e.teamA` as the team that must be equal
  in both of its entries. So `(x, y)` of one bookmaker and `(x, yy)` of another are a group. Turn
  both around and they are none; turn one around and they are a group only if the list of the
  other is read first, since a group starts from the first event of the first list.
  `docs/MATCHING.md:38` says that the order of the teams is ignored.
* Reconciliation. A current canonical event is taken without the test of compatibility that a
  historical one must pass (`matching.repository.ts:113`, `docs/MATCHING.md:63`). Let `b1` and
  `s1` be one canonical event, and let the bookmaker of `b1` then list `b1` at a second game of
  the same teams and `b2` at the first: `b1` takes the group of the second game onto the
  canonical event, and `s1` the group of the first onto the same. A canonical event is one game
  by `docs/DATA_MODEL.md:9`, and here has two listed events of one bookmaker
  (`docs/MATCHING.md:40`).
* Reconciliation. Identities are compared before the names of the group are learned, so an event
  that meets a new spelling gets a second identity in that step (the exception in
  `IdentityIsKept`), and identities that disagree are reported on every publication and never
  resolved (`:121`).
* Borrowed Chrome. The cooldown is checked before an await and set after it
  (`local-cdp.service.ts:48`), so two providers may make two attempts within one cooldown; a
  cooldown that one provider starts also refuses the other's live tab; a target that ends
  between `Network.enable` and `getVersion` (`:64`) is noticed by its next command only.
* Monitor. A screen may compare prices that were never offered together. `members()` reads the
  events, markets, selections and prices with one `findMany` (`monitor.repository.ts:154`), which
  is a query per relation, and `provider()` keeps the selections not older than their market
  (`monitor.service.ts:159`). TLC, asked for one offer without exception, answers: provider 1
  offers 190 against 190 at moment 1; a request reads the group, the events and the markets (of
  moment 1); provider 1 publishes at moment 2 that the first side is at 240, and the other no more;
  the request reads selections and prices: 240 of moment 2 and 190 of moment 1 are both not older
  than the market it has, and are compared as a pair. A value bet or an arbitrage may come of it,
  until the next notice. `ComparedPricesWereOffered` therefore excepts providers that published
  just then (`overtaken`), and shows that nothing else does it.
* Page. A restart of the service may leave the page without its stream for good.
  `docs/MONITOR.md:121` promises automatic reconnection whose `ready` makes up for what was missed.
  TLC, asked for `EveryViewBecomesCurrent` without its exception for a closed stream, answers: the
  page loads; a publication commits; the service stops; the browser asks for the stream and the
  proxy answers 502 (`server.mjs:48`); the service starts. The EventSource is closed, nothing opens
  another (`monitor-stream.ts:72`), and the header says "reconnecting" (`App.tsx:155`) until
  the page is loaded again or synchronised by hand.
* Monitor. An event that went stale at all its providers leaves the list with time, which is
  announced to nobody; a stale provider leaves `expectedProviders`
  (`monitor.service.ts:89`); the legs of an arbitrage may be of one provider; data health does
  not look at whether the agenda is down; a detail's parts are of different moments.
* Monitor events. A GET that fails is repeated at the next notice only; a change before the
  service's first look at a provider, or whose notice was lost with a failing reload
  (`persistence.service.ts:252`), is announced to nobody until the next one. The module keeps
  these as `lost`, and `EveryViewBecomesCurrent` excepts them.

## 6. Proofs

All theorems hold for every value of the constants that satisfies the named assumption of
the module; providers, runs, calls, publications and requests may be infinite sets. In each
module TLC checked the invariant on the run's instance before it was proved.

**`IngestionCommitProofs`** proves `TypeOK`, `OnePublisherPerProvider`, `TailsAreReclaimed`,
`WritesFollowBeginOrder`, `OnlySupersededIsRefused`, and that the specification implements
the safety half of `CommitLock` (`ImplementsLock`). None of these is inductive. Calls are
numbered by arrival (a history variable), and

* `ArrivalInv`: numbers are unique and given on arrival;
* `TailInv`: the tail of a provider is its last call in flight, and is there iff there is one;
* `PreviousInv`: what a call waits for is at least as late as every unsettled earlier call;
* `ResolvedInv`: a resolved tail has only settled calls up to it;
* `TurnInv`: a publishing call has only settled calls ahead, which is mutual exclusion;
* `OrderInv`: the generation is the run that began last, or was forgotten by it; and a run
  not finished is the generation or superseded;
* `NewestInv`: written <= newest <= last begun, and a publishing call's run is the newest.

**`AdaptiveSchedulerProofs`** proves `TypeOK`, `CommittedIsNeverAborted`,
`UnfailedDetailIsScheduled` and the action property `NothingRunsTooSoon`, for any providers,
events, intervals, thresholds and backoff table and without a bound on the clock that matters.
`NothingRunsTooSoon` speaks of what a tick decides from records other handlers left, so each
of its three promises needs what those handlers owe one another:

* `JobInv`: a provider has at most one job, it is counted in `activeJobs`, and its task was
  launched and is listed;
* `SignalInv`: a committing job has no fired signal, and a shutdown signal means `stopping`;
* `ContextInv`: a provider marked ready has its listing context, unless shutdown began or the
  very job that lost it is still closing (and then holds the slot, so nothing is launched);
* `BackoffInv`: a failed detail's next run, if it has one, is past its failure and backoff;
* `CooldownInv`: a provider at its threshold is cooling down from its last failure, or `now`
  is past that cooldown;
* `AgendaInv`: an eligible detail with no failure on record has a next run, running or not.

`EndStep`, `ContextStep` and `FrameStep` hold what several actions share; `OnlyTickLaunches`
and `LaunchOwes` turn the invariant into the action property.

**`ServerIngestionProofs`** proves every safety property of `server_ingestion`: `TypeOK`,
`JournalInOrder`, `AnnouncedOnce`, `AcknowledgedIsShown`, `OneContentPerRun`,
`StoredAdvances`, `ShownAdvances`. The inductive invariant relates times along the path of a
publication, scope by scope: *shown <= read by the reload at the head of the queue <= stored*
(`ReadInv`), with a receipt never ahead of its scope and a history never ahead of the latest
scope that feeds it (`StoreInv`), a queue without repetitions whose head alone reads
(`QueueInv`), baselines read last (`LastInv`), a committed request's publication included in
what it reads (`CommittedInv`), answered or announced included in what is shown
(`ShownInv`), and a notice owed by at most one request (`NoticeInv`). The assumption that
scopes are finite in number is used once: the latest batch of a journal scope exists.

**`AgentDeliveryProofs`** proves that the agent and the server implement `Delivery`
(`ImplementsDelivery`), that the server in the pair makes only steps of `ServerIngestion`
(`ImplementsServer`, so the theorems above hold here), and `ListedMatchesLatestList`.

* `OutboxInv`: no file is there twice, none was dropped, and only the oldest may be stored
  already, by a post whose answer the agent did not get;
* `SendingInv`: a delivery's batch is the outbox, and what it posts is the oldest file;
* `RequestInv`: a request that is still `sent` carries no file behind the oldest, though the
  agent gave up waiting for it, or ended;
* `SlotInv`: the answer the agent waits for is about the file it posted.

So a transaction stores the oldest file that waits (`Store`), or one retention has given up
(`StoreLate`), or repeats. `WaitingRest` is the lemma about sequences in between: dropping files
from the outbox gives up a prefix of what waits. For the lists there are, besides: what is
offered later precedes nothing offered before (`ClosedInv`), so the outbox stands in the order of
observation (`OrderInv`) and the next file to be stored precedes nothing stored (`AheadInv`); and
a row was last seen by something stored (`SeenInv`). Hence `removed()`, which spares rows seen
after the list, spares none in such runs. Without the order of lists and details, or with an
event on two lists, both directions fail.

**`ExtensionCollectorProofs`** proves `NothingIsLost` for any number of popups, and
`QuietWhenDisabled` and `PreviewKeepsNothing` under the hypothesis `OnePopup`, which says that no
two popups ask for previews; the run has one popup as well, and `extension_two_previews` shows
that the hypothesis is needed. `FlushInv`: the item of the shared flush is the oldest of the
outbox until it is removed, and by then it is stored. `TickInv`: a tick has jobs only while it
collects, and a flush is the tick's or one of its jobs'. `PreviewInv`: the flag is up while the
preview runs, so the preview queues and flushes nothing. `QuietInv`: a disable that found no tick
found no flush, and the stored switch keeps the next tick out.

**`ProviderCollectionProofs`** proves all five safety properties of `ProviderCollection`, for
each of the five providers, any esports and events, and without bounds on the clock or the
rounds. Requests and stores are programs there, so the invariant is about the steps still to
come: what an operation will push or remember it will have captured (`RequestInv`); memory and
file are written after the journal, and memory beside the durable copy (`PublishInv`,
`WriteInv`); a capture is newer than all that is held and not held before the commit
(`FreshInv`); late captures are nowhere (`LateInv`); a listing that ends has a context for each
of its esports (`ContextInv`); a capture without a tab comes after a step that opens one
(`OpenInv`). The first half of the module proves of each provider's programs what the invariant
asks of them; the second, that no step, abort, crash or restart disturbs it. The assumption that
`Esports` is not empty is that of `configuration.ts:67`, where the list of games is never empty.

**`LocalCdpProofs`** proves `LeasesAreCounted`, `NoLateNavigation` and `TabsMatchChrome`, for any
number of targets, connections, jobs and faults (the module names the two Chrome providers).
`JobInv` says what a job in each phase has; `LeaseInv` counts the leases of the connection,
provider by provider, and dates those of earlier connections; `TargetInv`: no two providers have
to do with one target; `LeftInv`: nobody opens or feeds on what an aborted job left; `PlaceInv`:
where a target is when its job lets go of it; `CloseInv`: a tab is closed for the job that left
it, or after the last job. The steps are proved from what an action changes (`Moves`), since
every action changes one of some twenty places.

**`MonitorProofs`**, of `MonitorReads`, proves `ComparedPricesWereOffered` and `HealthWasTrue`, for any
providers, markets, publications and moments. The queries of one request see different moments:
its prices may be newer than its markets, its batches newer or older than both. What holds all the
same is said of a row, which no later write can take from the copy a request holds. In the database
the selections as young as their market are the prices of one offer, and each price left over from
an earlier one is still a price of that (`Sound`, `Quoted`, in `OfferInv`). Between the queries for the markets and
the prices, what was read agrees with what is there for every provider that has not published
since (`UnmovedInv`); so what is put together of the three queries is sound for these, and quoted
for all (`RowsInv`). The batches only choose among the selections. For the health, what was
read of the providers was so at one of the `moments` (`HealthInv`); that one moment is the witness
of all three parts of `HealthWasTrue`, and the issues, read later, that of its last. The assumption that an offer has at most two prices for a market is the
parsers': each refuses a winner market that has not two selections (`superbet/parsers/
feed.parser.ts:185`, `betano`, `blaze`, `estrelabet`, and `bet365`'s list and coupon parsers).

It also proves `ValueBetsAreAtMostHalf`, for any number of bookmakers and any prices. A value bet
beats the fair price, which is the median of the bookmakers' own; where, as the property supposes, each
bookmaker has a margin (its two inverse prices sum to at least one), a bookmaker whose price beats it has a fair probability less
than the median (`MarginIsFair`, with the products of fractions of `LessTimes`). At most half of
the values are less than the median (`BelowMedian`), as each place of the ascending order is taken
by exactly one of them (`SortedIsTaken`: an injection into as many ranks). The edge is positive by
`configuration.ts:164`, which is `AnalyticsAssumption`.

Of `MonitorLive` it proves `DetailIsOfTheOpenEvent` and `ChangesTellTheDifference`, for any
events, publications and bounds. `DetailInv`: a closed detail has neither a request nor data, and
every request of an open one, answered or not, is for the event that is open, since a click drops
the requests before it. `BatchInv` says only that the batch in the database is a batch: the rest of
`ChangesTellTheDifference` is a fact about two batches, `BatchReplayed`. It rests on what the
changes say of each thing, exactly (`AddedEvents`, `RemovedEvent`, `AddedMarkets`,
`RemovedMarket`, `TurnedMarket`, `Requoted`): a change of one kind is never mistaken for another,
and a market's changes never for those of another event.

Of `MatchReconcile` it proves `GroupsAreCliques` and `RecordsFollowMatch`, for any names,
listings, orders of the lists and moments. For the groups nothing has to be known of a state but
that its lists are lists of events (`ListInv`): the rest is what the algorithm of `Matching`
computes. Its functions are defined step by step; `Recursion` says once that such a function
exists and `Induct` gives what holds at every step. `GroupFacts`: a group contains whatever its
members are eligible with, except what was seen before, and stays inside any set that holds its
seed and leads nowhere. `GroupsFacts`: groups are disjoint, an isolated clique is one of them
whole, and where being eligible is symmetric every group leads nowhere. `CompareFindsCliques` adds
what is accepted, and that a clique has as many bookmakers as members (`OneOfEach`). The symmetry
is a hypothesis of the last part of the property only, because the code does not have it
(section 5).

The decision, its history and its issue are written under different conditions, whatever the
comparison finds and whatever canonical events the groups get. They agree because of
`AloneOrNotApplicable`: no row is both left alone by the comparison (its issue is opened) and
without a second bookmaker to be compared with (its issue is closed). `RecordsAgree` supposes that
`None`, which stands for no decision, is none (`NoneIsNoDecision`); TLC's model value is such a
value.

## 7. What is only model-checked, what is not modelled

Beyond the prover: liveness under fairness (`StopCompletes`, `CooldownEnds`,
`EveryRequestIsAnswered`, `EventuallyStored`, `PendingIsStored`, `StopEnds`, `WorkEnds`,
`EveryViewBecomesCurrent`, the fair half of `LockSpec`), and anything with `ENABLED`. The
library's induction theorems, which take an operator, cannot be used; where a proof needs an
induction, as `FlattenSeq` in `ProviderCollectionProofs` or the grouping does, it takes the least
counterexample of the well-founded order of the naturals instead (`Induct`).

Only model-checked besides: of `LocalCdp` the line of the warm-ups, and of `MatchReconcile`
`IdentityIsKept`, which is a promise only while the bookmakers do not change what they say of
their events, as in the run. Every invariant of a passing run is also proved.
No module that is proved about reaches a RECURSIVE operator.

Not modelled by choice: payload formats and their parsers, page scripting and CDP commands,
SQL text and output formats, command lines, configuration, the legacy import, rendering,
deployment scripts. They are pure, or read only, or outside the program's own state.
PostgreSQL is taken to serialise transactions that hold the same advisory lock and to apply
each wholly or not at all; the disk to keep a synced file; IndexedDB to serialise its
transactions.

Partly modelled, and what is missing: of the collection service, a cycle over several
providers and the reports it returns; of the server, heartbeats, issues, checkpoints and
failed operations; of matching, what makes names equal or similar, and tournament aliases; of
the monitor, its filters, paging, raw and history views; of the extension, when a provider is
due, and that its schedule is written once a tick (`background.ts:206`), so that a worker
ended before collects early.

One hazard has no property: a preview granted just before the collector is enabled
(`background.ts:287`).

## 8. Plan

Done: the agenda, the commit section, ingestion at the server, the agent's outbox and their
composition, the extension's worker, matching and its reconciliation, the providers' collection
with their stores, the borrowed Chrome, the monitor's reads, its events and its page; proofs of
all of these. What remains, in this order:

1. Runs for the two observations on matching of section 5: the order of the teams, and a
   canonical event that two games share.
2. The extension's schedule: when a provider is due, written once a tick.
3. Heartbeats and the collection state they are summed into.
4. `canonical-conflict` issues and tournament aliases; the name rules of `team-aliases.ts`.
5. A cycle over several providers, with the monitor's data health of the agent.

## 9. Running it

    tlc -workers 2 -config ServerIngestion.cfg MCServerIngestion
    tlapm ServerIngestionProofs.tla

and likewise for the other runs of `PROJECT.json`. The longest runs take three to four minutes
(the largest, `monitor_reads`, has 3.7 million distinct states), the longest proof, of
`MonitorProofs`, about four.
