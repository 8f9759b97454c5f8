----------------------------- MODULE MonitorLive -----------------------------
(***************************************************************************)
(* MonitorLive                                                             *)
(*   .../modules/monitor/monitor-events.service.ts  enqueue(), refresh(),  *)
(*                                                  stream()               *)
(*   .../persistence/persistence.service.ts         the notice of commit() *)
(*   apps/odds-monitor/src/App.tsx, lib/sse/monitor-stream.ts,             *)
(*   lib/api/use-resource.ts                        the page               *)
(*   apps/odds-monitor/server.mjs                   the proxy between them *)
(*                                                                         *)
(* The page never receives data over the event stream: a message only      *)
(* names what may have changed, and the page asks for it again.  Here is   *)
(* the whole loop, for one provider and one page: a publication commits    *)
(* and its notice follows later, or never; the service compares what it    *)
(* reads with what it read before, in jobs that run one at a time and may  *)
(* fail; the stream breaks and comes back, unless the service is down when *)
(* the browser asks for it; the page gathers what it must ask again for    *)
(* 300 ms, drops the answers it no longer wants, and the user opens and    *)
(* closes events meanwhile.                                                *)
(*                                                                         *)
(* A view is the data a GET returns, at the moment the server reads it;    *)
(* what decides whether an event is in the list at all (MonitorReads) is   *)
(* not part of it.  No view reads another's state, so a behaviour follows  *)
(* a few of them, `watched`.  Messages are a set: what one makes the page  *)
(* do does not depend on their order.  Filters, the raw panel, the manual  *)
(* sync and the heartbeat's own message are left out.                      *)
(***************************************************************************)
EXTENDS MarketJournal, Naturals, Sequences

CONSTANTS
  Event,          \* the provider's events, and their ids while unmatched
  Null,
  Publication,    \* what a publication says: batch, match, issues
  First,          \* the one before the page was opened
  Together,       \* the sets of views a behaviour may follow
  Often,          \* Often[what]: how often it happens, and
  MaxAll          \* how often anything does that may not happen again

ASSUME MonitorLiveAssumption ==
  /\ Null \notin Event \union {"canonical"}
  /\ \A p \in Publication \union {First} :
       /\ p.match \in [Event -> Event \union {"canonical", Null}]
       /\ p.issues \subseteq Event
       /\ IsBatch(p.batch) /\ DOMAIN p.batch \subseteq Event

VARIABLES
  stored,    \* batch, rows, match, issues: what PostgreSQL holds; stale: the
             \* markets the TTL has expired for
  unsent,    \* the notices of committed publications not emitted yet
  lost,      \* history: a change a listening page may never be told of
  service,   \* MonitorEventsService, and whether the service is up
  stream,    \* the page's EventSource: none, connecting, open or closed
  channel,   \* the messages on their way to the page
  page,      \* what the user looks at: selected, drawer
  pending,   \* the views to ask again when the 300 ms are over
  watched,   \* the views that are followed
  shown,     \* shown[v]: the data and error of the view's resource
  requests,  \* requests[v]: its GETs under way
  spent      \* bounds

liveVars ==
  <<stored, unsent, lost, service, stream, channel, page, pending, watched, shown,
    requests, spent>>

View == {"overview", "events", "detail", "issues", "history"}
NoData == [data |-> Null, error |-> FALSE]

-----------------------------------------------------------------------------
(* The data. *)

\* The id an event is reached by: its canonical event's or its own.
IdOf(match, e) == IF e \in DOMAIN match /\ match[e] # Null THEN match[e] ELSE e

EventsOf(id) == {e \in DOMAIN stored.rows : IdOf(stored.match, e) = id}
Listed == DOMAIN stored.batch

RowOf(e, content) ==
  [id |-> IdOf(stored.match, e), markets |-> content,
   issue |-> e \in stored.issues, stale |-> e \in stored.stale]

\* What the GET of a view returns, None for 404.
Data(view, id) ==
  CASE view = "overview" -> [issues |-> stored.issues, stale |-> stored.stale,
                             groups |-> {IdOf(stored.match, e) : e \in Listed}]
    [] view = "events" -> [e \in Listed |-> RowOf(e, stored.batch[e])]
    [] view = "issues" -> [issues |-> stored.issues, stale |-> stored.stale]
    [] view = "detail" -> IF EventsOf(id) = {} THEN Null
                          ELSE [e \in EventsOf(id) |-> RowOf(e, stored.rows[e])]
    [] view = "history" ->
         IF EventsOf(id) = {} THEN Null
         ELSE [e \in EventsOf(id) |->
                 [m \in DOMAIN stored.rows[e] |-> stored.rows[e][m].odds]]

Spend(what) ==
  /\ spent[what] < Often[what]
  /\ FoldFunction(+, 0, spent) < MaxAll
  /\ spent' = [spent EXCEPT ![what] = @ + 1]

\* Between ready and its first look the service has nothing to compare with.
NoBaseline == stream = "open" /\ Null \in {service.previous, service.staleMarkets}

\* The rows of events no longer listed stay.
Upserted(batch) ==
  [e \in DOMAIN batch \union DOMAIN stored.rows |->
     IF e \in DOMAIN batch THEN batch[e] ELSE stored.rows[e]]

\* commit(): the rows, the matches and the issues change in one
\* transaction; the notice is kept until the reload behind it is over.
Commit(p) ==
  LET changes == MarketChanges(stored.batch, p.batch, TRUE) IN
  /\ service.up
  /\ Spend("publications")
  /\ stored' = [batch |-> p.batch, rows |-> Upserted(p.batch), match |-> p.match,
                issues |-> p.issues, stale |-> {}]
  /\ unsent' = unsent \union
       {[changes |-> {AboutEvent(c.type, c.event) : c \in changes},
         events |-> DOMAIN p.batch]}
  /\ lost' = (lost \/ NoBaseline)
  /\ UNCHANGED <<watched, stream, service, channel, page, pending, shown, requests>>

\* A market passes the TTL.
Expire(e) ==
  /\ e \in Listed \ stored.stale
  /\ Spend("expiries")
  /\ stored' = [stored EXCEPT !.stale = @ \union {e}]
  /\ lost' = (lost \/ NoBaseline)
  /\ UNCHANGED <<watched, stream, unsent, service, channel, page, pending, shown,
                 requests>>

-----------------------------------------------------------------------------
(* The service. *)

Unread == [match |-> Null, issues |-> Null]

\* `seen` is what a look at the metadata has read so far.
NewService ==
  [up |-> TRUE, previous |-> Null, staleProvider |-> Null, staleMarkets |-> Null,
   queue |-> << >>, stage |-> "state", seen |-> Unread]

Subscribed == stream = "open"

\* enqueue(): nothing is done for nobody.
Enqueued(s, job) == IF Subscribed THEN [s EXCEPT !.queue = Append(@, job)] ELSE s

\* commit() emits its notice after afterCommit().
Notify(n) ==
  /\ n \in unsent
  /\ unsent' = unsent \ {n}
  /\ service' = Enqueued(service, n)
  /\ UNCHANGED <<watched, stream, stored, lost, channel, page, pending, shown,
                 requests, spent>>

\* afterCommit() fails: the client's repeat finds the publication stored and
\* has no notice.
ReloadFails(n) ==
  /\ n \in unsent
  /\ Spend("faults")
  /\ unsent' = unsent \ {n}
  /\ lost' = (lost \/ Subscribed)
  /\ UNCHANGED <<watched, stream, stored, service, channel, page, pending, shown,
                 requests>>

Message(type, id) == [type |-> type, id |-> id]

SseType(change) ==
  CASE change = "OddsChanged" -> "odds.changed"
    [] change = "EventAdded" -> "event.added"
    [] change = "EventRemoved" -> "event.removed"
    [] OTHER -> "market.updated"

Matches == [e \in DOMAIN stored.rows |-> stored.match[e]]

\* What became of the metadata since the previous look.  The ids are those
\* of this one.
MetadataMessages(old, seen) ==
  IF old = Null THEN {}
  ELSE {Message("matching.updated", IdOf(seen.match, e)) :
          e \in {e \in DOMAIN seen.match :
                   e \notin DOMAIN old.match \/ old.match[e] # seen.match[e]}}
       \union {Message("issue.created", IdOf(seen.match, e)) :
                 e \in seen.issues \ old.issues}
       \union {Message("issue.resolved", IdOf(seen.match, e)) :
                 e \in old.issues \ seen.issues}

NoticeMessages(n, seen) ==
  IF n = Null THEN {}
  ELSE {Message(SseType(c.type), IdOf(seen.match, c.event)) : c \in n.changes}
       \union {Message("event.updated", IdOf(seen.match, e)) : e \in n.events}
       \union {Message("provider.updated", Null)}

StaleMessages(before, after) ==
  IF before = Null THEN {}
  ELSE {Message("market.stale", IdOf(stored.match, e)) : e \in after \ before}
       \union {Message("market.refreshed", IdOf(stored.match, e)) : e \in before \ after}

\* Messages reach the page only over an open stream.
Emit(messages) ==
  channel' = IF Subscribed THEN channel \union messages ELSE channel

ProviderIsStale == Listed # {} /\ Listed \subseteq stored.stale

\* refresh(): three looks at the database, one after the other.  The first,
\* state(), is two queries side by side; what follows when both are answered.
Look(seen) ==
  /\ IF Null \in {seen.match, seen.issues}
     THEN /\ service' = [service EXCEPT !.seen = seen]
          /\ UNCHANGED channel
     ELSE /\ service' = [service EXCEPT !.previous = seen, !.seen = Unread,
                                        !.stage = "providers"]
          /\ Emit(MetadataMessages(service.previous, seen)
                    \union NoticeMessages(Head(service.queue), seen))
  /\ UNCHANGED <<watched, stored, unsent, lost, stream, page, pending, shown,
                 requests, spent>>

ReadMatches ==
  /\ service.queue # << >> /\ service.stage = "state" /\ service.seen.match = Null
  /\ Look([service.seen EXCEPT !.match = Matches])

ReadIssues ==
  /\ service.queue # << >> /\ service.stage = "state" /\ service.seen.issues = Null
  /\ Look([service.seen EXCEPT !.issues = stored.issues])

ReadProviders ==
  /\ service.queue # << >> /\ service.stage = "providers"
  /\ Emit(IF service.staleProvider = FALSE /\ ProviderIsStale
          THEN {Message("provider.stale", Null)} ELSE {})
  /\ service' = [service EXCEPT !.staleProvider = ProviderIsStale, !.stage = "markets"]
  /\ UNCHANGED <<watched, stream, stored, unsent, lost, page, pending, shown,
                 requests, spent>>

ReadMarkets ==
  /\ service.queue # << >> /\ service.stage = "markets"
  /\ Emit(StaleMessages(service.staleMarkets, stored.stale))
  /\ service' = [service EXCEPT !.staleMarkets = stored.stale, !.stage = "state",
                                !.queue = Tail(@)]
  /\ UNCHANGED <<watched, stream, stored, unsent, lost, page, pending, shown,
                 requests, spent>>

AfterFailure_Silent == {}

\* What a refresh that failed leaves the page to do.
AfterFailure == {Message("resync", Null)}

RefreshFails ==
  /\ service.queue # << >>
  /\ Spend("faults")
  /\ Emit(AfterFailure)
  /\ service' = [service EXCEPT !.stage = "state", !.seen = Unread, !.queue = Tail(@)]
  /\ UNCHANGED <<watched, stream, stored, unsent, lost, page, pending, shown, requests>>

\* Every 25 s while somebody listens; a job that is still queued makes
\* another one redundant here.
Heartbeat ==
  /\ Subscribed /\ service.queue = << >>
  /\ service' = Enqueued(service, Null)
  /\ UNCHANGED <<watched, stream, stored, unsent, lost, channel, page, pending,
                 shown, requests, spent>>

-----------------------------------------------------------------------------
(* The page. *)

Visible == watched \intersect
  ({"overview", "events"}
   \union (IF page.selected # Null THEN {"detail", "history"} ELSE {})
   \union (IF page.drawer THEN {"issues"} ELSE {}))

\* invalidations()
Invalidated(type, id) ==
  LET open == page.selected # Null
      affected(views) == IF open /\ id \in {Null, page.selected} THEN views ELSE {}
  IN CASE type \in {"ready", "resync"} ->
            {"overview", "events", "issues"} \union
            (IF open THEN {"detail", "history"} ELSE {})
       [] type \in {"issue.created", "issue.resolved"} ->
            {"overview", "issues"} \union affected({"detail"})
       [] type \in {"odds.changed", "market.updated"} ->
            {"events"} \union affected({"detail", "history"})
       [] type \in {"market.stale", "market.refreshed"} ->
            {"overview", "events", "issues"} \union affected({"detail"})
       [] type = "matching.updated" ->
            {"overview", "events", "issues"} \union (IF open THEN {"detail"} ELSE {})
       [] type \in {"provider.updated", "provider.stale"} -> {"overview", "events"}
       [] type \in {"event.added", "event.removed"} ->
            {"overview", "events"} \union affected({"detail"})
       [] type = "event.updated" -> {"events"} \union affected({"detail"})

\* A new request aborts the one before it.
Outstanding_All(old, new) == old \union {new}

Outstanding(old, new) == {new}

Request(id) == [id |-> id, answer |-> Null]
Failed == [ok |-> FALSE, data |-> Null]

\* The messages of a stream that just opened.
Greeting == {Message("ready", Null)}

\* The stream starts once the first loads have settled, and EventSource
\* asks for it again whenever it breaks.
Settled(view) == requests[view] = {}
Connecting ==
  \/ stream = "connecting"
  \/ stream = "none" /\ Settled("overview") /\ Settled("events")

Connect ==
  /\ Connecting /\ service.up
  /\ stream' = "open"
  /\ service' = [service EXCEPT !.queue = Append(@, Null)]
  /\ channel' = Greeting
  /\ UNCHANGED <<watched, stored, unsent, lost, page, pending, shown, requests, spent>>

\* While the service is down the proxy answers 502, and an answer that is not
\* 200 closes an EventSource for good; the page makes no other.  Its header
\* says "reconnecting" from then on.
Refused ==
  /\ Connecting /\ ~service.up
  /\ stream' = "closed"
  /\ UNCHANGED <<watched, stored, unsent, lost, service, channel, page, pending, shown,
                 requests, spent>>

\* The stream breaks.
Broken == IF Subscribed THEN "connecting" ELSE stream

Drop ==
  /\ Subscribed
  /\ Spend("drops")
  /\ stream' = Broken /\ channel' = {}
  /\ UNCHANGED <<watched, stored, unsent, lost, service, page, pending, shown, requests>>

\* The service stops, and with it the stream and the requests under way.
Stop ==
  /\ service.up
  /\ Spend("drops")
  /\ service' = [NewService EXCEPT !.up = FALSE]
  /\ stream' = Broken /\ channel' = {} /\ unsent' = {}
  /\ requests' = [v \in View |->
                    {IF r.answer = Null THEN [r EXCEPT !.answer = Failed] ELSE r :
                       r \in requests[v]}]
  /\ UNCHANGED <<watched, stored, lost, page, pending, shown>>

Start ==
  /\ ~service.up
  /\ service' = [service EXCEPT !.up = TRUE]
  /\ UNCHANGED <<watched, stored, unsent, lost, stream, channel, page, pending, shown,
                 requests, spent>>

\* The messages that are there are handled one after the other.
Receive ==
  /\ channel # {}
  /\ channel' = {}
  /\ pending' = pending \union
       UNION {Invalidated(message.type, message.id) : message \in channel}
  /\ UNCHANGED <<watched, stream, stored, unsent, lost, service, page, shown,
                 requests, spent>>

\* The 300 ms are over: bump() of what was gathered.  A view of the same
\* identity keeps its data while it is asked again.
Bump ==
  /\ pending # {}
  /\ pending' = {}
  /\ shown' = [v \in View |-> IF v \in pending \intersect Visible
                              THEN [shown[v] EXCEPT !.error = FALSE] ELSE shown[v]]
  /\ requests' = [v \in View |->
                    IF v \in pending \intersect Visible
                    THEN Outstanding(requests[v], Request(page.selected))
                    ELSE requests[v]]
  /\ UNCHANGED <<watched, stream, stored, unsent, lost, service, channel, page, spent>>

\* The server answers a GET, or cannot.
Answered(view, r, answer) ==
  requests' = [requests EXCEPT ![view] = (@ \ {r}) \union {[r EXCEPT !.answer = answer]}]

Serve(view, r) ==
  /\ r \in requests[view] /\ r.answer = Null /\ service.up
  /\ LET data == Data(view, r.id) IN
     Answered(view, r, [ok |-> data # Null, data |-> data])
  /\ UNCHANGED <<watched, stream, stored, unsent, lost, service, channel, page,
                 pending, shown, spent>>

ServeFails(view, r) ==
  /\ r \in requests[view] /\ r.answer = Null
  /\ IF service.up THEN Spend("faults") ELSE UNCHANGED spent
  /\ Answered(view, r, Failed)
  /\ UNCHANGED <<watched, stream, stored, unsent, lost, service, channel, page,
                 pending, shown>>

\* The answer of a request that was not aborted is shown; an error keeps
\* the data there was.
Deliver(view, r) ==
  /\ r \in requests[view] /\ r.answer # Null
  /\ requests' = [requests EXCEPT ![view] = @ \ {r}]
  /\ shown' = [shown EXCEPT ![view] =
                 IF r.answer.ok THEN [data |-> r.answer.data, error |-> FALSE]
                 ELSE [@ EXCEPT !.error = TRUE]]
  /\ UNCHANGED <<watched, stream, stored, unsent, lost, service, channel, page,
                 pending, spent>>

\* The views whose identity a click changes lose their data and are asked; a
\* click that changes none that is followed is left out.
Turn(to, asked, closed) ==
  /\ (asked \union closed) \intersect watched # {}
  /\ Spend("clicks")
  /\ page' = to
  /\ shown' = [v \in View |-> IF v \in asked \union closed THEN NoData ELSE shown[v]]
  /\ requests' = [v \in View |->
                    IF v \in asked \intersect watched
                    THEN Outstanding(requests[v], Request(to.selected))
                    ELSE IF v \in closed THEN {} ELSE requests[v]]
  /\ UNCHANGED <<watched, stream, stored, unsent, lost, service, channel, pending>>

\* open(), from a list that may be out of date; the user looks at a price
\* of the event at once.
Open(id) ==
  /\ id # page.selected
  /\ Turn([selected |-> id, drawer |-> FALSE], {"detail", "history"}, {"issues"})

Back ==
  /\ page.selected # Null
  /\ Turn([page EXCEPT !.selected = Null], {}, {"detail", "history"})

OpenDrawer ==
  /\ ~page.drawer
  /\ Turn([page EXCEPT !.drawer = TRUE], {"issues"}, {})

-----------------------------------------------------------------------------
LiveInit ==
  /\ stored = [batch |-> First.batch, rows |-> First.batch, match |-> First.match,
               issues |-> First.issues, stale |-> {}]
  /\ unsent = {} /\ lost = FALSE
  /\ service = NewService /\ stream = "none" /\ channel = {}
  /\ page = [selected |-> Null, drawer |-> FALSE]
  /\ pending = {}
  /\ watched \in Together
  /\ shown = [v \in View |-> NoData]
  /\ requests = [v \in View |-> IF v \in Visible THEN {Request(Null)} ELSE {}]
  /\ spent = [what \in DOMAIN Often |-> 0]

Refresh == ReadMatches \/ ReadIssues \/ ReadProviders \/ ReadMarkets

Fault ==
  \/ \E n \in unsent : ReloadFails(n)
  \/ RefreshFails
  \/ \E v \in View : \E r \in requests[v] : ServeFails(v, r)
  \/ Drop \/ Stop \/ Refused

User == Back \/ OpenDrawer \/ \E id \in Event \union {"canonical"} : Open(id)

LiveNext ==
  \/ \E p \in Publication : Commit(p)
  \/ \E e \in Event : Expire(e)
  \/ \E n \in unsent : Notify(n)
  \/ Refresh \/ Heartbeat \/ Start \/ Connect \/ Receive \/ Bump
  \/ \E v \in View : \E r \in requests[v] : Serve(v, r) \/ Deliver(v, r)
  \/ Fault
  \/ User

\* The service works off its queue, its timer fires, and it is started again
\* when it stopped; the browser reconnects as long as its EventSource is not
\* closed, delivers messages and answers and fires its timer.
Fairness ==
  /\ WF_liveVars(\E n \in unsent : Notify(n))
  /\ WF_liveVars(Refresh) /\ WF_liveVars(Heartbeat)
  /\ WF_liveVars(Start) /\ WF_liveVars(Connect)
  /\ WF_liveVars(Receive) /\ WF_liveVars(Bump)
  /\ \A v \in View : WF_liveVars(\E r \in requests[v] : Serve(v, r) \/ Deliver(v, r))

LiveSpec == LiveInit /\ [][LiveNext]_liveVars /\ Fairness

-----------------------------------------------------------------------------
\* An open event's data is that event's: answers to what was open before
\* are never shown under it.
DetailIsOfTheOpenEvent ==
  shown["detail"].data # Null =>
    /\ page.selected # Null
    /\ \A e \in DOMAIN shown["detail"].data :
         shown["detail"].data[e].id = page.selected

\* Applied to the batch before, the changes of a publication give the new
\* batch, wherever they say all.
ChangesTellTheDifference ==
  [][ \A p \in Publication :
        Commit(p) /\ Told(stored.batch, p.batch) =>
          Replayed(stored.batch, MarketChanges(stored.batch, p.batch, TRUE)) = p.batch ]_liveVars

\* A view that is open shows what the server would return now, or says that
\* it could not be loaded.  The chart of an event whose identity changed is
\* behind a detail that could not be loaded.
Current(view) ==
  view \in Visible =>
    \/ shown[view].error \/ (view = "history" /\ shown["detail"].error)
    \/ shown[view].data = Data(view, page.selected)

\* Once publications, expiries, faults and clicks cease, every open view
\* becomes and stays current, unless the service had no notice to give
\* (ReloadFails) or nothing to compare with (NoBaseline), or the page was
\* refused its stream and says so for good.
EveryViewBecomesCurrent ==
  <>[](lost \/ stream = "closed" \/ \A view \in View : Current(view))
=============================================================================
