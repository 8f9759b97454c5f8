--------------------------- MODULE ServerIngestion ---------------------------
(***************************************************************************)
(* ServerIngestion                                                         *)
(*   .../modules/runtime/server-ingestion.ts     ingest()                  *)
(*   .../modules/persistence/persistence.service.ts     commit()           *)
(*   .../persistence/repositories/catalog.repository.ts write(), removed() *)
(*   .../modules/runtime/received-catalog.ts     refresh(), reload()       *)
(*                                                                         *)
(* A request carries a publication.  One PostgreSQL transaction at a time  *)
(* (the advisory lock) decides whether it is new and stores it; the        *)
(* request then waits its turn to reload the catalog the server shows, and *)
(* only afterwards is the change announced and the client answered.  The   *)
(* server may crash anywhere, the transaction or a reload may fail, and a  *)
(* transaction may be reported as failed though it was committed.          *)
(*                                                                         *)
(* Two different publications stand for different contents.  The market    *)
(* batch of a publication belongs to the journal scope of its feed scope;  *)
(* several feed scopes may share one.                                      *)
(***************************************************************************)
EXTENDS Naturals, Sequences, FiniteSets

CONSTANTS
  Publication, Event, Scope, Journal, Request, None,
  RunOf,        \* RunOf[p]: the collectionRunId p carries
  ScopeOf,      \* ScopeOf[p]: the feed scope p is about
  At,           \* At[p]: its fetchedAt
  HashOf,       \* HashOf[p]: the hash of its events and observations
  EventsIn,     \* EventsIn[p]: the events it lists
  ListScope,    \* the scopes of kind "list"; the others are details
  JournalOf     \* JournalOf[s]: the journal scope the batches of s belong to

ASSUME IngestionAssumption ==
  /\ None \notin Publication
  /\ ScopeOf \in [Publication -> Scope]
  /\ At \in [Publication -> Nat \ {0}]
  /\ EventsIn \in [Publication -> SUBSET Event]
  /\ ListScope \subseteq Scope
  /\ JournalOf \in [Scope -> Journal]
  /\ IsFiniteSet(Scope)

VARIABLES
  up,            \* the server process serves requests
  request,       \* request[q]: what request q carries and how far it is
  receipts,      \* ingestion_runs: the publications a run was recorded with
  published,     \* publications: the accepted ones
  scopes,        \* feed_scopes: scopes[s] is the last accepted one, or None
  journal,       \* odds_snapshots: the batches appended to each journal scope
  rows,          \* provider_events: rows[e], with seen = 0 for no row
  tail,          \* ReceivedCatalog.tail: the requests that wait for a reload
  projection,    \* what ProviderRuntime.events and .details were built from
  announced,     \* history: how often p was emitted on `committed`
  acknowledged   \* history: the publications answered with 2xx

storeVars == <<receipts, published, scopes, journal, rows>>
historyVars == <<announced, acknowledged>>
vars == <<up, request, storeVars, tail, projection, historyVars>>

Part == {"lists", "details", "baselines"}

\* The scopes a query of reload() returns.
Selected(part) ==
  CASE part = "lists" -> ListScope
    [] part = "details" -> Scope \ ListScope
    [] part = "baselines" -> Scope

Rows(part) == [s \in Selected(part) |-> scopes[s]]
Nothing(part) == [s \in Selected(part) |-> None]

\* A request at a stage, before any query.
Blank(stage, p) == [stage |-> stage, pub |-> p, notice |-> FALSE,
                    read |-> [part \in Part |-> None]]
Idle == Blank("idle", None)
Answered == {"idle", "accepted", "failed"}

Init ==
  /\ up = TRUE
  /\ request = [q \in Request |-> Idle]
  /\ receipts = {} /\ published = {}
  /\ scopes = [s \in Scope |-> None]
  /\ journal = [j \in Journal |-> <<>>]
  /\ rows = [e \in Event |-> [seen |-> 0, listed |-> FALSE]]
  /\ tail = <<>>
  /\ projection = [part \in Part |-> Nothing(part)]
  /\ announced = [p \in Publication |-> 0]
  /\ acknowledged = {}

Fails(q) == request' = [request EXCEPT ![q] = Blank("failed", None)]

\* POST /internal/ingestion/:provider reaches the server.
Send(q, p) ==
  /\ up /\ request[q].stage \in Answered
  /\ request' = [request EXCEPT ![q] = Blank("sent", p)]
  /\ UNCHANGED <<up, storeVars, tail, projection, historyVars>>

-----------------------------------------------------------------------------
(* The transaction of commit().                                            *)

Time(p) == IF p = None THEN 0 ELSE At[p]

\* The batches reload() and commit() compare with: of each scope the latest.
LatestBatch(j) ==
  LET batches == {scopes[s] : s \in {r \in Scope : JournalOf[r] = j}} \ {None}
  IN  IF batches = {} THEN None
      ELSE CHOOSE p \in batches : \A r \in batches : At[r] <= At[p]

JournalFor(p) == JournalOf[ScopeOf[p]]

\* A run recorded before, or the same observation under another run.
Repeated(p) ==
  \/ p \in receipts
  \/ \E r \in published :
       ScopeOf[r] = ScopeOf[p] /\ At[r] = At[p] /\ HashOf[r] = HashOf[p]

Conflicting_IgnoresRun(p) ==
  \E r \in published :
    ScopeOf[r] = ScopeOf[p] /\ At[r] = At[p] /\ HashOf[r] # HashOf[p]

\* The run was recorded with another content (409), or the scope has another
\* observation of that moment (503): the transaction rolls back.
Conflicting(p) ==
  /\ p \notin receipts
  /\ \/ \E r \in receipts : RunOf[r] = RunOf[p]
     \/ \E r \in published :
          ScopeOf[r] = ScopeOf[p] /\ At[r] = At[p] /\ HashOf[r] # HashOf[p]

Stale(p) == Time(scopes[ScopeOf[p]]) > At[p]

\* A batch of the same moment and journal scope with other contents.
ConflictingBatch(p) ==
  LET old == LatestBatch(JournalFor(p))
  IN  old # None /\ At[old] = At[p] /\ HashOf[old] # HashOf[p]

BatchAccepted_Always(p) == TRUE

BatchAccepted(p) == Time(LatestBatch(JournalFor(p))) < At[p]

\* upsert: an older observation does not overwrite the row.
Seen(e, p) == IF rows[e].seen <= At[p] THEN At[p] ELSE rows[e].seen

Missing_AfterUpdate(p) == {}

\* removed(): listed by the previous publication of the scope, not by this one,
\* and not seen since.
Missing(p) ==
  LET before == scopes[ScopeOf[p]]
  IN  {e \in (IF before = None THEN {} ELSE EventsIn[before]) \ EventsIn[p] :
         rows[e].seen <= At[p]}

Write(p) ==
  /\ published' = published \cup {p}
  /\ journal' = IF BatchAccepted(p)
                THEN [journal EXCEPT ![JournalFor(p)] = Append(@, p)]
                ELSE journal
  /\ rows' = [e \in Event |->
       IF e \in EventsIn[p]
       THEN [seen |-> Seen(e, p),
             listed |-> ScopeOf[p] \in ListScope \/ rows[e].listed]
       ELSE IF ScopeOf[p] \in ListScope /\ e \in Missing(p)
       THEN [rows[e] EXCEPT !.listed = FALSE]
       ELSE rows[e]]
  /\ scopes' = [scopes EXCEPT ![ScopeOf[p]] = p]

\* The whole transaction, in the order of its checks.  `reported` is FALSE when
\* the connection is lost after COMMIT: the client gets 503 all the same.
Transaction(q) ==
  LET p == request[q].pub
      new == ~ Repeated(p) /\ ~ Stale(p)
  IN  /\ up /\ request[q].stage = "sent"
      /\ IF Conflicting(p) \/ (new /\ ConflictingBatch(p))
         THEN Fails(q) /\ UNCHANGED storeVars
         ELSE /\ receipts' = receipts \cup {p}
              /\ IF new THEN Write(p)
                 ELSE UNCHANGED <<published, scopes, journal, rows>>
              /\ \E reported \in BOOLEAN :
                   IF reported
                   THEN request' = [request EXCEPT ![q].stage = "committed",
                                                   ![q].notice = new]
                   ELSE Fails(q)
      /\ UNCHANGED <<up, tail, projection, historyVars>>

\* The database refuses or times out: nothing is stored.
TransactionFails(q) ==
  /\ up /\ request[q].stage = "sent"
  /\ Fails(q)
  /\ UNCHANGED <<up, storeVars, tail, projection, historyVars>>

-----------------------------------------------------------------------------
(* afterCommit: ReceivedCatalog.refresh(), one reload after the other.     *)

\* commit() resumes and joins the tail.  Transactions may resume in any order.
Refresh(q) ==
  /\ up /\ request[q].stage = "committed"
  /\ request' = [request EXCEPT ![q].stage = "reloading"]
  /\ tail' = Append(tail, q)
  /\ UNCHANGED <<up, storeVars, projection, historyVars>>

MyTurn_AtOnce(q) == request[q].stage = "reloading"

MyTurn(q) == request[q].stage = "reloading" /\ Head(tail) = q

\* One query: catalogEvents() and detailEvents() race, baselines() comes after.
Read(q, part) ==
  /\ up /\ MyTurn(q)
  /\ request[q].read[part] = None
  /\ part = "baselines" =>
       request[q].read["lists"] # None /\ request[q].read["details"] # None
  /\ request' = [request EXCEPT ![q].read[part] = Rows(part)]
  /\ UNCHANGED <<up, storeVars, tail, projection, historyVars>>

Settled_OnSuccess(q) == IF request[q].read["baselines"] = None THEN tail ELSE Tail(tail)

\* `next.catch(() => {})`: the reload behind goes on even after a failure.
Settled(q) == Tail(tail)

Announced_EvenRepeats(q) == TRUE

Announced(q) == request[q].notice

\* The last query answered: the provider shows the new catalog, the notice goes
\* out and the client is answered, in one turn of the event loop.
Reloaded(q) ==
  LET p == request[q].pub
  IN  /\ up /\ MyTurn(q)
      /\ request[q].read["baselines"] # None
      /\ projection' = request[q].read
      /\ tail' = Settled(q)
      /\ announced' = IF Announced(q) THEN [announced EXCEPT ![p] = @ + 1]
                      ELSE announced
      /\ acknowledged' = acknowledged \cup {p}
      /\ request' = [request EXCEPT ![q] = Blank("accepted", None)]
      /\ UNCHANGED <<up, storeVars>>

\* A query of this provider, or one of a provider after it, fails: what was
\* assigned stays, the notice is lost and the client gets an error.
ReloadFails(q) ==
  /\ up /\ MyTurn(q)
  /\ \/ UNCHANGED projection
     \/ request[q].read["baselines"] # None /\ projection' = request[q].read
  /\ tail' = Settled(q)
  /\ Fails(q)
  /\ UNCHANGED <<up, storeVars, historyVars>>

Crash ==
  /\ up
  /\ up' = FALSE
  /\ request' = [q \in Request |->
       IF request[q].stage \in Answered THEN request[q]
       ELSE Blank("failed", None)]
  /\ tail' = <<>>
  /\ projection' = [part \in Part |-> Nothing(part)]
  /\ UNCHANGED <<storeVars, historyVars>>

Restored_Lazily(part) == Nothing(part)

Restored(part) == Rows(part)

\* onModuleInit reloads before the server listens.
Restart ==
  /\ ~ up
  /\ up' = TRUE
  /\ projection' = [part \in Part |-> Restored(part)]
  /\ UNCHANGED <<request, storeVars, tail, historyVars>>

Handle(q) ==
  \/ Transaction(q) \/ TransactionFails(q) \/ Refresh(q)
  \/ \E part \in Part : Read(q, part)
  \/ Reloaded(q) \/ ReloadFails(q)

Next ==
  \/ \E q \in Request : (\E p \in Publication : Send(q, p)) \/ Handle(q)
  \/ Crash \/ Restart

Spec == Init /\ [][Next]_vars

\* Transactions and queries have timeouts, so what the server took up it ends;
\* the platform restarts it.
Fairness ==
  /\ WF_vars(Restart)
  /\ \A q \in Request : WF_vars(Handle(q))

FairSpec == Spec /\ Fairness

-----------------------------------------------------------------------------
(* Properties.                                                             *)

Snapshot(part) == [Selected(part) -> Publication \cup {None}]

Reading == UNION {Snapshot(part) : part \in Part}

RequestState ==
  [stage : Answered \cup {"sent", "committed", "reloading"},
   pub : Publication \cup {None}, notice : BOOLEAN,
   read : [Part -> Reading \cup {None}]]

TypeOK ==
  /\ up \in BOOLEAN
  /\ request \in [Request -> RequestState]
  /\ \A q \in Request :
       /\ request[q].stage \notin Answered => request[q].pub \in Publication
       /\ \A part \in Part : request[q].read[part] \in Snapshot(part) \cup {None}
  /\ receipts \subseteq Publication /\ published \subseteq Publication
  /\ scopes \in [Scope -> Publication \cup {None}]
  /\ journal \in [Journal -> Seq(Publication)]
  /\ rows \in [Event -> [seen : Nat, listed : BOOLEAN]]
  /\ tail \in Seq(Request)
  /\ projection \in [Part -> Reading]
  /\ \A part \in Part : projection[part] \in Snapshot(part)
  /\ announced \in [Publication -> Nat]
  /\ acknowledged \subseteq Publication

\* docs/ODDS_HISTORY.md: history is appended in the order of observation.  The
\* batches of a journal scope are stored in strictly increasing time, though
\* several feed scopes feed it, requests overtake one another and are repeated.
JournalInOrder ==
  \A j \in Journal : \A m, n \in 1..Len(journal[j]) :
    m < n => At[journal[j][m]] < At[journal[j][n]]

\* docs/MONITOR.md: a publication that was rolled back, repeated or discarded as
\* old is never announced, and none is announced twice.
AnnouncedOnce ==
  \A p \in Publication :
    announced[p] <= 1 /\ (announced[p] = 1 => p \in published)

Shown(s) == projection[IF s \in ListScope THEN "lists" ELSE "details"][s]

\* docs/RUNTIMES.md: the projection is reloaded before the answer and before the
\* notice.  Whatever was answered with 2xx or announced is shown, or something
\* newer of its scope, by this process or by one started after a crash.
AcknowledgedIsShown ==
  \A p \in Publication :
    up /\ (p \in acknowledged \/ announced[p] > 0)
      => /\ Time(Shown(ScopeOf[p])) >= At[p]
         /\ Time(projection["baselines"][ScopeOf[p]]) >= At[p]

\* The content answered with 2xx for a run is the one recorded for it: a client
\* that reuses a run is never told that its second content was stored.
OneContentPerRun ==
  /\ acknowledged \subseteq receipts
  /\ \A p, r \in acknowledged : RunOf[p] = RunOf[r] => p = r

\* docs/ODDS_HISTORY.md: publications older than the last of their scope are no
\* backfill.  What a scope holds, and an event row that lists and details write
\* alike, never go back in time.
StoredAdvances ==
  [][/\ \A s \in Scope : Time(scopes'[s]) >= Time(scopes[s])
     /\ \A e \in Event : rows'[e].seen >= rows[e].seen]_vars

\* What readers are shown never goes back in time while the process lives,
\* whatever the order in which reloads were asked for and their queries answer.
ShownAdvances ==
  [][up /\ up' => \A part \in Part : \A s \in Selected(part) :
       Time(projection'[part][s]) >= Time(projection[part][s])]_vars

\* Every request is answered, or dies with the process, even behind reloads
\* that fail.
EveryRequestIsAnswered ==
  \A q \in Request :
    request[q].stage = "sent" ~> request[q].stage \in Answered
=============================================================================
