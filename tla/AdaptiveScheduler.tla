-------------------------- MODULE AdaptiveScheduler --------------------------
(***************************************************************************)
(* AdaptiveScheduler                                                       *)
(*   apps/odds-service/src/modules/collection/adaptive-scheduler.ts        *)
(* with the operation it executes                                          *)
(*   .../collection/scheduled-operation.ts                                 *)
(*                                                                         *)
(* Each provider has one list task and one detail task per event of its    *)
(* catalog; all of them share the record AttemptState.  tick() launches at *)
(* most one job per provider.  A job collects, passes the commit point     *)
(* (beginCommit), publishes, and is accounted for as a success, a failure  *)
(* or an event that has started.  Timeouts and shutdown abort a job that   *)
(* has not begun to commit.                                                *)
(*                                                                         *)
(* A task is named by the provider (its list) or by the event (its         *)
(* detail).  What a collection returns is the environment's choice.        *)
(***************************************************************************)
EXTENDS SchedulingPolicy, FiniteSets

CONSTANTS
  Provider, Event,
  ProviderOf,        \* ProviderOf[e]: the provider that lists event e
  StartTime,         \* the instants an event may be announced to start at
  Jitter,            \* the values jitter() may draw
  StartupDelay, ListInterval, ListTimeout, DetailTimeout, Cooldown,
  FailureThreshold,
  MaxFailures,       \* failure counters saturate here
  MaxNow             \* the clock stops here

\* Beyond the last backoff step and the threshold a failure count tells
\* nothing more, so saturating there loses no behaviour.
ASSUME SchedulerAssumption ==
  /\ Provider \cap Event = {}
  /\ ProviderOf \in [Event -> Provider]
  /\ StartTime \subseteq Nat
  /\ Jitter \subseteq Nat /\ Jitter # {}
  /\ {StartupDelay, ListTimeout, DetailTimeout, Cooldown, MaxNow} \subseteq Nat
  /\ ListInterval \in Nat \ {0}
  /\ FailureThreshold \in Nat \ {0}
  /\ MaxFailures \in Nat
  /\ MaxFailures >= FailureThreshold
  /\ MaxFailures >= Len(BackoffSteps)

VARIABLES
  now,
  enabled, stopping,
  stopPhase,            \* how far stop() is: "no", "grace", "draining", "stopped"
  attempt,              \* attempt[x]: the AttemptState of task x
  catalog,              \* catalog[e]: the listed event, or None
  jobs,                 \* jobs[x]: the running job of task x, or None
  consecutiveFailures, cooldownUntil, contextReady, activeJobs,
  contextOpen,          \* the collector of p holds a usable listing context
  failedAt              \* history: when task x last failed, or None

vars == <<now, enabled, stopping, stopPhase, attempt, catalog, jobs,
          consecutiveFailures, cooldownUntil, contextReady, activeJobs,
          contextOpen, failedAt>>
providerVars == <<consecutiveFailures, cooldownUntil, contextReady, activeJobs>>
lifeVars == <<enabled, stopping, stopPhase>>

Task == Provider \cup Event
IsList(x) == x \in Provider
SiteOf(x) == IF IsList(x) THEN x ELSE ProviderOf[x]
EventsOf(p) == {e \in Event : ProviderOf[e] = p}

Listed == [startsAt : StartTime, open : BOOLEAN]
Job == [stage : {"running", "closing"}, committing : BOOLEAN,
        abort : {"no", "timeout", "shutdown"}, transport : BOOLEAN]

ASSUME NoJobAssumption == None \notin Job

FreshAttempt ==
  [lastAttemptAt |-> None, nextRunAt |-> None, failureCount |-> 0,
   currentlyRunning |-> FALSE, jitter |-> 0, preGameStopped |-> FALSE]

Init ==
  /\ now = 0
  /\ enabled = FALSE /\ stopping = FALSE /\ stopPhase = "no"
  /\ attempt = [x \in Task |-> FreshAttempt]
  /\ catalog = [e \in Event |-> None]
  /\ jobs = [x \in Task |-> None]
  /\ consecutiveFailures = [p \in Provider |-> 0]
  /\ cooldownUntil = [p \in Provider |-> None]
  /\ contextReady = [p \in Provider |-> FALSE]
  /\ activeJobs = [p \in Provider |-> 0]
  /\ contextOpen = [p \in Provider |-> FALSE]
  /\ failedAt = [x \in Task |-> None]

Advance ==
  /\ now < MaxNow
  /\ now' = now + 1
  /\ UNCHANGED <<lifeVars, attempt, catalog, jobs, providerVars, contextOpen,
                 failedAt>>

-----------------------------------------------------------------------------
(* The agenda.  A definition named <Operation>_<Bug> is not code: it is    *)
(* the operation with a plausible bug, kept to show which property of the  *)
(* module the bug would break.                                             *)

\* `open` is !inPlay and status scheduled or suspended.
Eligible(listed) ==
  listed.open /\ getDetailInterval(listed.startsAt, now) # None

due(a) ==
  /\ ~ a.currentlyRunning
  /\ a.nextRunAt # None
  /\ now >= a.nextRunAt + a.jitter

\* The next run of a detail that has not failed since its last success.
NextDetailRun(a, listed) ==
  IF a.lastAttemptAt # None
  THEN a.lastAttemptAt + getDetailInterval(listed.startsAt, now)
  ELSE IF a.nextRunAt # None THEN a.nextRunAt ELSE now

recalculate_Never(att, cat) == att

recalculate_OverBackoff(att, cat) ==
  [x \in Task |->
     IF IsList(x) \/ (x \in Event /\ cat[x] = None) THEN att[x]
     ELSE IF att[x].preGameStopped \/ ~ Eligible(cat[x])
     THEN [att[x] EXCEPT !.nextRunAt = None]
     ELSE [att[x] EXCEPT !.nextRunAt = NextDetailRun(att[x], cat[x])]]

\* A stopped or ineligible detail loses its next run; one with failures keeps
\* what it has, so that the backoff stands.
recalculate(att, cat) ==
  [x \in Task |->
     IF IsList(x) \/ (x \in Event /\ cat[x] = None) THEN att[x]
     ELSE IF att[x].preGameStopped \/ ~ Eligible(cat[x])
     THEN [att[x] EXCEPT !.nextRunAt = None]
     ELSE IF att[x].failureCount = 0
     THEN [att[x] EXCEPT !.nextRunAt = NextDetailRun(att[x], cat[x])]
     ELSE att[x]]

\* reconcile(p, events): drop the absent, add the new, and let a moved start
\* lift the pre-game stop.  draw[e] is the jitter a new detail gets.
Reconciled(att, cat, p, listing, draw) ==
  LET seen(e) ==
        IF listing[e] = None THEN FreshAttempt
        ELSE IF cat[e] = None THEN [FreshAttempt EXCEPT !.jitter = draw[e]]
        ELSE IF cat[e].startsAt # listing[e].startsAt
        THEN [att[e] EXCEPT !.preGameStopped = FALSE]
        ELSE att[e]
  IN  recalculate([x \in Task |-> IF x \in EventsOf(p) THEN seen(x) ELSE att[x]],
                  [e \in Event |-> IF e \in EventsOf(p) THEN listing[e] ELSE cat[e]])

Listing(p) == [EventsOf(p) -> Listed \cup {None}]

\* At startup, before start(): the persisted catalog of one provider.
RestoreCatalog(p) ==
  /\ ~ enabled /\ ~ stopping
  /\ \A x \in Task : jobs[x] = None
  /\ \E listing \in Listing(p), draw \in [EventsOf(p) -> Jitter] :
       /\ attempt' = Reconciled(attempt, catalog, p, listing, draw)
       /\ catalog' = [e \in Event |->
                        IF e \in EventsOf(p) THEN listing[e] ELSE catalog[e]]
  /\ UNCHANGED <<now, lifeVars, jobs, providerVars, contextOpen, failedAt>>

Start ==
  /\ ~ enabled /\ ~ stopping
  /\ enabled' = TRUE
  /\ \E draw \in [Provider -> Jitter] :
       attempt' = [x \in Task |->
         IF IsList(x)
         THEN [attempt[x] EXCEPT !.nextRunAt = now + StartupDelay,
                                 !.jitter = draw[x]]
         ELSE attempt[x]]
  /\ UNCHANGED <<now, stopping, stopPhase, catalog, jobs, providerVars,
                 contextOpen, failedAt>>

\* effectiveConcurrency is 1, and a cooldown that has not expired silences p.
Available(p) ==
  /\ activeJobs[p] < 1
  /\ cooldownUntil[p] = None \/ now >= cooldownUntil[p]

\* The cooldowns this tick lifts.
Expired == {p \in Provider : Available(p) /\ cooldownUntil[p] # None}

Probed_Unforced(att) == att

\* A lifted cooldown forces the list task to run now.
Probed(att) ==
  [x \in Task |->
     IF x \in Expired THEN [att[x] EXCEPT !.nextRunAt = now, !.jitter = 0]
     ELSE att[x]]

\* The due detail of p that starts first; ties go by a fixed order of ids.
NextDetail(p, att) ==
  LET dueDetails == {e \in EventsOf(p) : catalog[e] # None /\ due(att[e])}
      first == {e \in dueDetails : \A f \in dueDetails :
                  catalog[e].startsAt <= catalog[f].startsAt}
  IN  IF dueDetails = {} THEN {} ELSE {CHOOSE e \in first : TRUE}

\* A due list goes before every detail; details need a discovery first.
Chosen(p, att) ==
  IF ~ Available(p) THEN {}
  ELSE IF due(att[p]) THEN {p}
  ELSE IF contextReady[p] /\ p \notin Expired THEN NextDetail(p, att)
  ELSE {}

NewJob == [stage |-> "running", committing |-> FALSE, abort |-> "no",
           transport |-> FALSE]

Tick ==
  LET att == Probed(recalculate(attempt, catalog))
      launched == UNION {Chosen(p, att) : p \in Provider}
  IN  /\ enabled /\ ~ stopping
      /\ attempt' = [x \in Task |->
           IF x \in launched
           THEN [att[x] EXCEPT !.currentlyRunning = TRUE, !.lastAttemptAt = now]
           ELSE att[x]]
      /\ jobs' = [x \in Task |-> IF x \in launched THEN NewJob ELSE jobs[x]]
      /\ activeJobs' = [p \in Provider |->
           activeJobs[p] + Cardinality({x \in launched : SiteOf(x) = p})]
      /\ cooldownUntil' = [p \in Provider |->
           IF p \in Expired THEN None ELSE cooldownUntil[p]]
      /\ contextReady' = [p \in Provider |->
           p \notin Expired /\ contextReady[p]]
      /\ UNCHANGED <<now, lifeVars, catalog, consecutiveFailures, contextOpen,
                     failedAt>>

-----------------------------------------------------------------------------
(* A job and the operation it executes.                                    *)

Running(x) == jobs[x] # None /\ jobs[x].stage = "running"

\* Collected and validated, signal not fired: the commit point is passed and
\* the timeout cleared.  A list has left the collector a listing context.
BeginCommit(x) ==
  /\ Running(x)
  /\ ~ jobs[x].committing
  /\ jobs[x].abort = "no"
  /\ jobs' = [jobs EXCEPT ![x].committing = TRUE]
  /\ contextOpen' = IF IsList(x) THEN [contextOpen EXCEPT ![x] = TRUE]
                    ELSE contextOpen
  /\ UNCHANGED <<now, lifeVars, attempt, catalog, providerVars, failedAt>>

\* The finally block of launch().
EndJob(x) ==
  /\ jobs' = [jobs EXCEPT ![x] = None]
  /\ activeJobs' = [activeJobs EXCEPT ![SiteOf(x)] = @ - 1]

\* The attempt a success leaves behind; next is its next run, drawn its jitter.
Succeeded(a, next, drawn) ==
  [a EXCEPT !.failureCount = 0, !.nextRunAt = next, !.jitter = drawn,
            !.currentlyRunning = FALSE]

SucceedList(p) ==
  /\ Running(p) /\ IsList(p) /\ jobs[p].committing
  /\ \E listing \in Listing(p), draw \in [EventsOf(p) -> Jitter], drawn \in Jitter :
       LET att == Reconciled(attempt, catalog, p, listing, draw)
       IN  attempt' = [att EXCEPT ![p] =
             Succeeded(@, attempt[p].lastAttemptAt + ListInterval, drawn)]
           /\ catalog' = [e \in Event |->
                IF e \in EventsOf(p) THEN listing[e] ELSE catalog[e]]
  /\ contextReady' = [contextReady EXCEPT ![p] = TRUE]
  /\ consecutiveFailures' = [consecutiveFailures EXCEPT ![p] = 0]
  /\ cooldownUntil' = [cooldownUntil EXCEPT ![p] = None]
  /\ EndJob(p)
  /\ UNCHANGED <<now, lifeVars, contextOpen, failedAt>>

SucceedDetail(e) ==
  LET interval == getDetailInterval(catalog[e].startsAt, now)
      next == IF interval = None THEN None
              ELSE attempt[e].lastAttemptAt + interval
  IN  /\ Running(e) /\ ~ IsList(e) /\ jobs[e].committing
      /\ \E drawn \in Jitter :
           attempt' = [attempt EXCEPT ![e] = Succeeded(@, next, drawn)]
      /\ consecutiveFailures' = [consecutiveFailures EXCEPT ![SiteOf(e)] = 0]
      /\ cooldownUntil' = [cooldownUntil EXCEPT ![SiteOf(e)] = None]
      /\ EndJob(e)
      /\ UNCHANGED <<now, lifeVars, catalog, contextReady, contextOpen, failedAt>>

\* The detail collected shows the event live, in play or past its start: the
\* task stops, nothing is closed, and no failure is counted or forgiven.
EventStarted(e) ==
  /\ Running(e) /\ ~ IsList(e)
  /\ ~ jobs[e].committing /\ jobs[e].abort = "no"
  /\ attempt' = [attempt EXCEPT ![e].preGameStopped = TRUE,
                                ![e].nextRunAt = None,
                                ![e].currentlyRunning = FALSE]
  /\ EndJob(e)
  /\ UNCHANGED <<now, lifeVars, catalog, consecutiveFailures, cooldownUntil,
                 contextReady, contextOpen, failedAt>>

\* The operation's catch block closes the collector, and with it the listing
\* context, on these failures.
ClosesCollection(x, job) == IsList(x) \/ job.abort # "no" \/ job.transport

\* The scheduler decides again, later, from the same facts.
resetContext(x, job) == IsList(x) \/ job.abort # "no" \/ job.transport

\* The operation throws, before or after the commit point, with a transport
\* error or another; its catch block starts closing what must be closed.
OperationFails(x) ==
  /\ Running(x)
  /\ \E transport \in BOOLEAN :
       LET failed == [jobs[x] EXCEPT !.stage = "closing", !.transport = transport]
       IN  /\ jobs' = [jobs EXCEPT ![x] = failed]
           /\ contextOpen' =
                [contextOpen EXCEPT ![SiteOf(x)] = @ /\ ~ ClosesCollection(x, failed)]
  /\ UNCHANGED <<now, lifeVars, attempt, catalog, providerVars, failedAt>>

AtMost(n, bound) == IF n > bound THEN bound ELSE n

\* The catch block of launch(), once the operation and its cleanup are over.
CountFailure(x) ==
  LET p == SiteOf(x)
      count == AtMost(attempt[x].failureCount + 1, MaxFailures)
      inARow == AtMost(consecutiveFailures[p] + 1, MaxFailures)
      retryAt == now + backoff(count)
      reset == resetContext(x, jobs[x])
      listAt == IF attempt[p].nextRunAt # None /\ attempt[p].nextRunAt > retryAt
                THEN attempt[p].nextRunAt ELSE retryAt
  IN  /\ \E drawn \in Jitter :
           attempt' = [y \in Task |->
             IF y = x
             THEN [attempt[x] EXCEPT !.failureCount = count, !.jitter = drawn,
                     !.currentlyRunning = FALSE, !.nextRunAt = retryAt]
             ELSE IF y = p /\ reset
             THEN [attempt[p] EXCEPT !.nextRunAt = listAt]
             ELSE attempt[y]]
      /\ consecutiveFailures' = [consecutiveFailures EXCEPT ![p] = inARow]
      /\ contextReady' = [contextReady EXCEPT ![p] = @ /\ ~ reset]
      /\ cooldownUntil' = IF inARow >= FailureThreshold
                          THEN [cooldownUntil EXCEPT ![p] = now + Cooldown]
                          ELSE cooldownUntil
      /\ failedAt' = [failedAt EXCEPT ![x] = now]

\* A job aborted by shutdown leaves the accounts alone.
SettleFailure(x) ==
  /\ jobs[x] # None /\ jobs[x].stage = "closing"
  /\ \/ jobs[x].abort # "shutdown" /\ CountFailure(x)
     \/ /\ jobs[x].abort = "shutdown"
        /\ attempt' = [attempt EXCEPT ![x].currentlyRunning = FALSE]
        /\ UNCHANGED <<consecutiveFailures, contextReady, cooldownUntil, failedAt>>
  /\ EndJob(x)
  /\ UNCHANGED <<now, lifeVars, catalog, contextOpen>>

\* The timer armed at launch, cleared by beginCommit and by the end of the job.
TimeoutFires(x) ==
  /\ jobs[x] # None
  /\ ~ jobs[x].committing /\ jobs[x].abort = "no"
  /\ now >= attempt[x].lastAttemptAt
              + IF IsList(x) THEN ListTimeout ELSE DetailTimeout
  /\ jobs' = [jobs EXCEPT ![x].abort = "timeout"]
  /\ UNCHANGED <<now, lifeVars, attempt, catalog, providerVars, contextOpen,
                 failedAt>>

-----------------------------------------------------------------------------
(* stop().                                                                 *)

Stop ==
  /\ ~ stopping
  /\ stopping' = TRUE /\ enabled' = FALSE /\ stopPhase' = "grace"
  /\ UNCHANGED <<now, attempt, catalog, jobs, providerVars, contextOpen, failedAt>>

Abortable_EvenCommitting(x) == jobs[x] # None /\ jobs[x].abort = "no"

Abortable_OnlyLists(x) ==
  jobs[x] # None /\ IsList(x) /\ ~ jobs[x].committing /\ jobs[x].abort = "no"

\* Committing jobs are left to finish; a signal that fired keeps its reason.
Abortable(x) == jobs[x] # None /\ ~ jobs[x].committing /\ jobs[x].abort = "no"

\* The jobs have drained or the grace period is over.
GraceOver ==
  /\ stopPhase = "grace"
  /\ jobs' = [x \in Task |->
       IF Abortable(x) THEN [jobs[x] EXCEPT !.abort = "shutdown"] ELSE jobs[x]]
  /\ stopPhase' = "draining"
  /\ UNCHANGED <<now, enabled, stopping, attempt, catalog, providerVars,
                 contextOpen, failedAt>>

Drained == \A x \in Task : jobs[x] = None

StopReturns ==
  /\ stopPhase = "draining" /\ Drained
  /\ stopPhase' = "stopped"
  /\ UNCHANGED <<now, enabled, stopping, attempt, catalog, jobs, providerVars,
                 contextOpen, failedAt>>

-----------------------------------------------------------------------------

Settles(x) == SucceedList(x) \/ SucceedDetail(x) \/ OperationFails(x)

JobStep(x) ==
  BeginCommit(x) \/ Settles(x) \/ EventStarted(x) \/ SettleFailure(x)
    \/ TimeoutFires(x)

Next ==
  \/ Advance \/ Start \/ Tick \/ Stop \/ GraceOver \/ StopReturns
  \/ \E p \in Provider : RestoreCatalog(p)
  \/ \E x \in Task : JobStep(x)

Spec == Init /\ [][Next]_vars

\* The tick timer and stop() run on.  A collection may hang for as long as its
\* signal has not fired; an aborted one ends, cleanup ends, and so does a commit
\* (collectionStep races the signal; a publication is a bounded transaction).
Fairness ==
  /\ WF_vars(Tick) /\ WF_vars(GraceOver) /\ WF_vars(StopReturns)
  /\ \A x \in Task :
       /\ WF_vars(SettleFailure(x))
       /\ WF_vars(jobs[x] # None /\ jobs[x].committing /\ Settles(x))
       /\ WF_vars(jobs[x] # None /\ jobs[x].abort # "no" /\ OperationFails(x))

FairSpec == Spec /\ Fairness

-----------------------------------------------------------------------------
(* Properties.                                                             *)

Instant == Nat \cup {None}

AttemptState ==
  [lastAttemptAt : Instant, nextRunAt : Instant, failureCount : Nat,
   currentlyRunning : BOOLEAN, jitter : Nat, preGameStopped : BOOLEAN]

TypeOK ==
  /\ now \in Nat
  /\ enabled \in BOOLEAN /\ stopping \in BOOLEAN
  /\ stopPhase \in {"no", "grace", "draining", "stopped"}
  /\ attempt \in [Task -> AttemptState]
  /\ catalog \in [Event -> Listed \cup {None}]
  /\ jobs \in [Task -> Job \cup {None}]
  /\ consecutiveFailures \in [Provider -> Nat]
  /\ cooldownUntil \in [Provider -> Instant]
  /\ contextReady \in [Provider -> BOOLEAN]
  /\ activeJobs \in [Provider -> Nat]
  /\ contextOpen \in [Provider -> BOOLEAN]
  /\ failedAt \in [Task -> Instant]

\* Work that passed its commit point is never aborted, and work whose signal
\* fired never passes it, whatever the order of timeout, shutdown and commit.
CommittedIsNeverAborted ==
  \A x \in Task : jobs[x] # None /\ jobs[x].committing => jobs[x].abort = "no"

\* An eligible detail with no failure on record always has a next run, through
\* restarts, removals, pre-game stops and moved starts.
UnfailedDetailIsScheduled ==
  \A e \in Event :
    /\ catalog[e] # None
    /\ ~ attempt[e].preGameStopped /\ ~ attempt[e].currentlyRunning
    /\ attempt[e].failureCount = 0
    /\ Eligible(catalog[e])
    => attempt[e].nextRunAt # None

Launched(x) == jobs[x] = None /\ jobs'[x] # None

\* Whichever task is due: after a restart, a cooldown or a failure that cost the
\* collector its listing context no detail runs before a discovery; a failed
\* detail waits out its backoff however often the agenda is recalculated or its
\* start moves; a provider at its threshold runs nothing within the cooldown of
\* its last failure, whichever task failed.
NothingRunsTooSoon ==
  [][\A x \in Task : Launched(x) =>
       /\ ~ IsList(x) => contextOpen[SiteOf(x)]
       /\ ~ IsList(x) /\ attempt[x].failureCount > 0 =>
            now >= failedAt[x] + backoff(attempt[x].failureCount)
       /\ consecutiveFailures[SiteOf(x)] >= FailureThreshold =>
            \A y \in Task : SiteOf(y) = SiteOf(x) /\ failedAt[y] # None =>
              now >= failedAt[y] + Cooldown]_vars

\* Shutdown ends, though collections may hang until they are aborted.
StopCompletes == stopping ~> stopPhase = "stopped"

CooldownOver(p) == cooldownUntil[p] # None /\ now >= cooldownUntil[p]

\* Unless shutdown comes first, a cooldown that is over is followed by a probe:
\* a listing is launched, whenever the backoff of the failures put the next one,
\* and no cooldown is lifted without it.
CooldownEnds ==
  /\ \A p \in Provider : CooldownOver(p) ~> stopping \/ jobs[p] # None
  /\ [][\A p \in Provider :
          cooldownUntil[p] # None /\ cooldownUntil'[p] = None => Launched(p)]_vars

\* docs/COLLECTION.md:33: "Uma mudança futura de startsAt permite reavaliar
\* parada anterior": a stopped detail whose start moves to the future is put
\* back on the agenda.  recalculate does so only when no failure is on record.
MovedStartReschedules ==
  [][\A e \in Event :
       /\ catalog[e] # None /\ catalog'[e] # None
       /\ catalog'[e].startsAt # catalog[e].startsAt
       /\ attempt[e].preGameStopped
       /\ catalog'[e].open
       /\ getDetailInterval(catalog'[e].startsAt, now) # None
       => attempt'[e].nextRunAt # None]_catalog
=============================================================================
