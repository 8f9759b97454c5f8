----------------------- MODULE AdaptiveSchedulerProofs -----------------------
(***************************************************************************)
(* Proofs about AdaptiveScheduler, for every set of providers and events,  *)
(* every interval, timeout and backoff table, and an unbounded clock.      *)
(*                                                                         *)
(* The inductive invariant IInv says why a launch is never early:          *)
(*   JobInv       a provider has at most one job, and it is counted;       *)
(*   SignalInv    a committing job has no fired signal;                    *)
(*   ContextInv   a provider marked ready has its listing context, unless  *)
(*                shutdown began or the job that lost it is still closing; *)
(*   BackoffInv   a failed detail's next run is past its backoff;          *)
(*   CooldownInv  a provider at its threshold is cooling down from its     *)
(*                last failure, or that cooldown is over;                  *)
(*   AgendaInv    an eligible unfailed detail has a next run.              *)
(* Each action has a lemma that it preserves IInv; EndStep, ContextStep    *)
(* and FrameStep hold what several of them share.                          *)
(***************************************************************************)
EXTENDS AdaptiveScheduler, TLAPS, WellFoundedInduction, FiniteSetTheorems

JobInv ==
  /\ \A x, y \in Task :
       jobs[x] # None /\ jobs[y] # None /\ SiteOf(x) = SiteOf(y) => x = y
  /\ \A x \in Task : jobs[x] # None =>
       /\ activeJobs[SiteOf(x)] >= 1
       /\ attempt[x].lastAttemptAt # None
       /\ x \in Event => catalog[x] # None

SignalInv ==
  /\ stopping => ~ enabled
  /\ stopPhase # "no" => stopping
  /\ \A x \in Task : jobs[x] # None =>
       /\ jobs[x].committing => jobs[x].abort = "no"
       /\ jobs[x].abort = "shutdown" => stopping

\* The failure that closed p's context is still to be accounted for.
ClosingFor(x) ==
  jobs[x] # None /\ jobs[x].stage = "closing" /\ resetContext(x, jobs[x])

ContextInv ==
  /\ \A p \in Provider : Running(p) /\ jobs[p].committing => contextOpen[p]
  /\ \A p \in Provider : contextReady[p] =>
       contextOpen[p] \/ stopping \/ \E x \in Task : SiteOf(x) = p /\ ClosingFor(x)

\* What a failed detail's next run owes to its failure.
WaitsOut(a, failed) ==
  a.failureCount > 0 /\ a.nextRunAt # None =>
    failed # None /\ a.nextRunAt >= failed + backoff(a.failureCount)

BackoffInv == \A e \in Event : WaitsOut(attempt[e], failedAt[e])

CooldownInv ==
  \A x \in Task : failedAt[x] # None =>
    /\ failedAt[x] <= now
    /\ consecutiveFailures[SiteOf(x)] >= FailureThreshold =>
         failedAt[x] + Cooldown <=
           IF cooldownUntil[SiteOf(x)] = None THEN now ELSE cooldownUntil[SiteOf(x)]

OnAgenda(a, listed) ==
  /\ listed # None /\ ~ a.preGameStopped /\ a.failureCount = 0 /\ Eligible(listed)
  => a.nextRunAt # None

AgendaInv == \A e \in Event : OnAgenda(attempt[e], catalog[e])

IInv ==
  TypeOK /\ JobInv /\ SignalInv /\ ContextInv /\ BackoffInv /\ CooldownInv /\ AgendaInv

-----------------------------------------------------------------------------
(* Constants and the pure rules.                                           *)

LEMMA NoneIsNoInstant == \A n \in Nat : n # None
  BY PolicyAssumption

LEMMA SiteType == \A x \in Task : SiteOf(x) \in Provider
  BY SchedulerAssumption DEF Task, SiteOf, IsList

LEMMA EventIsNoList == \A e \in Event : ~ IsList(e) /\ SiteOf(e) = ProviderOf[e]
  BY SchedulerAssumption DEF SiteOf, IsList

LEMMA ProviderIsList == \A p \in Provider : p \in Task /\ IsList(p) /\ SiteOf(p) = p
  BY DEF Task, SiteOf, IsList

LEMMA IntervalType ==
  ASSUME NEW startsAt \in Nat, NEW t \in Nat
  PROVE /\ getDetailInterval(startsAt, t) \in Instant
        /\ getDetailInterval(startsAt, t) # None <=> startsAt > t
<1>1. \A k \in {"gt24h", "h6to24", "h1to6", "lt1h"} : DetailIntervals[k] \in Nat
  BY PolicyAssumption
<1>2. startsAt - t \in Int /\ Hour \in Nat \ {0}
  BY PolicyAssumption
<1>3. CASE startsAt - t <= 0
  BY <1>3, <1>2 DEF getDetailInterval, Instant
<1>4. CASE startsAt - t > 0
  <2>1. getDetailInterval(startsAt, t) \in
          {DetailIntervals[k] : k \in {"gt24h", "h6to24", "h1to6", "lt1h"}}
    BY <1>4, <1>2 DEF getDetailInterval
  <2> QED
    BY <2>1, <1>1, <1>4, NoneIsNoInstant DEF Instant
<1> QED
  BY <1>2, <1>3, <1>4

LEMMA BackoffType == \A n \in Nat : backoff(n) \in Nat
  BY PolicyAssumption DEF backoff

LEMMA NextDetailRunType ==
  ASSUME NEW a \in AttemptState, NEW listed \in Listed, now \in Nat,
         Eligible(listed)
  PROVE NextDetailRun(a, listed) \in Nat
<1>1. getDetailInterval(listed.startsAt, now) \in Nat
  BY IntervalType, SchedulerAssumption DEF Eligible, Listed, Instant
<1> QED
  BY <1>1 DEF NextDetailRun, AttemptState, Instant

\* Recalculation changes the next run of catalogued details and nothing else.
LEMMA RecalculateFacts ==
  ASSUME NEW att \in [Task -> AttemptState], NEW cat \in [Event -> Listed \cup {None}],
         now \in Nat
  PROVE /\ recalculate(att, cat) \in [Task -> AttemptState]
        /\ \A p \in Provider : recalculate(att, cat)[p] = att[p]
        /\ \A e \in Event :
             LET r == recalculate(att, cat)[e] IN
             /\ r.failureCount = att[e].failureCount
             /\ r.lastAttemptAt = att[e].lastAttemptAt
             /\ r.nextRunAt # None /\ r.failureCount > 0 =>
                  r.nextRunAt = att[e].nextRunAt
             /\ OnAgenda(r, cat[e])
<1> DEFINE r == recalculate(att, cat)
<1>1. ASSUME NEW p \in Provider PROVE r[p] = att[p]
  BY <1>1, ProviderIsList DEF recalculate
<1>2. ASSUME NEW e \in Event
      PROVE /\ r[e] \in AttemptState
            /\ r[e].failureCount = att[e].failureCount
            /\ r[e].lastAttemptAt = att[e].lastAttemptAt
            /\ r[e].nextRunAt # None /\ r[e].failureCount > 0 =>
                 r[e].nextRunAt = att[e].nextRunAt
            /\ OnAgenda(r[e], cat[e])
  <2>0. e \in Task /\ ~ IsList(e) /\ att[e] \in AttemptState
    BY EventIsNoList DEF Task
  <2>1. CASE cat[e] = None
    BY <2>0, <2>1 DEF recalculate, OnAgenda
  <2>2. CASE cat[e] # None /\ (att[e].preGameStopped \/ ~ Eligible(cat[e]))
    <3>1. r[e] = [att[e] EXCEPT !.nextRunAt = None]
      BY <2>0, <2>2 DEF recalculate
    <3> QED
      BY <2>0, <2>2, <3>1 DEF OnAgenda, AttemptState, Instant
  <2>3. CASE cat[e] # None /\ ~ att[e].preGameStopped /\ Eligible(cat[e])
    <3>1. CASE att[e].failureCount = 0
      <4>1. r[e] = [att[e] EXCEPT !.nextRunAt = NextDetailRun(att[e], cat[e])]
        BY <2>0, <2>3, <3>1 DEF recalculate
      <4>2. NextDetailRun(att[e], cat[e]) \in Nat
        BY <2>0, <2>3, NextDetailRunType
      <4> QED
        BY <2>0, <3>1, <4>1, <4>2, NoneIsNoInstant DEF OnAgenda, AttemptState, Instant
    <3>2. CASE att[e].failureCount # 0
      <4>1. r[e] = att[e]
        BY <2>0, <2>3, <3>2 DEF recalculate
      <4> QED
        BY <2>0, <3>2, <4>1 DEF OnAgenda
    <3> QED
      BY <3>1, <3>2
  <2> QED
    BY <2>1, <2>2, <2>3
<1>3. r \in [Task -> AttemptState]
  <2>1. r = [x \in Task |-> r[x]]
    BY DEF recalculate
  <2> QED
    BY <2>1, <1>1, <1>2 DEF Task
<1> QED
  BY <1>1, <1>2, <1>3

\* What reconciling a listing makes of the agenda, r with the catalog cat.
Relisted(p, r, cat) ==
  /\ r \in [Task -> AttemptState]
  /\ cat \in [Event -> Listed \cup {None}]
  /\ \A q \in Provider : r[q] = attempt[q]
  /\ \A e \in Event :
       /\ OnAgenda(r[e], cat[e])
       /\ \A failed : WaitsOut(attempt[e], failed) => WaitsOut(r[e], failed)
       /\ e \notin EventsOf(p) =>
            r[e].lastAttemptAt = attempt[e].lastAttemptAt /\ cat[e] = catalog[e]

LEMMA ReconciledFacts ==
  ASSUME TypeOK, NEW p \in Provider, NEW listing \in Listing(p),
         NEW draw \in [EventsOf(p) -> Jitter],
         NEW cat, cat = [e \in Event |->
                           IF e \in EventsOf(p) THEN listing[e] ELSE catalog[e]]
  PROVE Relisted(p, Reconciled(attempt, catalog, p, listing, draw), cat)
<1> DEFINE seen(e) ==
             IF listing[e] = None THEN FreshAttempt
             ELSE IF catalog[e] = None THEN [FreshAttempt EXCEPT !.jitter = draw[e]]
             ELSE IF catalog[e].startsAt # listing[e].startsAt
             THEN [attempt[e] EXCEPT !.preGameStopped = FALSE]
             ELSE attempt[e]
           m == [x \in Task |-> IF x \in EventsOf(p) THEN seen(x) ELSE attempt[x]]
           r == Reconciled(attempt, catalog, p, listing, draw)
<1>1. r = recalculate(m, cat)
  BY DEF Reconciled
<1>2. cat \in [Event -> Listed \cup {None}]
  BY DEF Listing, TypeOK, EventsOf
<1>3. \A e \in Event : e \in Task /\ attempt[e] \in AttemptState
  BY DEF TypeOK, Task
<1>4. FreshAttempt \in AttemptState /\ FreshAttempt.failureCount = 0
  BY DEF FreshAttempt, AttemptState, Instant
<1>5. ASSUME NEW e \in EventsOf(p)
      PROVE /\ m[e] \in AttemptState
            /\ \/ m[e].failureCount = 0
               \/ /\ m[e].failureCount = attempt[e].failureCount
                  /\ m[e].nextRunAt = attempt[e].nextRunAt
  <2>1. e \in Event /\ m[e] = seen(e) /\ draw[e] \in Nat
    BY <1>3, SchedulerAssumption DEF EventsOf
  <2>0. attempt[e] \in AttemptState
    BY <1>3, <2>1
  <2> HIDE DEF m
  <2>2. CASE m[e] = FreshAttempt
    BY <1>4, <2>2
  <2>3. CASE m[e] = [FreshAttempt EXCEPT !.jitter = draw[e]]
    BY <1>4, <2>1, <2>3 DEF AttemptState
  <2>4. CASE m[e] = [attempt[e] EXCEPT !.preGameStopped = FALSE]
    BY <2>0, <2>4 DEF AttemptState
  <2>5. CASE m[e] = attempt[e]
    BY <2>0, <2>5
  <2> QED
    BY <2>1, <2>2, <2>3, <2>4, <2>5
<1>6. m \in [Task -> AttemptState]
  BY <1>5 DEF TypeOK
<1>7. /\ r \in [Task -> AttemptState]
      /\ \A q \in Provider : r[q] = m[q]
      /\ \A e \in Event :
           /\ r[e].failureCount = m[e].failureCount
           /\ r[e].lastAttemptAt = m[e].lastAttemptAt
           /\ r[e].nextRunAt # None /\ r[e].failureCount > 0 =>
                r[e].nextRunAt = m[e].nextRunAt
           /\ OnAgenda(r[e], cat[e])
  <2>1. now \in Nat
    BY DEF TypeOK
  <2> HIDE DEF m, r
  <2> QED
    BY <1>1, <1>2, <1>6, <2>1, RecalculateFacts
<1>8. \A q \in Provider : m[q] = attempt[q]
  BY ProviderIsList, SchedulerAssumption DEF EventsOf
<1>9. ASSUME NEW e \in Event
      PROVE /\ \A failed : WaitsOut(attempt[e], failed) => WaitsOut(r[e], failed)
            /\ e \notin EventsOf(p) =>
                 r[e].lastAttemptAt = attempt[e].lastAttemptAt /\ cat[e] = catalog[e]
  <2>1. CASE e \in EventsOf(p)
    <3>1. ASSUME r[e].failureCount > 0, r[e].nextRunAt # None
          PROVE /\ r[e].failureCount = attempt[e].failureCount
                /\ r[e].nextRunAt = attempt[e].nextRunAt
      <4> HIDE DEF m, r
      <4> QED
        BY <2>1, <3>1, <1>5, <1>7
    <3> HIDE DEF m, r
    <3> QED
      BY <2>1, <3>1 DEF WaitsOut
  <2>2. CASE e \notin EventsOf(p)
    <3>1. m[e] = attempt[e] /\ cat[e] = catalog[e]
      BY <2>2, <1>3
    <3> HIDE DEF m, r
    <3> QED
      BY <2>2, <3>1, <1>7 DEF WaitsOut
  <2> QED
    BY <2>1, <2>2
<1> QED
  <2> HIDE DEF m, r
  <2> QED
    BY <1>2, <1>7, <1>8, <1>9 DEF r, Relisted

\* A nonempty set of catalogued events has an earliest one.
LEMMA EarliestExists ==
  ASSUME NEW T \in SUBSET Event, T # {}, NEW at \in [T -> Nat]
  PROVE \E e \in T : \A f \in T : at[e] <= at[f]
<1> DEFINE S == {at[e] : e \in T}
<1>1. S \subseteq Nat /\ S # {}
  OBVIOUS
<1>2. PICK n \in S : \A k \in S : ~ (<<k, n>> \in OpToRel(<, Nat))
  <2> HIDE DEF S
  <2> QED
    BY <1>1, NatLessThanWellFounded, WFMin
<1>3. \A k \in S : ~ (k < n)
  BY <1>1, <1>2 DEF OpToRel
<1>4. PICK e \in T : n = at[e]
  OBVIOUS
<1>5. \A f \in T : at[f] \in S /\ at[f] \in Nat /\ at[e] \in Nat
  OBVIOUS
<1>6. \A f \in T : at[e] <= at[f]
  <2> HIDE DEF S
  <2> QED
    BY <1>3, <1>4, <1>5
<1> QED
  BY <1>6

\* What a tick knows of a task it chooses.
LEMMA ChosenFacts ==
  ASSUME TypeOK, JobInv, NEW att, att = Probed(recalculate(attempt, catalog)),
         NEW p \in Provider, NEW x \in Chosen(p, att)
  PROVE /\ x \in Task /\ SiteOf(x) = p
        /\ Chosen(p, att) = {x}
        /\ Available(p) /\ activeJobs[p] = 0
        /\ due(att[x])
        /\ ~ IsList(x) =>
             x \in Event /\ catalog[x] # None /\ contextReady[p] /\ p \notin Expired
<1>1. Available(p) /\ activeJobs[p] = 0
  BY DEF Chosen, Available, TypeOK
<1>2. CASE due(att[p])
  BY <1>1, <1>2, ProviderIsList DEF Chosen
<1>3. CASE ~ due(att[p])
  <2> DEFINE D == {e \in EventsOf(p) : catalog[e] # None /\ due(att[e])}
             first == {e \in D : \A f \in D : catalog[e].startsAt <= catalog[f].startsAt}
  <2>1. /\ Chosen(p, att) = NextDetail(p, att)
        /\ contextReady[p] /\ p \notin Expired
    BY <1>1, <1>3 DEF Chosen
  <2>2. D # {} /\ NextDetail(p, att) = {CHOOSE e \in first : TRUE}
    BY <2>1 DEF NextDetail
  <2>3. first # {}
    <3> DEFINE at == [e \in D |-> catalog[e].startsAt]
    <3>1. at \in [D -> Nat] /\ D \subseteq Event
      BY SchedulerAssumption DEF TypeOK, Listed, EventsOf
    <3>2. PICK e \in D : \A f \in D : at[e] <= at[f]
      <4> HIDE DEF D, at
      <4> QED
        BY <2>2, <3>1, EarliestExists
    <3> QED
      BY <3>2
  <2>4. x \in first
    BY <2>1, <2>2, <2>3
  <2>5. x \in Event /\ SiteOf(x) = p /\ ~ IsList(x)
    BY <2>4, EventIsNoList DEF EventsOf
  <2> QED
    BY <1>1, <2>1, <2>2, <2>4, <2>5 DEF Task
<1> QED
  BY <1>2, <1>3

LEMMA ProbedFacts ==
  ASSUME TypeOK, NEW att \in [Task -> AttemptState]
  PROVE /\ Probed(att) \in [Task -> AttemptState]
        /\ \A e \in Event : Probed(att)[e] = att[e]
        /\ \A x \in Task : Probed(att)[x].lastAttemptAt = att[x].lastAttemptAt
<1>1. ASSUME NEW x \in Task
      PROVE /\ Probed(att)[x] \in AttemptState
            /\ Probed(att)[x].lastAttemptAt = att[x].lastAttemptAt
            /\ x \in Event => Probed(att)[x] = att[x]
  <2>1. CASE x \in Expired
    <3>1. Probed(att)[x] = [att[x] EXCEPT !.nextRunAt = now, !.jitter = 0]
      BY <2>1 DEF Probed
    <3>2. x \notin Event
      BY <2>1, SchedulerAssumption DEF Expired
    <3>3. now \in Nat /\ att[x] \in AttemptState
      BY DEF TypeOK
    <3>4. ASSUME NEW a \in AttemptState, NEW b,
                 b = [a EXCEPT !.nextRunAt = now, !.jitter = 0]
          PROVE b \in AttemptState /\ b.lastAttemptAt = a.lastAttemptAt
      BY <3>3, <3>4 DEF AttemptState, Instant
    <3> QED
      BY <3>1, <3>2, <3>3, <3>4
  <2>2. CASE x \notin Expired
    BY <2>2 DEF Probed
  <2> QED
    BY <2>1, <2>2
<1>2. Probed(att) = [x \in Task |-> Probed(att)[x]]
  BY DEF Probed
<1> QED
  BY <1>1, <1>2 DEF Task

\* The attempts a tick launches from: those of before, recalculated and probed.
LEMMA TickAttempts ==
  ASSUME TypeOK, NEW att, att = Probed(recalculate(attempt, catalog))
  PROVE /\ att \in [Task -> AttemptState]
        /\ \A e \in Event :
             /\ att[e].failureCount = attempt[e].failureCount
             /\ att[e].nextRunAt # None /\ att[e].failureCount > 0 =>
                  att[e].nextRunAt = attempt[e].nextRunAt
             /\ OnAgenda(att[e], catalog[e])
        /\ \A x \in Task : att[x].lastAttemptAt = attempt[x].lastAttemptAt
<1> DEFINE r == recalculate(attempt, catalog)
<1>1. /\ r \in [Task -> AttemptState]
      /\ \A p \in Provider : r[p] = attempt[p]
      /\ \A e \in Event :
           /\ r[e].failureCount = attempt[e].failureCount
           /\ r[e].lastAttemptAt = attempt[e].lastAttemptAt
           /\ r[e].nextRunAt # None /\ r[e].failureCount > 0 =>
                r[e].nextRunAt = attempt[e].nextRunAt
           /\ OnAgenda(r[e], catalog[e])
  BY RecalculateFacts DEF TypeOK
<1>2. /\ att \in [Task -> AttemptState]
      /\ \A e \in Event : att[e] = r[e]
      /\ \A x \in Task : att[x].lastAttemptAt = r[x].lastAttemptAt
  BY <1>1, ProbedFacts
<1> HIDE DEF r
<1> QED
  BY <1>1, <1>2 DEF Task

LEMMA TickStep == ASSUME IInv, Tick PROVE IInv'
<1> DEFINE att == Probed(recalculate(attempt, catalog))
           launched == UNION {Chosen(p, att) : p \in Provider}
<1> USE DEF IInv
<1>0. now \in Nat /\ now # None
  BY NoneIsNoInstant DEF TypeOK
<1>1. /\ att \in [Task -> AttemptState]
      /\ \A e \in Event :
           /\ att[e].failureCount = attempt[e].failureCount
           /\ att[e].nextRunAt # None /\ att[e].failureCount > 0 =>
                att[e].nextRunAt = attempt[e].nextRunAt
           /\ OnAgenda(att[e], catalog[e])
      /\ \A x \in Task : att[x].lastAttemptAt = attempt[x].lastAttemptAt
  BY TickAttempts
<1>2. \A p \in Provider : \A x \in Chosen(p, att) :
        /\ x \in Task /\ SiteOf(x) = p /\ Chosen(p, att) = {x}
        /\ Available(p) /\ activeJobs[p] = 0
        /\ x \in Event => catalog[x] # None
  BY ChosenFacts, EventIsNoList
<1>3. /\ attempt' = [x \in Task |->
           IF x \in launched
           THEN [att[x] EXCEPT !.currentlyRunning = TRUE, !.lastAttemptAt = now]
           ELSE att[x]]
      /\ jobs' = [x \in Task |-> IF x \in launched THEN NewJob ELSE jobs[x]]
      /\ activeJobs' = [p \in Provider |->
           activeJobs[p] + Cardinality({x \in launched : SiteOf(x) = p})]
      /\ cooldownUntil' = [p \in Provider |->
           IF p \in Expired THEN None ELSE cooldownUntil[p]]
      /\ contextReady' = [p \in Provider |-> p \notin Expired /\ contextReady[p]]
      /\ UNCHANGED <<now, enabled, stopping, stopPhase, catalog,
                     consecutiveFailures, contextOpen, failedAt>>
      /\ enabled /\ ~ stopping
  BY DEF Tick, lifeVars
<1>4. /\ \A x \in Task : x \in launched <=> x \in Chosen(SiteOf(x), att)
      /\ \A x \in launched : x \in Task
  <2> HIDE DEF att
  <2> QED
    BY <1>2, SiteType
<1>5. \A p \in Provider :
        \/ /\ {x \in launched : SiteOf(x) = p} = {}
           /\ activeJobs'[p] = activeJobs[p]
        \/ \E x \in launched : SiteOf(x) = p /\ activeJobs'[p] = 1
  <2> SUFFICES ASSUME NEW p \in Provider
               PROVE \/ /\ {x \in launched : SiteOf(x) = p} = {}
                        /\ activeJobs'[p] = activeJobs[p]
                     \/ \E x \in launched : SiteOf(x) = p /\ activeJobs'[p] = 1
    OBVIOUS
  <2> DEFINE L == {x \in launched : SiteOf(x) = p}
  <2>1. activeJobs'[p] = activeJobs[p] + Cardinality(L) /\ activeJobs[p] \in Nat
    <3> HIDE DEF launched
    <3> QED
      BY <1>3 DEF TypeOK
  <2>2. CASE L = {}
    <3>1. Cardinality(L) = 0
      BY <2>2, FS_EmptySet
    <3> QED
      BY <2>1, <2>2, <3>1
  <2>3. ASSUME NEW x \in L PROVE activeJobs'[p] = 1
    <3>1. L = {x} /\ activeJobs[p] = 0
      <4> HIDE DEF att
      <4> QED
        BY <1>2, <1>4
    <3>2. Cardinality(L) = 1
      BY <3>1, FS_Singleton
    <3> QED
      BY <2>1, <3>1, <3>2
  <2> QED
    BY <2>2, <2>3
<1>6. \A x \in Task :
        /\ attempt'[x] = IF x \in launched
                         THEN [att[x] EXCEPT !.currentlyRunning = TRUE,
                                             !.lastAttemptAt = now]
                         ELSE att[x]
        /\ jobs'[x] = IF x \in launched THEN NewJob ELSE jobs[x]
        /\ x \in launched => jobs[x] = None
  <2>1. ASSUME NEW x \in launched PROVE jobs[x] = None
    <3>1. x \in Task /\ activeJobs[SiteOf(x)] = 0
      <4> HIDE DEF att
      <4> QED
        BY <1>2, <1>4
    <3> QED
      BY <3>1 DEF JobInv
  <2> HIDE DEF att, launched
  <2> QED
    BY <1>3, <2>1
<1>7. \A x \in Task :
        /\ attempt'[x] \in AttemptState
        /\ attempt'[x].failureCount = att[x].failureCount
        /\ attempt'[x].nextRunAt = att[x].nextRunAt
        /\ attempt'[x].preGameStopped = att[x].preGameStopped
        /\ attempt'[x].lastAttemptAt = IF x \in launched THEN now
                                       ELSE attempt[x].lastAttemptAt
  <2> HIDE DEF att, launched
  <2> SUFFICES ASSUME NEW x \in Task
               PROVE /\ attempt'[x] \in AttemptState
                     /\ attempt'[x].failureCount = att[x].failureCount
                     /\ attempt'[x].nextRunAt = att[x].nextRunAt
                     /\ attempt'[x].preGameStopped = att[x].preGameStopped
                     /\ attempt'[x].lastAttemptAt = IF x \in launched THEN now
                                                    ELSE attempt[x].lastAttemptAt
    OBVIOUS
  <2>1. att[x] \in AttemptState /\ att[x].lastAttemptAt = attempt[x].lastAttemptAt
    BY <1>0, <1>1
  <2>2. CASE x \in launched
    <3>1. attempt'[x] = [att[x] EXCEPT !.currentlyRunning = TRUE, !.lastAttemptAt = now]
      BY <1>6, <2>2
    <3> QED
      BY <1>0, <2>1, <2>2, <3>1 DEF AttemptState, Instant
  <2>3. CASE x \notin launched
    <3>1. attempt'[x] = att[x]
      BY <1>6, <2>3
    <3> QED
      BY <2>1, <2>3, <3>1
  <2> QED
    BY <2>2, <2>3
<1>8. \A x \in Task : x \in launched => activeJobs'[SiteOf(x)] = 1
  <2> HIDE DEF launched
  <2> QED
    BY <1>5, <1>4, SiteType
<1>9. \A p \in Provider : activeJobs'[p] \in Nat /\ activeJobs'[p] >= activeJobs[p]
  <2> SUFFICES ASSUME NEW p \in Provider
               PROVE activeJobs'[p] \in Nat /\ activeJobs'[p] >= activeJobs[p]
    OBVIOUS
  <2>1. CASE activeJobs'[p] = activeJobs[p]
    BY <2>1 DEF TypeOK
  <2>2. ASSUME NEW x \in launched, SiteOf(x) = p, activeJobs'[p] = 1
        PROVE activeJobs'[p] >= activeJobs[p]
    <3>1. activeJobs[p] = 0
      <4> HIDE DEF att
      <4> QED
        BY <2>2, <1>2
    <3> QED
      BY <2>2, <3>1
  <2> HIDE DEF launched
  <2> QED
    BY <2>1, <2>2, <1>5
<1>f1. /\ UNCHANGED <<now, enabled, stopping, catalog, contextOpen, failedAt>>
       /\ enabled /\ ~ stopping
  BY <1>3
<1>f0. UNCHANGED stopPhase
  BY <1>3
<1>f2. \A x \in Task : jobs[x] # None =>
         /\ activeJobs[SiteOf(x)] >= 1 /\ activeJobs[SiteOf(x)] \in Nat
         /\ attempt[x].lastAttemptAt # None
         /\ x \in Event => catalog[x] # None
  BY SiteType DEF JobInv, TypeOK
<1>f3. \A x \in launched :
         /\ x \in Task /\ activeJobs[SiteOf(x)] = 0 /\ Chosen(SiteOf(x), att) = {x}
         /\ x \in Event => catalog[x] # None
  <2> HIDE DEF att
  <2> QED
    BY <1>2, <1>4, SiteType
<1> HIDE DEF att, launched
<1>f4. \A x \in Task : x \in launched =>
         ~ jobs'[x].committing /\ jobs'[x].abort = "no" /\ jobs'[x].stage = "running"
  <2>1. ~ NewJob.committing /\ NewJob.abort = "no" /\ NewJob.stage = "running"
    BY DEF NewJob
  <2>2. \A x \in Task : x \in launched => jobs'[x] = NewJob
    BY <1>6
  <2> QED
    BY <2>1, <2>2
<1>a. TypeOK'
  <2>1. NewJob \in Job
    BY DEF NewJob, Job
  <2>2. attempt' \in [Task -> AttemptState]
    BY <1>3, <1>7
  <2>3. jobs' \in [Task -> Job \cup {None}]
    BY <1>3, <2>1 DEF TypeOK
  <2>4. activeJobs' \in [Provider -> Nat]
    BY <1>3, <1>9
  <2>5. cooldownUntil' \in [Provider -> Instant] /\ contextReady' \in [Provider -> BOOLEAN]
    BY <1>3 DEF TypeOK, Instant
  <2> QED
    BY <1>3, <2>2, <2>3, <2>4, <2>5 DEF TypeOK
<1>b. JobInv'
  <2>1. ASSUME NEW x \in Task, NEW y \in Task, jobs'[x] # None, jobs'[y] # None,
               SiteOf(x) = SiteOf(y)
        PROVE x = y
    <3>1. CASE x \in launched
      <4>1. jobs[y] = None
        BY <2>1, <3>1, <1>f2, <1>f3
      <4>2. y \in launched
        BY <2>1, <4>1, <1>6
      <4> QED
        BY <2>1, <3>1, <4>2, <1>4, <1>f3
    <3>2. CASE y \in launched
      <4>1. jobs[x] = None
        BY <2>1, <3>2, <1>f2, <1>f3
      <4>2. x \in launched
        BY <2>1, <4>1, <1>6
      <4> QED
        BY <2>1, <3>2, <4>2, <1>4, <1>f3
    <3>3. CASE x \notin launched /\ y \notin launched
      BY <2>1, <3>3, <1>6 DEF JobInv
    <3> QED
      BY <3>1, <3>2, <3>3
  <2>2. ASSUME NEW x \in Task, jobs'[x] # None
        PROVE /\ activeJobs'[SiteOf(x)] >= 1
              /\ attempt'[x].lastAttemptAt # None
              /\ x \in Event => catalog'[x] # None
    <3>1. CASE x \in launched
      BY <3>1, <1>0, <1>7, <1>8, <1>f1, <1>f3
    <3>2. CASE x \notin launched
      <4>1. jobs[x] # None
        BY <2>2, <3>2, <1>6
      <4> QED
        BY <3>2, <4>1, <1>7, <1>9, <1>f1, <1>f2, SiteType
    <3> QED
      BY <3>1, <3>2
  <2> QED
    BY <2>1, <2>2 DEF JobInv
<1>c. SignalInv'
  <2>1. \A x \in Task : x \in launched =>
          ~ jobs'[x].committing /\ jobs'[x].abort = "no"
    BY <1>f4
  <2> QED
    BY <1>6, <1>f0, <1>f1, <2>1 DEF SignalInv
<1>d. ContextInv'
  <2>1. \A x \in Task : x \in launched =>
          ~ jobs'[x].committing /\ jobs'[x].stage = "running"
    BY <1>f4
  <2>2. \A x \in Task : ClosingFor(x) => ClosingFor(x)'
    BY <1>6 DEF ClosingFor, resetContext
  <2>3. ASSUME NEW p \in Provider, Running(p)', jobs'[p].committing
        PROVE contextOpen'[p]
    <3>1. p \in Task /\ p \notin launched
      BY <2>1, <2>3, ProviderIsList
    <3> QED
      BY <2>3, <3>1, <1>3, <1>6 DEF ContextInv, Running
  <2>4. ASSUME NEW p \in Provider, contextReady'[p]
        PROVE \/ contextOpen'[p] \/ stopping'
              \/ \E x \in Task : SiteOf(x) = p /\ ClosingFor(x)'
    BY <2>2, <2>4, <1>3 DEF ContextInv
  <2> QED
    BY <2>3, <2>4 DEF ContextInv
<1>e. BackoffInv'
  <2> SUFFICES ASSUME NEW e \in Event PROVE WaitsOut(attempt'[e], failedAt'[e])
    BY DEF BackoffInv
  <2>1. WaitsOut(att[e], failedAt[e])
    <3>1. WaitsOut(attempt[e], failedAt[e])
      BY DEF BackoffInv
    <3>2. /\ att[e].failureCount = attempt[e].failureCount
          /\ att[e].nextRunAt # None /\ att[e].failureCount > 0 =>
               att[e].nextRunAt = attempt[e].nextRunAt
      BY <1>1
    <3> QED
      BY <3>1, <3>2 DEF WaitsOut
  <2>2. /\ attempt'[e].failureCount = att[e].failureCount
        /\ attempt'[e].nextRunAt = att[e].nextRunAt
    BY <1>7 DEF Task
  <2> QED
    BY <1>3, <2>1, <2>2 DEF WaitsOut
<1>f. CooldownInv'
  <2> SUFFICES ASSUME NEW x \in Task, failedAt[x] # None,
                      consecutiveFailures[SiteOf(x)] >= FailureThreshold
               PROVE failedAt[x] + Cooldown <=
                       IF cooldownUntil'[SiteOf(x)] = None THEN now
                       ELSE cooldownUntil'[SiteOf(x)]
    BY <1>3 DEF CooldownInv
  <2>1. SiteOf(x) \in Provider /\ failedAt[x] \in Nat /\ Cooldown \in Nat
    BY SiteType, SchedulerAssumption DEF TypeOK, Instant
  <2>2. CASE SiteOf(x) \in Expired
    <3>1. cooldownUntil[SiteOf(x)] \in Nat /\ now >= cooldownUntil[SiteOf(x)]
      BY <2>1, <2>2 DEF Expired, Available, TypeOK, Instant
    <3>2. failedAt[x] + Cooldown <= cooldownUntil[SiteOf(x)]
      BY <2>1, <3>1, NoneIsNoInstant DEF CooldownInv
    <3>3. cooldownUntil'[SiteOf(x)] = None
      BY <1>3, <2>1, <2>2
    <3> QED
      BY <1>0, <2>1, <3>1, <3>2, <3>3
  <2>3. CASE SiteOf(x) \notin Expired
    BY <1>3, <2>1, <2>3 DEF CooldownInv
  <2> QED
    BY <2>2, <2>3
<1>g. AgendaInv'
  <2>1. \A e \in Event :
          OnAgenda(attempt'[e], catalog[e]) <=> OnAgenda(att[e], catalog[e])
    BY <1>7 DEF OnAgenda, Task
  <2>2. \A e \in Event : OnAgenda(attempt'[e], catalog[e])
    BY <1>1, <2>1
  <2> QED
    BY <1>3, <2>2 DEF AgendaInv, OnAgenda, Eligible
<1> QED
  BY <1>a, <1>b, <1>c, <1>d, <1>e, <1>f, <1>g

-----------------------------------------------------------------------------
(* The other actions.                                                      *)

LEMMA AdvanceStep == ASSUME IInv, Advance PROVE IInv'
<1> USE DEF IInv, Advance, lifeVars, providerVars
<1>1. now' = now + 1 /\ now \in Nat
  BY DEF TypeOK
<1>a. TypeOK'
  BY <1>1 DEF TypeOK
<1>b. JobInv' /\ SignalInv' /\ BackoffInv'
  BY DEF JobInv, SignalInv, BackoffInv, WaitsOut
<1>c. ContextInv'
  BY DEF ContextInv, Running, ClosingFor
<1>d. CooldownInv'
  <2> SUFFICES ASSUME NEW x \in Task, failedAt[x] # None
               PROVE /\ failedAt[x] <= now'
                     /\ consecutiveFailures[SiteOf(x)] >= FailureThreshold =>
                          failedAt[x] + Cooldown <=
                            IF cooldownUntil[SiteOf(x)] = None THEN now'
                            ELSE cooldownUntil[SiteOf(x)]
    BY DEF CooldownInv
  <2>1. failedAt[x] \in Nat /\ Cooldown \in Nat
    BY SchedulerAssumption DEF TypeOK, Instant
  <2> QED
    BY <1>1, <2>1 DEF CooldownInv
<1>e. AgendaInv'
  <2> SUFFICES ASSUME NEW e \in Event, OnAgenda(attempt[e], catalog[e])
               PROVE OnAgenda(attempt[e], catalog[e])'
    BY DEF AgendaInv
  <2>1. CASE catalog[e] = None
    BY <2>1 DEF OnAgenda
  <2>2. CASE catalog[e] # None
    <3>1. catalog[e] \in Listed /\ catalog[e].startsAt \in Nat
      BY <2>2, SchedulerAssumption DEF TypeOK, Listed
    <3>2. getDetailInterval(catalog[e].startsAt, now + 1) # None =>
            getDetailInterval(catalog[e].startsAt, now) # None
      BY <1>1, <3>1, IntervalType
    <3> QED
      BY <1>1, <3>2 DEF OnAgenda, Eligible
  <2> QED
    BY <2>1, <2>2
<1> QED
  BY <1>a, <1>b, <1>c, <1>d, <1>e

LEMMA RestoreStep == ASSUME IInv, NEW p \in Provider, RestoreCatalog(p) PROVE IInv'
<1> USE DEF IInv
<1>1. PICK listing \in Listing(p), draw \in [EventsOf(p) -> Jitter] :
        /\ attempt' = Reconciled(attempt, catalog, p, listing, draw)
        /\ catalog' = [e \in Event |->
                         IF e \in EventsOf(p) THEN listing[e] ELSE catalog[e]]
  BY DEF RestoreCatalog
<1>2. /\ UNCHANGED <<now, enabled, stopping, stopPhase, jobs, consecutiveFailures,
                     cooldownUntil, contextReady, activeJobs, contextOpen, failedAt>>
      /\ \A x \in Task : jobs[x] = None
  BY DEF RestoreCatalog, lifeVars, providerVars
<1>3. /\ attempt' \in [Task -> AttemptState]
      /\ catalog' \in [Event -> Listed \cup {None}]
      /\ \A e \in Event :
           /\ OnAgenda(attempt'[e], catalog'[e])
           /\ \A failed : WaitsOut(attempt[e], failed) => WaitsOut(attempt'[e], failed)
  <2>1. Relisted(p, attempt', catalog')
    BY <1>1, ReconciledFacts
  <2> QED
    BY <2>1 DEF Relisted
<1>a. TypeOK'
  BY <1>2, <1>3 DEF TypeOK
<1>b. JobInv'
  BY <1>2 DEF JobInv
<1>c. SignalInv' /\ CooldownInv'
  BY <1>2 DEF SignalInv, CooldownInv
<1>d. ContextInv'
  BY <1>2 DEF ContextInv, Running, ClosingFor
<1>e. BackoffInv'
  BY <1>2, <1>3 DEF BackoffInv, WaitsOut
<1>f. AgendaInv'
  BY <1>2, <1>3 DEF AgendaInv, OnAgenda, Eligible
<1> QED
  BY <1>a, <1>b, <1>c, <1>d, <1>e, <1>f

LEMMA StartStep == ASSUME IInv, Start PROVE IInv'
<1> USE DEF IInv
<1>1. PICK draw \in [Provider -> Jitter] :
        attempt' = [x \in Task |->
          IF IsList(x)
          THEN [attempt[x] EXCEPT !.nextRunAt = now + StartupDelay, !.jitter = draw[x]]
          ELSE attempt[x]]
  BY DEF Start
<1>2. /\ UNCHANGED <<now, stopping, stopPhase, catalog, jobs, consecutiveFailures,
                     cooldownUntil, contextReady, activeJobs, contextOpen, failedAt>>
      /\ enabled' = TRUE /\ ~ stopping
  BY DEF Start, providerVars
<1>3. \A e \in Event : attempt'[e] = attempt[e]
  BY <1>1, EventIsNoList DEF Task
<1>4. ASSUME NEW x \in Task
      PROVE attempt'[x] \in AttemptState
            /\ attempt'[x].lastAttemptAt = attempt[x].lastAttemptAt
  <2>1. attempt[x] \in AttemptState /\ now + StartupDelay \in Nat
    BY SchedulerAssumption DEF TypeOK
  <2>2. CASE IsList(x)
    <3>1. draw[x] \in Nat
      BY <2>2, SchedulerAssumption DEF IsList
    <3>2. attempt'[x] =
            [attempt[x] EXCEPT !.nextRunAt = now + StartupDelay, !.jitter = draw[x]]
      BY <1>1, <2>2
    <3> QED
      BY <2>1, <3>1, <3>2 DEF AttemptState, Instant
  <2>3. CASE ~ IsList(x)
    BY <1>1, <2>1, <2>3
  <2> QED
    BY <2>2, <2>3
<1>a. TypeOK'
  <2>1. attempt' \in [Task -> AttemptState]
    BY <1>1, <1>4
  <2> QED
    BY <1>2, <2>1 DEF TypeOK
<1>b. JobInv'
  BY <1>2, <1>4 DEF JobInv
<1>c. SignalInv' /\ CooldownInv'
  BY <1>2 DEF SignalInv, CooldownInv
<1>d. ContextInv'
  BY <1>2 DEF ContextInv, Running, ClosingFor
<1>e. BackoffInv'
  BY <1>2, <1>3 DEF BackoffInv, WaitsOut
<1>f. AgendaInv'
  BY <1>2, <1>3 DEF AgendaInv, OnAgenda, Eligible
<1> QED
  BY <1>a, <1>b, <1>c, <1>d, <1>e, <1>f

\* Steps that change nothing but jobs, contexts and the life of the scheduler,
\* and leave every job where it was.
LEMMA FrameStep ==
  ASSUME IInv,
         UNCHANGED <<now, attempt, catalog, consecutiveFailures, cooldownUntil,
                     contextReady, activeJobs, failedAt>>,
         \A x \in Task : jobs'[x] # None => jobs[x] # None
  PROVE JobInv' /\ BackoffInv' /\ CooldownInv' /\ AgendaInv'
<1> USE DEF IInv
<1>1. JobInv'
  BY DEF JobInv
<1>2. BackoffInv' /\ CooldownInv'
  BY DEF BackoffInv, WaitsOut, CooldownInv
<1>3. AgendaInv'
  BY DEF AgendaInv, OnAgenda, Eligible
<1> QED
  BY <1>1, <1>2, <1>3

LEMMA BeginCommitStep ==
  ASSUME IInv, NEW x \in Task, BeginCommit(x) PROVE IInv'
<1> USE DEF IInv
<1>1. /\ UNCHANGED <<now, enabled, stopping, stopPhase, attempt, catalog,
                     consecutiveFailures, cooldownUntil, contextReady, activeJobs,
                     failedAt>>
      /\ jobs[x] # None /\ jobs[x].stage = "running" /\ jobs[x].abort = "no"
      /\ jobs' = [jobs EXCEPT ![x].committing = TRUE]
      /\ contextOpen' = IF IsList(x) THEN [contextOpen EXCEPT ![x] = TRUE]
                        ELSE contextOpen
  BY DEF BeginCommit, Running, lifeVars, providerVars
<1>2. /\ jobs[x] \in Job
      /\ jobs'[x] = [jobs[x] EXCEPT !.committing = TRUE]
      /\ \A y \in Task : y # x => jobs'[y] = jobs[y]
  BY <1>1 DEF TypeOK
<1>3. /\ jobs'[x] \in Job /\ jobs'[x].committing
      /\ jobs'[x].stage = "running" /\ jobs'[x].abort = "no"
  <2>1. ASSUME NEW j \in Job, NEW k, k = [j EXCEPT !.committing = TRUE]
        PROVE /\ k \in Job /\ k.committing
              /\ k.stage = j.stage /\ k.abort = j.abort
    BY <2>1 DEF Job
  <2> QED
    BY <1>1, <1>2, <2>1
<1>4. /\ contextOpen' \in [Provider -> BOOLEAN]
      /\ \A p \in Provider : contextOpen[p] => contextOpen'[p]
      /\ IsList(x) => contextOpen'[x]
  BY <1>1 DEF TypeOK, IsList
<1>a. TypeOK'
  <2>1. jobs' \in [Task -> Job \cup {None}]
    BY <1>1, <1>3, <1>2 DEF TypeOK
  <2> QED
    BY <1>1, <1>4, <2>1 DEF TypeOK
<1>b. JobInv' /\ BackoffInv' /\ CooldownInv' /\ AgendaInv'
  BY <1>1, <1>2, FrameStep
<1>c. SignalInv'
  BY <1>1, <1>2, <1>3 DEF SignalInv
<1>d. ContextInv'
  <2>1. \A y \in Task : ClosingFor(y) => ClosingFor(y)'
    BY <1>1, <1>2 DEF ClosingFor, resetContext
  <2>2. ASSUME NEW p \in Provider, Running(p)', jobs'[p].committing
        PROVE contextOpen'[p]
    BY <1>2, <1>4, <2>2, ProviderIsList DEF ContextInv, Running
  <2>3. ASSUME NEW p \in Provider, contextReady'[p]
        PROVE \/ contextOpen'[p] \/ stopping'
              \/ \E y \in Task : SiteOf(y) = p /\ ClosingFor(y)'
    BY <1>1, <1>4, <2>1, <2>3 DEF ContextInv
  <2> QED
    BY <2>2, <2>3 DEF ContextInv
<1> QED
  BY <1>a, <1>b, <1>c, <1>d

LEMMA FailsStep ==
  ASSUME IInv, NEW x \in Task, OperationFails(x) PROVE IInv'
<1> USE DEF IInv
<1>1. PICK transport \in BOOLEAN :
        LET failed == [jobs[x] EXCEPT !.stage = "closing", !.transport = transport]
        IN  /\ jobs' = [jobs EXCEPT ![x] = failed]
            /\ contextOpen' =
                 [contextOpen EXCEPT ![SiteOf(x)] = @ /\ ~ ClosesCollection(x, failed)]
  BY DEF OperationFails
<1>2. /\ UNCHANGED <<now, enabled, stopping, stopPhase, attempt, catalog,
                     consecutiveFailures, cooldownUntil, contextReady, activeJobs,
                     failedAt>>
      /\ jobs[x] # None /\ jobs[x].stage = "running"
  BY DEF OperationFails, Running, lifeVars, providerVars
<1> DEFINE failed == [jobs[x] EXCEPT !.stage = "closing", !.transport = transport]
<1>3. /\ jobs[x] \in Job /\ jobs'[x] = failed
      /\ \A y \in Task : y # x => jobs'[y] = jobs[y]
  BY <1>1, <1>2 DEF TypeOK
<1>4. /\ failed \in Job /\ failed.stage = "closing"
      /\ failed.abort = jobs[x].abort /\ failed.committing = jobs[x].committing
  BY <1>2, <1>3 DEF Job
<1>5. /\ contextOpen' \in [Provider -> BOOLEAN]
      /\ \A p \in Provider : p # SiteOf(x) => contextOpen'[p] = contextOpen[p]
      /\ contextOpen[SiteOf(x)] =>
           contextOpen'[SiteOf(x)] \/ ClosesCollection(x, failed)
  <2> HIDE DEF failed
  <2> QED
    BY <1>1, SiteType DEF TypeOK, failed
<1> HIDE DEF failed
<1>a. TypeOK'
  <2>1. jobs' \in [Task -> Job \cup {None}]
    BY <1>1, <1>4 DEF TypeOK, failed
  <2> QED
    BY <1>2, <1>5, <2>1 DEF TypeOK
<1>b. JobInv' /\ BackoffInv' /\ CooldownInv' /\ AgendaInv'
  BY <1>2, <1>3, FrameStep
<1>c. SignalInv'
  BY <1>2, <1>3, <1>4 DEF SignalInv
<1>d. ContextInv'
  <2>1. \A y \in Task : ClosingFor(y) => ClosingFor(y)'
    BY <1>2, <1>3 DEF ClosingFor, resetContext
  <2>2. ClosesCollection(x, failed) => ClosingFor(x)'
    BY <1>2, <1>3, <1>4, NoJobAssumption DEF ClosingFor, resetContext, ClosesCollection
  <2>3. ASSUME NEW p \in Provider, Running(p)', jobs'[p].committing
        PROVE contextOpen'[p]
    <3>1. p \in Task /\ SiteOf(p) = p /\ p # x
      BY <1>3, <1>4, <2>3, ProviderIsList DEF Running
    <3>2. Running(p) /\ jobs[p].committing /\ contextOpen[p]
      BY <1>3, <2>3, <3>1 DEF Running, ContextInv
    <3>3. p # SiteOf(x)
      BY <1>2, <3>1, <3>2 DEF JobInv, Running
    <3> QED
      BY <1>5, <3>2, <3>3
  <2>4. ASSUME NEW p \in Provider, contextReady'[p]
        PROVE \/ contextOpen'[p] \/ stopping'
              \/ \E y \in Task : SiteOf(y) = p /\ ClosingFor(y)'
    BY <1>2, <1>5, <2>1, <2>2, <2>4 DEF ContextInv
  <2> QED
    BY <2>3, <2>4 DEF ContextInv
<1> QED
  BY <1>a, <1>b, <1>c, <1>d

LEMMA EndStep ==
  ASSUME IInv, NEW x \in Task, jobs[x] # None, EndJob(x),
         UNCHANGED <<enabled, stopping, stopPhase>>,
         \A y \in Task : SiteOf(y) # SiteOf(x) =>
           /\ attempt'[y].lastAttemptAt = attempt[y].lastAttemptAt
           /\ y \in Event => catalog'[y] = catalog[y]
  PROVE /\ jobs' \in [Task -> Job \cup {None}]
        /\ activeJobs' \in [Provider -> Nat]
        /\ JobInv' /\ SignalInv'
        /\ jobs'[x] = None /\ \A y \in Task : y # x => jobs'[y] = jobs[y]
<1> USE DEF IInv
<1>1. /\ jobs' = [jobs EXCEPT ![x] = None]
      /\ activeJobs' = [activeJobs EXCEPT ![SiteOf(x)] = @ - 1]
      /\ SiteOf(x) \in Provider /\ activeJobs[SiteOf(x)] >= 1
  BY SiteType DEF EndJob, JobInv
<1>2. jobs'[x] = None /\ \A y \in Task : y # x => jobs'[y] = jobs[y]
  BY <1>1 DEF TypeOK
<1>3. jobs' \in [Task -> Job \cup {None}]
  BY <1>1 DEF TypeOK
<1>4. activeJobs' \in [Provider -> Nat]
  <2>1. activeJobs[SiteOf(x)] - 1 \in Nat
    BY <1>1 DEF TypeOK
  <2> QED
    BY <1>1, <2>1 DEF TypeOK
<1>5. ASSUME NEW y \in Task, jobs'[y] # None
      PROVE /\ y # x /\ jobs[y] # None /\ SiteOf(y) # SiteOf(x)
            /\ activeJobs'[SiteOf(y)] = activeJobs[SiteOf(y)]
  <2>1. y # x /\ jobs[y] # None
    BY <1>2, <1>5
  <2>2. SiteOf(y) # SiteOf(x)
    BY <2>1 DEF JobInv
  <2> QED
    BY <1>1, <2>1, <2>2, SiteType DEF TypeOK
<1>6. JobInv'
  <2>1. ASSUME NEW y \in Task, NEW z \in Task, jobs'[y] # None, jobs'[z] # None,
               SiteOf(y) = SiteOf(z)
        PROVE y = z
    BY <1>5, <2>1 DEF JobInv
  <2>2. ASSUME NEW y \in Task, jobs'[y] # None
        PROVE /\ activeJobs'[SiteOf(y)] >= 1
              /\ attempt'[y].lastAttemptAt # None
              /\ y \in Event => catalog'[y] # None
    <3>1. /\ activeJobs[SiteOf(y)] >= 1 /\ attempt[y].lastAttemptAt # None
          /\ y \in Event => catalog[y] # None
      BY <1>5, <2>2 DEF JobInv
    <3> QED
      BY <1>5, <2>2, <3>1
  <2> QED
    BY <2>1, <2>2 DEF JobInv
<1>7. SignalInv'
  BY <1>2, <1>5 DEF SignalInv
<1> QED
  BY <1>2, <1>3, <1>4, <1>6, <1>7

LEMMA ContextStep ==
  ASSUME ContextInv, NEW x \in Task,
         jobs'[x] = None, \A y \in Task : y # x => jobs'[y] = jobs[y],
         UNCHANGED <<contextOpen, stopping>>,
         \A p \in Provider : contextReady'[p] =>
           \/ contextOpen[p] \/ stopping
           \/ contextReady[p] /\ ~ (SiteOf(x) = p /\ ClosingFor(x))
  PROVE ContextInv'
<1>1. ASSUME NEW p \in Provider, Running(p)', jobs'[p].committing
      PROVE contextOpen'[p]
  BY <1>1, ProviderIsList DEF ContextInv, Running
<1>2. ASSUME NEW p \in Provider, contextReady'[p]
      PROVE \/ contextOpen'[p] \/ stopping'
            \/ \E y \in Task : SiteOf(y) = p /\ ClosingFor(y)'
  <2>1. CASE contextOpen[p] \/ stopping
    BY <2>1
  <2>2. CASE contextReady[p] /\ ~ (SiteOf(x) = p /\ ClosingFor(x)) /\ ~ contextOpen[p]
               /\ ~ stopping
    <3>1. PICK y \in Task : SiteOf(y) = p /\ ClosingFor(y)
      BY <2>2 DEF ContextInv
    <3>2. y # x /\ jobs'[y] = jobs[y]
      BY <2>2, <3>1
    <3> QED
      BY <3>1, <3>2 DEF ClosingFor, resetContext
  <2> QED
    BY <1>2, <2>1, <2>2
<1> QED
  BY <1>1, <1>2 DEF ContextInv

LEMMA SucceedListStep ==
  ASSUME IInv, NEW p \in Task, SucceedList(p) PROVE IInv'
<1> USE DEF IInv
<1>0. /\ p \in Provider /\ SiteOf(p) = p /\ jobs[p] # None /\ EndJob(p)
      /\ contextOpen[p] /\ attempt[p].lastAttemptAt # None
      /\ UNCHANGED <<now, enabled, stopping, stopPhase, contextOpen, failedAt>>
      /\ contextReady' = [contextReady EXCEPT ![p] = TRUE]
      /\ consecutiveFailures' = [consecutiveFailures EXCEPT ![p] = 0]
      /\ cooldownUntil' = [cooldownUntil EXCEPT ![p] = None]
  BY DEF SucceedList, IsList, SiteOf, Running, ContextInv, JobInv, lifeVars
<1>1. PICK listing \in Listing(p), draw \in [EventsOf(p) -> Jitter], drawn \in Jitter :
        /\ attempt' = [Reconciled(attempt, catalog, p, listing, draw) EXCEPT ![p] =
                         Succeeded(@, attempt[p].lastAttemptAt + ListInterval, drawn)]
        /\ catalog' = [e \in Event |->
                         IF e \in EventsOf(p) THEN listing[e] ELSE catalog[e]]
  BY DEF SucceedList
<1> DEFINE r == Reconciled(attempt, catalog, p, listing, draw)
<1>2. /\ r \in [Task -> AttemptState]
      /\ catalog' \in [Event -> Listed \cup {None}]
      /\ \A q \in Provider : r[q] = attempt[q]
      /\ \A e \in Event :
           /\ OnAgenda(r[e], catalog'[e])
           /\ \A failed : WaitsOut(attempt[e], failed) => WaitsOut(r[e], failed)
           /\ e \notin EventsOf(p) =>
                r[e].lastAttemptAt = attempt[e].lastAttemptAt /\ catalog'[e] = catalog[e]
  <2>1. TypeOK /\ p \in Provider
    BY <1>0
  <2>2. catalog' = [e \in Event |-> IF e \in EventsOf(p) THEN listing[e] ELSE catalog[e]]
    BY <1>1
  <2>3. listing \in Listing(p) /\ draw \in [EventsOf(p) -> Jitter]
    BY <1>1
  <2> QED
    <3>1. Relisted(p, Reconciled(attempt, catalog, p, listing, draw), catalog')
      BY ONLY <2>1, <2>2, <2>3, ReconciledFacts
    <3> QED
      BY <3>1 DEF Relisted
<1>3. Succeeded(r[p], attempt[p].lastAttemptAt + ListInterval, drawn) \in AttemptState
  <2>1. attempt[p].lastAttemptAt + ListInterval \in Nat /\ drawn \in Nat
    BY <1>0, SchedulerAssumption DEF TypeOK, AttemptState, Instant
  <2>2. r[p] \in AttemptState
    BY <1>2
  <2> HIDE DEF r
  <2> QED
    BY <2>1, <2>2 DEF Succeeded, AttemptState, Instant
<1> HIDE DEF r
<1>4. /\ attempt' \in [Task -> AttemptState]
      /\ \A y \in Task : y # p => attempt'[y] = r[y]
  BY <1>1, <1>2, <1>3 DEF r
<1>5. \A e \in Event : e \in Task /\ e # p /\ attempt'[e] = r[e]
  BY <1>0, <1>4, SchedulerAssumption DEF Task
<1>6. \A y \in Task : SiteOf(y) # SiteOf(p) =>
        /\ attempt'[y].lastAttemptAt = attempt[y].lastAttemptAt
        /\ y \in Event => catalog'[y] = catalog[y]
  <2>1. \A y \in Event : SiteOf(y) # p => y \notin EventsOf(p)
    BY EventIsNoList DEF EventsOf
  <2>2. \A y \in Provider : SiteOf(y) # p => attempt'[y] = attempt[y]
    BY <1>0, <1>2, <1>4, ProviderIsList
  <2> QED
    BY <1>0, <1>2, <1>5, <2>1, <2>2 DEF Task
<1>7. /\ jobs' \in [Task -> Job \cup {None}]
      /\ activeJobs' \in [Provider -> Nat]
      /\ JobInv' /\ SignalInv'
      /\ jobs'[p] = None /\ \A y \in Task : y # p => jobs'[y] = jobs[y]
  BY <1>0, <1>6, EndStep
<1>a. TypeOK'
  <2>1. /\ contextReady' \in [Provider -> BOOLEAN]
        /\ consecutiveFailures' \in [Provider -> Nat]
        /\ cooldownUntil' \in [Provider -> Instant]
    BY <1>0 DEF TypeOK, Instant
  <2> QED
    BY <1>0, <1>2, <1>4, <1>7, <2>1 DEF TypeOK
<1>b. ContextInv'
  <2>1. \A q \in Provider : contextReady'[q] =>
          contextOpen[q] \/ (contextReady[q] /\ SiteOf(p) # q)
    BY <1>0 DEF TypeOK
  <2> QED
    BY <1>0, <1>7, <2>1, ContextStep
<1>c. BackoffInv'
  BY <1>0, <1>2, <1>5 DEF BackoffInv
<1>d. CooldownInv'
  BY <1>0, SchedulerAssumption, SiteType DEF CooldownInv, TypeOK
<1>e. AgendaInv'
  BY <1>0, <1>2, <1>5 DEF AgendaInv, OnAgenda, Eligible
<1> QED
  BY <1>7, <1>a, <1>b, <1>c, <1>d, <1>e

LEMMA SucceedDetailStep ==
  ASSUME IInv, NEW e \in Task, SucceedDetail(e) PROVE IInv'
<1> USE DEF IInv
<1> DEFINE interval == getDetailInterval(catalog[e].startsAt, now)
           next == IF interval = None THEN None ELSE attempt[e].lastAttemptAt + interval
           p == SiteOf(e)
<1>0. /\ e \in Event /\ p \in Provider /\ jobs[e] # None /\ EndJob(e)
      /\ jobs[e].stage = "running"
      /\ UNCHANGED <<now, enabled, stopping, stopPhase, catalog, contextReady,
                     contextOpen, failedAt>>
      /\ consecutiveFailures' = [consecutiveFailures EXCEPT ![p] = 0]
      /\ cooldownUntil' = [cooldownUntil EXCEPT ![p] = None]
  BY SiteType DEF SucceedDetail, IsList, Running, lifeVars, Task
<1>1. PICK drawn \in Jitter : attempt' = [attempt EXCEPT ![e] = Succeeded(@, next, drawn)]
  BY DEF SucceedDetail
<1>2. /\ attempt[e] \in AttemptState /\ attempt[e].lastAttemptAt \in Nat
      /\ catalog[e] \in Listed /\ catalog[e].startsAt \in Nat /\ now \in Nat
      /\ drawn \in Nat
  BY <1>0, SchedulerAssumption DEF TypeOK, JobInv, AttemptState, Instant, Listed
<1>3. interval \in Instant
  BY <1>2, IntervalType
<1>4. next \in Instant /\ (next = None => interval = None)
  <2> HIDE DEF interval
  <2> QED
    BY <1>2, <1>3, NoneIsNoInstant DEF Instant
<1> HIDE DEF next
<1>5. /\ attempt'[e] \in AttemptState
      /\ attempt'[e].failureCount = 0 /\ attempt'[e].nextRunAt = next
      /\ \A y \in Task : y # e => attempt'[y] = attempt[y]
  <2>1. ASSUME NEW a \in AttemptState, NEW b, b = Succeeded(a, next, drawn)
        PROVE b \in AttemptState /\ b.failureCount = 0 /\ b.nextRunAt = next
    BY <1>2, <1>4, <2>1 DEF Succeeded, AttemptState
  <2>2. /\ attempt'[e] = Succeeded(attempt[e], next, drawn)
        /\ \A y \in Task : y # e => attempt'[y] = attempt[y]
    BY <1>1 DEF TypeOK
  <2> QED
    BY <1>2, <2>1, <2>2
<1>6. attempt' \in [Task -> AttemptState]
  BY <1>1, <1>5 DEF TypeOK
<1>7. /\ jobs' \in [Task -> Job \cup {None}]
      /\ activeJobs' \in [Provider -> Nat]
      /\ JobInv' /\ SignalInv'
      /\ jobs'[e] = None /\ \A y \in Task : y # e => jobs'[y] = jobs[y]
  <2>1. \A y \in Task : SiteOf(y) # SiteOf(e) => y # e
    OBVIOUS
  <2> HIDE DEF p
  <2> QED
    BY <1>0, <1>5, <2>1, EndStep
<1>a. TypeOK'
  <2>1. /\ consecutiveFailures' \in [Provider -> Nat]
        /\ cooldownUntil' \in [Provider -> Instant]
    BY <1>0 DEF TypeOK, Instant
  <2> QED
    BY <1>0, <1>6, <1>7, <2>1 DEF TypeOK
<1>b. ContextInv'
  <2>1. ~ ClosingFor(e)
    BY <1>0 DEF ClosingFor
  <2> QED
    BY <1>0, <1>7, <2>1, ContextStep
<1>c. BackoffInv'
  BY <1>0, <1>5 DEF BackoffInv, WaitsOut, Task
<1>d. CooldownInv'
  BY <1>0, SchedulerAssumption, SiteType DEF CooldownInv, TypeOK
<1>e. AgendaInv'
  <2>1. \A f \in Event : f # e => OnAgenda(attempt'[f], catalog[f])
    BY <1>5 DEF AgendaInv, Task
  <2>2. OnAgenda(attempt'[e], catalog[e])
    BY <1>4, <1>5 DEF OnAgenda, Eligible
  <2> QED
    BY <1>0, <2>1, <2>2 DEF AgendaInv, OnAgenda, Eligible
<1> QED
  BY <1>7, <1>a, <1>b, <1>c, <1>d, <1>e

LEMMA EventStartedStep ==
  ASSUME IInv, NEW e \in Task, EventStarted(e) PROVE IInv'
<1> USE DEF IInv
<1>0. /\ e \in Event /\ jobs[e] # None /\ EndJob(e) /\ jobs[e].stage = "running"
      /\ UNCHANGED <<now, enabled, stopping, stopPhase, catalog, consecutiveFailures,
                     cooldownUntil, contextReady, contextOpen, failedAt>>
      /\ attempt' = [attempt EXCEPT ![e].preGameStopped = TRUE,
                                    ![e].nextRunAt = None,
                                    ![e].currentlyRunning = FALSE]
  BY DEF EventStarted, IsList, Running, lifeVars, Task
<1>1. /\ attempt'[e] \in AttemptState
      /\ attempt'[e].preGameStopped /\ attempt'[e].nextRunAt = None
      /\ \A y \in Task : y # e => attempt'[y] = attempt[y]
  <2>1. ASSUME NEW a \in AttemptState, NEW b,
               b = [a EXCEPT !.preGameStopped = TRUE, !.nextRunAt = None,
                             !.currentlyRunning = FALSE]
        PROVE b \in AttemptState /\ b.preGameStopped /\ b.nextRunAt = None
    BY <2>1 DEF AttemptState, Instant
  <2>2. /\ attempt[e] \in AttemptState
        /\ attempt'[e] = [attempt[e] EXCEPT !.preGameStopped = TRUE,
                                            !.nextRunAt = None,
                                            !.currentlyRunning = FALSE]
        /\ \A y \in Task : y # e => attempt'[y] = attempt[y]
    BY <1>0 DEF TypeOK
  <2> QED
    BY <2>1, <2>2
<1>2. attempt' \in [Task -> AttemptState]
  BY <1>0, <1>1 DEF TypeOK
<1>3. /\ jobs' \in [Task -> Job \cup {None}]
      /\ activeJobs' \in [Provider -> Nat]
      /\ JobInv' /\ SignalInv'
      /\ jobs'[e] = None /\ \A y \in Task : y # e => jobs'[y] = jobs[y]
  <2>1. \A y \in Task : SiteOf(y) # SiteOf(e) => y # e
    OBVIOUS
  <2> QED
    BY <1>0, <1>1, <2>1, EndStep
<1>a. TypeOK'
  BY <1>0, <1>2, <1>3 DEF TypeOK
<1>b. ContextInv'
  <2>1. ~ ClosingFor(e)
    BY <1>0 DEF ClosingFor
  <2> QED
    BY <1>0, <1>3, <2>1, ContextStep
<1>c. BackoffInv'
  BY <1>0, <1>1 DEF BackoffInv, WaitsOut, Task
<1>d. CooldownInv'
  BY <1>0 DEF CooldownInv
<1>e. AgendaInv'
  BY <1>0, <1>1 DEF AgendaInv, OnAgenda, Eligible, Task
<1> QED
  BY <1>3, <1>a, <1>b, <1>c, <1>d, <1>e

LEMMA CountFailureStep ==
  ASSUME IInv, NEW x \in Task, SettleFailure(x), CountFailure(x) PROVE IInv'
<1> USE DEF IInv
<1> DEFINE p == SiteOf(x)
           count == AtMost(attempt[x].failureCount + 1, MaxFailures)
           inARow == AtMost(consecutiveFailures[p] + 1, MaxFailures)
           retryAt == now + backoff(count)
           reset == resetContext(x, jobs[x])
           listAt == IF attempt[p].nextRunAt # None /\ attempt[p].nextRunAt > retryAt
                     THEN attempt[p].nextRunAt ELSE retryAt
<1>0. /\ p \in Provider /\ p \in Task /\ jobs[x] # None /\ jobs[x].stage = "closing"
      /\ EndJob(x)
      /\ UNCHANGED <<now, enabled, stopping, stopPhase, catalog, contextOpen>>
  BY SiteType, ProviderIsList DEF SettleFailure, lifeVars
<1>1. PICK drawn \in Jitter :
        attempt' = [y \in Task |->
          IF y = x
          THEN [attempt[x] EXCEPT !.failureCount = count, !.jitter = drawn,
                  !.currentlyRunning = FALSE, !.nextRunAt = retryAt]
          ELSE IF y = p /\ reset
          THEN [attempt[p] EXCEPT !.nextRunAt = listAt]
          ELSE attempt[y]]
  BY DEF CountFailure
<1>2. /\ consecutiveFailures' = [consecutiveFailures EXCEPT ![p] = inARow]
      /\ contextReady' = [contextReady EXCEPT ![p] = @ /\ ~ reset]
      /\ cooldownUntil' = IF inARow >= FailureThreshold
                          THEN [cooldownUntil EXCEPT ![p] = now + Cooldown]
                          ELSE cooldownUntil
      /\ failedAt' = [failedAt EXCEPT ![x] = now]
  BY DEF CountFailure
<1>3. /\ attempt[x] \in AttemptState /\ attempt[p] \in AttemptState
      /\ now \in Nat /\ drawn \in Nat
      /\ Cooldown \in Nat /\ FailureThreshold \in Nat
  BY <1>0, SchedulerAssumption DEF TypeOK
<1>4. count \in Nat /\ inARow \in Nat
  BY <1>0, <1>3, SchedulerAssumption DEF TypeOK, AttemptState, AtMost
<1> HIDE DEF count, inARow, reset
<1>5. retryAt \in Nat
  BY <1>3, <1>4, BackoffType
<1>6. listAt \in Nat
  <2> HIDE DEF retryAt
  <2> QED
    BY <1>3, <1>5 DEF AttemptState, Instant
<1> HIDE DEF listAt, retryAt
<1>7. /\ attempt'[x] \in AttemptState
      /\ attempt'[x].failureCount = count /\ attempt'[x].nextRunAt = retryAt
  <2>1. ASSUME NEW a \in AttemptState, NEW b,
               b = [a EXCEPT !.failureCount = count, !.jitter = drawn,
                             !.currentlyRunning = FALSE, !.nextRunAt = retryAt]
        PROVE b \in AttemptState /\ b.failureCount = count /\ b.nextRunAt = retryAt
    BY <1>3, <1>4, <1>5, <2>1 DEF AttemptState, Instant
  <2>2. attempt'[x] = [attempt[x] EXCEPT !.failureCount = count, !.jitter = drawn,
                         !.currentlyRunning = FALSE, !.nextRunAt = retryAt]
    BY <1>1
  <2> QED
    BY <1>3, <2>1, <2>2
<1>8. ASSUME NEW y \in Task, y # x
      PROVE /\ attempt'[y] \in AttemptState
            /\ attempt'[y].lastAttemptAt = attempt[y].lastAttemptAt
            /\ y # p => attempt'[y] = attempt[y]
  <2>1. ASSUME NEW a \in AttemptState, NEW b, b = [a EXCEPT !.nextRunAt = listAt]
        PROVE b \in AttemptState /\ b.lastAttemptAt = a.lastAttemptAt
    BY <1>6, <2>1 DEF AttemptState, Instant
  <2>2. attempt'[y] = IF y = p /\ reset THEN [attempt[p] EXCEPT !.nextRunAt = listAt]
                      ELSE attempt[y]
    BY <1>1, <1>8
  <2>3. attempt[y] \in AttemptState
    BY DEF TypeOK
  <2>4. CASE y = p /\ reset
    BY <1>3, <2>1, <2>2, <2>4
  <2>5. CASE ~ (y = p /\ reset)
    BY <2>2, <2>3, <2>5
  <2> QED
    BY <2>4, <2>5
<1>9. attempt' \in [Task -> AttemptState]
  BY <1>1, <1>7, <1>8
<1>10. \A e \in Event : e \in Task /\ (e # x => attempt'[e] = attempt[e])
  BY <1>0, <1>8, SchedulerAssumption DEF Task
<1>11. /\ jobs' \in [Task -> Job \cup {None}]
       /\ activeJobs' \in [Provider -> Nat]
       /\ JobInv' /\ SignalInv'
       /\ jobs'[x] = None /\ \A y \in Task : y # x => jobs'[y] = jobs[y]
  <2>1. \A y \in Task : SiteOf(y) # SiteOf(x) => y # x
    OBVIOUS
  <2> HIDE DEF p
  <2> QED
    BY <1>0, <1>8, <2>1, EndStep
<1>12. now + Cooldown \in Nat
  BY <1>3
<1>a. TypeOK'
  <2>1. /\ contextReady' \in [Provider -> BOOLEAN]
        /\ consecutiveFailures' \in [Provider -> Nat]
        /\ failedAt' \in [Task -> Instant]
    BY <1>2, <1>3, <1>4 DEF TypeOK, Instant
  <2>2. cooldownUntil' \in [Provider -> Instant]
    BY <1>2, <1>12 DEF TypeOK, Instant
  <2> QED
    BY <1>0, <1>9, <1>11, <2>1, <2>2 DEF TypeOK
<1>b. ContextInv'
  <2>1. ClosingFor(x) => reset
    BY DEF ClosingFor, reset
  <2>2. \A q \in Provider : contextReady'[q] =>
          contextReady[q] /\ ~ (p = q /\ reset)
    BY <1>0, <1>2 DEF TypeOK
  <2> QED
    BY <1>0, <1>11, <2>1, <2>2, ContextStep
<1>c. BackoffInv'
  <2>1. \A e \in Event : e # x => WaitsOut(attempt'[e], failedAt'[e])
    BY <1>2, <1>10 DEF BackoffInv, TypeOK
  <2>2. WaitsOut(attempt'[x], failedAt'[x])
    <3>1. failedAt'[x] = now /\ now # None
      BY <1>2, <1>3, NoneIsNoInstant DEF TypeOK
    <3>2. retryAt = now + backoff(count)
      BY DEF retryAt
    <3> QED
      BY <1>5, <1>7, <3>1, <3>2 DEF WaitsOut
  <2> QED
    BY <2>1, <2>2 DEF BackoffInv
<1>d. CooldownInv'
  <2> SUFFICES ASSUME NEW y \in Task, failedAt'[y] # None
               PROVE /\ failedAt'[y] <= now
                     /\ consecutiveFailures'[SiteOf(y)] >= FailureThreshold =>
                          failedAt'[y] + Cooldown <=
                            IF cooldownUntil'[SiteOf(y)] = None THEN now
                            ELSE cooldownUntil'[SiteOf(y)]
    BY <1>0 DEF CooldownInv
  <2>1. failedAt'[y] \in Nat /\ failedAt'[y] <= now
    BY <1>2, <1>3 DEF CooldownInv, TypeOK, Instant
  <2>2. CASE SiteOf(y) # p
    <3>1. y # x /\ SiteOf(y) \in Provider
      BY <2>2, SiteType
    <3>2. /\ failedAt'[y] = failedAt[y]
          /\ consecutiveFailures'[SiteOf(y)] = consecutiveFailures[SiteOf(y)]
          /\ cooldownUntil'[SiteOf(y)] = cooldownUntil[SiteOf(y)]
      <4> HIDE DEF p
      <4> QED
        BY <1>2, <2>2, <3>1 DEF TypeOK
    <3> QED
      BY <2>1, <3>2 DEF CooldownInv
  <2>3. CASE SiteOf(y) = p /\ inARow >= FailureThreshold
    <3>1. cooldownUntil'[p] = now + Cooldown
      BY <1>0, <1>2, <2>3 DEF TypeOK
    <3> QED
      BY <1>3, <1>12, <2>1, <2>3, <3>1, NoneIsNoInstant
  <2>4. CASE SiteOf(y) = p /\ ~ (inARow >= FailureThreshold)
    <3>1. consecutiveFailures'[p] = inARow
      BY <1>0, <1>2 DEF TypeOK
    <3> QED
      BY <2>1, <2>4, <3>1
  <2> QED
    BY <2>2, <2>3, <2>4
<1>e. AgendaInv'
  <2>1. \A e \in Event : e # x => OnAgenda(attempt'[e], catalog[e])
    BY <1>10 DEF AgendaInv
  <2>2. OnAgenda(attempt'[x], catalog[x])
    BY <1>5, <1>7, NoneIsNoInstant DEF OnAgenda
  <2> QED
    BY <1>0, <2>1, <2>2 DEF AgendaInv, OnAgenda, Eligible
<1> QED
  BY <1>11, <1>a, <1>b, <1>c, <1>d, <1>e

LEMMA SettleFailureStep ==
  ASSUME IInv, NEW x \in Task, SettleFailure(x) PROVE IInv'
<1> USE DEF IInv
<1>1. CASE CountFailure(x)
  BY <1>1, CountFailureStep
<1>2. CASE ~ CountFailure(x)
  <2>0. /\ jobs[x] # None /\ EndJob(x) /\ jobs[x].abort = "shutdown"
        /\ UNCHANGED <<now, enabled, stopping, stopPhase, catalog, consecutiveFailures,
                       cooldownUntil, contextReady, contextOpen, failedAt>>
        /\ attempt' = [attempt EXCEPT ![x].currentlyRunning = FALSE]
    BY <1>2 DEF SettleFailure, lifeVars
  <2>1. \A y \in Task :
          /\ attempt'[y] \in AttemptState
          /\ attempt'[y].failureCount = attempt[y].failureCount
          /\ attempt'[y].nextRunAt = attempt[y].nextRunAt
          /\ attempt'[y].lastAttemptAt = attempt[y].lastAttemptAt
          /\ attempt'[y].preGameStopped = attempt[y].preGameStopped
    <3> SUFFICES ASSUME NEW y \in Task
                 PROVE /\ attempt'[y] \in AttemptState
                       /\ attempt'[y].failureCount = attempt[y].failureCount
                       /\ attempt'[y].nextRunAt = attempt[y].nextRunAt
                       /\ attempt'[y].lastAttemptAt = attempt[y].lastAttemptAt
                       /\ attempt'[y].preGameStopped = attempt[y].preGameStopped
      OBVIOUS
    <3>1. attempt[y] \in AttemptState
      BY DEF TypeOK
    <3>2. CASE attempt'[y] = attempt[y]
      BY <3>1, <3>2
    <3>3. CASE attempt'[y] = [attempt[y] EXCEPT !.currentlyRunning = FALSE]
      BY <3>1, <3>3 DEF AttemptState
    <3> QED
      BY <2>0, <3>2, <3>3 DEF TypeOK
  <2>2. attempt' \in [Task -> AttemptState]
    BY <2>0, <2>1 DEF TypeOK
  <2>3. /\ jobs' \in [Task -> Job \cup {None}]
        /\ activeJobs' \in [Provider -> Nat]
        /\ JobInv' /\ SignalInv'
        /\ jobs'[x] = None /\ \A y \in Task : y # x => jobs'[y] = jobs[y]
    BY <2>0, <2>1, EndStep
  <2>a. TypeOK'
    BY <2>0, <2>2, <2>3 DEF TypeOK
  <2>b. ContextInv'
    BY <2>0, <2>3, ContextStep DEF SignalInv
  <2>c. BackoffInv'
    BY <2>0, <2>1 DEF BackoffInv, WaitsOut, Task
  <2>d. CooldownInv'
    BY <2>0 DEF CooldownInv
  <2>e. AgendaInv'
    BY <2>0, <2>1 DEF AgendaInv, OnAgenda, Eligible, Task
  <2> QED
    BY <2>3, <2>a, <2>b, <2>c, <2>d, <2>e
<1> QED
  BY <1>1, <1>2

LEMMA TimeoutStep ==
  ASSUME IInv, NEW x \in Task, TimeoutFires(x) PROVE IInv'
<1> USE DEF IInv
<1>0. /\ jobs[x] # None /\ ~ jobs[x].committing
      /\ jobs' = [jobs EXCEPT ![x].abort = "timeout"]
      /\ UNCHANGED <<now, enabled, stopping, stopPhase, attempt, catalog,
                     consecutiveFailures, cooldownUntil, contextReady, activeJobs,
                     contextOpen, failedAt>>
  BY DEF TimeoutFires, lifeVars, providerVars
<1>1. /\ jobs'[x] \in Job /\ jobs'[x].abort = "timeout"
      /\ jobs'[x].committing = jobs[x].committing /\ jobs'[x].stage = jobs[x].stage
      /\ \A y \in Task : y # x => jobs'[y] = jobs[y]
  <2>1. ASSUME NEW j \in Job, NEW k, k = [j EXCEPT !.abort = "timeout"]
        PROVE /\ k \in Job /\ k.abort = "timeout"
              /\ k.committing = j.committing /\ k.stage = j.stage
    BY <2>1 DEF Job
  <2>2. /\ jobs[x] \in Job /\ jobs'[x] = [jobs[x] EXCEPT !.abort = "timeout"]
        /\ \A y \in Task : y # x => jobs'[y] = jobs[y]
    BY <1>0 DEF TypeOK
  <2> QED
    BY <2>1, <2>2
<1>2. \A y \in Task : jobs'[y] # None => jobs[y] # None
  BY <1>0, <1>1
<1>a. TypeOK'
  <2>1. jobs' \in [Task -> Job \cup {None}]
    BY <1>0, <1>1 DEF TypeOK
  <2> QED
    BY <1>0, <2>1 DEF TypeOK
<1>b. JobInv' /\ BackoffInv' /\ CooldownInv' /\ AgendaInv'
  BY <1>0, <1>2, FrameStep
<1>c. SignalInv'
  BY <1>0, <1>1, <1>2 DEF SignalInv
<1>d. ContextInv'
  <2>1. \A y \in Task : ClosingFor(y) => ClosingFor(y)'
    BY <1>0, <1>1, NoJobAssumption DEF ClosingFor, resetContext
  <2>2. ASSUME NEW p \in Provider, Running(p)', jobs'[p].committing
        PROVE contextOpen'[p]
    BY <1>0, <1>1, <2>2, ProviderIsList DEF ContextInv, Running
  <2>3. ASSUME NEW p \in Provider, contextReady'[p]
        PROVE \/ contextOpen'[p] \/ stopping'
              \/ \E y \in Task : SiteOf(y) = p /\ ClosingFor(y)'
    BY <1>0, <2>1, <2>3 DEF ContextInv
  <2> QED
    BY <2>2, <2>3 DEF ContextInv
<1> QED
  BY <1>a, <1>b, <1>c, <1>d

LEMMA StopStep ==
  ASSUME IInv, Stop \/ StopReturns \/ UNCHANGED vars PROVE IInv'
<1> USE DEF IInv
<1>1. /\ UNCHANGED <<now, attempt, catalog, jobs, consecutiveFailures, cooldownUntil,
                     contextReady, activeJobs, contextOpen, failedAt>>
      /\ enabled' \in BOOLEAN /\ stopping' \in BOOLEAN
      /\ stopPhase' \in {"no", "grace", "draining", "stopped"}
      /\ stopping => stopping'
      /\ stopping' => ~ enabled'
      /\ stopPhase' # "no" => stopping'
  <2>0. TypeOK /\ (stopping => ~ enabled) /\ (stopPhase # "no" => stopping)
    BY DEF SignalInv
  <2>1. CASE Stop
    BY ONLY <2>0, <2>1 DEF Stop, providerVars, TypeOK
  <2>2. CASE StopReturns
    BY ONLY <2>0, <2>2 DEF StopReturns, providerVars, TypeOK
  <2>3. CASE UNCHANGED vars
    BY ONLY <2>0, <2>3 DEF vars, TypeOK
  <2> QED
    BY <2>1, <2>2, <2>3
<1>a. TypeOK'
  BY <1>1 DEF TypeOK
<1>b. JobInv' /\ BackoffInv' /\ CooldownInv' /\ AgendaInv'
  BY <1>1, FrameStep
<1>c. SignalInv'
  BY <1>1 DEF SignalInv
<1>d. ContextInv'
  BY <1>1 DEF ContextInv, Running, ClosingFor
<1> QED
  BY <1>a, <1>b, <1>c, <1>d

LEMMA GraceStep ==
  ASSUME IInv, GraceOver PROVE IInv'
<1> USE DEF IInv
<1>0. /\ UNCHANGED <<now, enabled, stopping, attempt, catalog, consecutiveFailures,
                     cooldownUntil, contextReady, activeJobs, contextOpen, failedAt>>
      /\ stopPhase' = "draining" /\ stopping
      /\ jobs' = [x \in Task |->
           IF Abortable(x) THEN [jobs[x] EXCEPT !.abort = "shutdown"] ELSE jobs[x]]
  BY DEF GraceOver, SignalInv, providerVars
<1>1. ASSUME NEW x \in Task
      PROVE /\ jobs'[x] \in Job \cup {None}
            /\ jobs'[x] # None =>
                 /\ jobs[x] # None
                 /\ jobs'[x].stage = jobs[x].stage
                 /\ jobs'[x].committing = jobs[x].committing
                 /\ jobs'[x].committing => jobs'[x].abort = "no"
  <2>1. ASSUME NEW j \in Job, NEW k, k = [j EXCEPT !.abort = "shutdown"]
        PROVE k \in Job /\ k.committing = j.committing /\ k.stage = j.stage
    BY <2>1 DEF Job
  <2>2. CASE Abortable(x)
    <3>1. jobs[x] \in Job /\ jobs'[x] = [jobs[x] EXCEPT !.abort = "shutdown"]
      BY <1>0, <2>2 DEF TypeOK, Abortable
    <3> QED
      BY <2>1, <2>2, <3>1 DEF Abortable
  <2>3. CASE ~ Abortable(x)
    <3>1. jobs'[x] = jobs[x]
      BY <1>0, <2>3
    <3> QED
      BY <3>1 DEF TypeOK, SignalInv
  <2> QED
    BY <2>2, <2>3
<1>a. TypeOK'
  <2>1. jobs' \in [Task -> Job \cup {None}]
    BY <1>0, <1>1
  <2> QED
    BY <1>0, <2>1 DEF TypeOK
<1>b. JobInv' /\ BackoffInv' /\ CooldownInv' /\ AgendaInv'
  BY <1>0, <1>1, FrameStep
<1>c. SignalInv'
  BY <1>0, <1>1 DEF SignalInv
<1>d. ContextInv'
  BY <1>0, <1>1, ProviderIsList DEF ContextInv, Running
<1> QED
  BY <1>a, <1>b, <1>c, <1>d

LEMMA InitInv == Init => IInv
<1> SUFFICES ASSUME Init PROVE IInv
  OBVIOUS
<1>1. FreshAttempt \in AttemptState /\ FreshAttempt.failureCount = 0
  BY DEF FreshAttempt, AttemptState, Instant
<1>a. TypeOK
  BY <1>1 DEF Init, TypeOK, Instant
<1>b. JobInv /\ SignalInv /\ ContextInv /\ CooldownInv
  BY ProviderIsList DEF Init, JobInv, SignalInv, ContextInv, CooldownInv, Running
<1>c. BackoffInv /\ AgendaInv
  BY <1>1 DEF Init, BackoffInv, WaitsOut, AgendaInv, OnAgenda, Task
<1> QED
  BY <1>a, <1>b, <1>c DEF IInv

LEMMA NextInv == IInv /\ [Next]_vars => IInv'
<1> SUFFICES ASSUME IInv, [Next]_vars PROVE IInv'
  OBVIOUS
<1>1. CASE Advance
  BY <1>1, AdvanceStep
<1>2. CASE Start
  BY <1>2, StartStep
<1>3. CASE Tick
  BY <1>3, TickStep
<1>4. CASE Stop \/ StopReturns \/ UNCHANGED vars
  BY <1>4, StopStep
<1>5. CASE GraceOver
  BY <1>5, GraceStep
<1>6. ASSUME NEW p \in Provider, RestoreCatalog(p) PROVE IInv'
  BY <1>6, RestoreStep
<1>7. ASSUME NEW x \in Task, JobStep(x) PROVE IInv'
  <2>1. CASE BeginCommit(x)
    BY <2>1, BeginCommitStep
  <2>2. CASE SucceedList(x)
    BY <2>2, SucceedListStep
  <2>3. CASE SucceedDetail(x)
    BY <2>3, SucceedDetailStep
  <2>4. CASE OperationFails(x)
    BY <2>4, FailsStep
  <2>5. CASE EventStarted(x)
    BY <2>5, EventStartedStep
  <2>6. CASE SettleFailure(x)
    BY <2>6, SettleFailureStep
  <2>7. CASE TimeoutFires(x)
    BY <2>7, TimeoutStep
  <2> QED
    BY <1>7, <2>1, <2>2, <2>3, <2>4, <2>5, <2>6, <2>7 DEF JobStep, Settles
<1> QED
  BY <1>1, <1>2, <1>3, <1>4, <1>5, <1>6, <1>7 DEF Next

-----------------------------------------------------------------------------
(* What a launch owes.                                                     *)

LEMMA OnlyTickLaunches ==
  ASSUME TypeOK, [Next]_vars, NEW x \in Task, Launched(x) PROVE Tick
<1>1. jobs[x] = None /\ jobs'[x] # None
  BY DEF Launched
<1>2. ~ UNCHANGED jobs
  BY <1>1
<1>4. ASSUME NEW y \in Task, JobStep(y) PROVE FALSE
  <2>1. jobs[y] # None
    BY <1>4 DEF JobStep, Settles, BeginCommit, SucceedList, SucceedDetail, OperationFails,
       EventStarted, SettleFailure, TimeoutFires, Running
  <2>2. \E v : jobs' = [jobs EXCEPT ![y] = v]
    <3>1. CASE BeginCommit(y)
      BY <3>1 DEF BeginCommit
    <3>2. CASE SucceedList(y) \/ SucceedDetail(y) \/ EventStarted(y) \/ SettleFailure(y)
      BY <3>2 DEF SucceedList, SucceedDetail, EventStarted, SettleFailure, EndJob
    <3>3. CASE OperationFails(y)
      BY <3>3 DEF OperationFails
    <3>4. CASE TimeoutFires(y)
      BY <3>4 DEF TimeoutFires
    <3> QED
      BY <1>4, <3>1, <3>2, <3>3, <3>4 DEF JobStep, Settles
  <2> QED
    BY <1>1, <2>1, <2>2 DEF TypeOK
<1>5. ~ GraceOver
  BY <1>1 DEF GraceOver, Abortable
<1> QED
  BY <1>2, <1>4, <1>5
     DEF Next, Advance, Start, Stop, StopReturns, RestoreCatalog, vars

LEMMA LaunchOwes ==
  ASSUME IInv, [Next]_vars, NEW x \in Task, Launched(x)
  PROVE /\ ~ IsList(x) => contextOpen[SiteOf(x)]
        /\ ~ IsList(x) /\ attempt[x].failureCount > 0 =>
             now >= failedAt[x] + backoff(attempt[x].failureCount)
        /\ consecutiveFailures[SiteOf(x)] >= FailureThreshold =>
             \A y \in Task : SiteOf(y) = SiteOf(x) /\ failedAt[y] # None =>
               now >= failedAt[y] + Cooldown
<1> USE DEF IInv
<1> DEFINE att == Probed(recalculate(attempt, catalog))
           p == SiteOf(x)
           launched == UNION {Chosen(q, att) : q \in Provider}
<1>1. Tick
  BY OnlyTickLaunches
<1>2. x \in launched /\ ~ stopping
  <2>1. jobs' = [y \in Task |-> IF y \in launched THEN NewJob ELSE jobs[y]]
    BY <1>1 DEF Tick
  <2> HIDE DEF launched
  <2> QED
    BY <1>1, <2>1 DEF Launched, Tick
<1>3. /\ p \in Provider /\ Available(p) /\ activeJobs[p] = 0
      /\ due(att[x])
      /\ ~ IsList(x) => x \in Event /\ contextReady[p]
  <2> HIDE DEF att
  <2>1. PICK q \in Provider : x \in Chosen(q, att)
    BY <1>2
  <2>2. att = Probed(recalculate(attempt, catalog))
    BY DEF att
  <2> QED
    BY <2>1, <2>2, ChosenFacts
<1>4. /\ now \in Nat /\ att[x] \in AttemptState
      /\ x \in Event =>
           /\ att[x].failureCount = attempt[x].failureCount
           /\ att[x].nextRunAt # None /\ att[x].failureCount > 0 =>
                att[x].nextRunAt = attempt[x].nextRunAt
  BY TickAttempts DEF TypeOK
<1> HIDE DEF att, p, launched
<1>a. ASSUME ~ IsList(x) PROVE contextOpen[p]
  <2>1. \A y \in Task : ~ (SiteOf(y) = p /\ ClosingFor(y))
    BY <1>3 DEF ClosingFor, JobInv
  <2> QED
    BY <1>2, <1>3, <1>a, <2>1 DEF ContextInv
<1>b. ASSUME ~ IsList(x), attempt[x].failureCount > 0
      PROVE now >= failedAt[x] + backoff(attempt[x].failureCount)
  <2>1. /\ att[x].nextRunAt = attempt[x].nextRunAt /\ att[x].nextRunAt # None
        /\ x \in Event
        /\ now >= att[x].nextRunAt + att[x].jitter
    BY <1>3, <1>4, <1>b DEF due
  <2>2. /\ failedAt[x] # None
        /\ attempt[x].nextRunAt >= failedAt[x] + backoff(attempt[x].failureCount)
    BY <1>b, <2>1 DEF BackoffInv, WaitsOut
  <2>3. /\ failedAt[x] \in Nat /\ backoff(attempt[x].failureCount) \in Nat
        /\ attempt[x].nextRunAt \in Nat /\ att[x].jitter \in Nat
    BY <1>4, <2>1, <2>2, BackoffType DEF TypeOK, AttemptState, Instant
  <2> QED
    BY <1>4, <2>1, <2>2, <2>3
<1>c. ASSUME consecutiveFailures[p] >= FailureThreshold,
             NEW y \in Task, SiteOf(y) = p, failedAt[y] # None
      PROVE now >= failedAt[y] + Cooldown
  <2>1. failedAt[y] + Cooldown <=
          IF cooldownUntil[p] = None THEN now ELSE cooldownUntil[p]
    BY <1>c DEF CooldownInv
  <2>2. failedAt[y] \in Nat /\ Cooldown \in Nat /\ cooldownUntil[p] \in Instant
    BY <1>3, <1>c, SchedulerAssumption DEF TypeOK, Instant
  <2> QED
    BY <1>3, <1>4, <2>1, <2>2 DEF Available, Instant
<1> QED
  BY <1>a, <1>b, <1>c DEF p

-----------------------------------------------------------------------------
(* The theorems.                                                           *)

\* The inductive invariant holds in every reachable state of the scheduler.
THEOREM IInvHolds == Spec => []IInv
<1>1. Init => IInv
  BY InitInv
<1>2. IInv /\ [Next]_vars => IInv'
  BY NextInv
<1> QED
  BY <1>1, <1>2, PTL DEF Spec

\* Every variable of the scheduler keeps its type: in particular the number of
\* active jobs of a provider never goes below zero, and every next run of an
\* agenda entry is an instant.
THEOREM TypeCorrect == Spec => []TypeOK
<1>1. IInv => TypeOK
  BY DEF IInv
<1> QED
  BY <1>1, IInvHolds, PTL

\* Work that passed its commit point is never aborted, whatever the order of
\* timeout, shutdown and commit (beginCommit and stop in adaptive-scheduler.ts).
THEOREM CommitsStand == Spec => []CommittedIsNeverAborted
<1>1. IInv => CommittedIsNeverAborted
  BY DEF IInv, SignalInv, CommittedIsNeverAborted
<1> QED
  BY <1>1, IInvHolds, PTL

\* An eligible detail with no failure on record always has a next run, through
\* restarts, removals, pre-game stops and moved starts (reconcile, recalculate).
THEOREM AgendaComplete == Spec => []UnfailedDetailIsScheduled
<1>1. IInv => UnfailedDetailIsScheduled
  BY DEF IInv, AgendaInv, OnAgenda, UnfailedDetailIsScheduled
<1> QED
  BY <1>1, IInvHolds, PTL

\* No detail runs without a listing context or within its backoff, and nothing
\* within a cooldown, whatever the agenda says (tick, the catch block of launch).
THEOREM LaunchesWait == Spec => NothingRunsTooSoon
<1>1. IInv /\ [Next]_vars =>
        [\A x \in Task : Launched(x) =>
           /\ ~ IsList(x) => contextOpen[SiteOf(x)]
           /\ ~ IsList(x) /\ attempt[x].failureCount > 0 =>
                now >= failedAt[x] + backoff(attempt[x].failureCount)
           /\ consecutiveFailures[SiteOf(x)] >= FailureThreshold =>
                \A y \in Task : SiteOf(y) = SiteOf(x) /\ failedAt[y] # None =>
                  now >= failedAt[y] + Cooldown]_vars
  BY LaunchOwes
<1> QED
  BY <1>1, IInvHolds, PTL DEF Spec, NothingRunsTooSoon
=============================================================================
