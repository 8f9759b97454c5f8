--------------------------- MODULE IngestionCommit ---------------------------
(***************************************************************************)
(* IngestionCommitService                                                  *)
(*   apps/odds-service/src/modules/collection/ingestion-commit.service.ts  *)
(*                                                                         *)
(* begin() makes a collection run the current generation of its provider.  *)
(* commit() appends a promise to the provider's tail, awaits the previous  *)
(* tail, refuses an aborted or superseded run, publishes the run's items   *)
(* one after another and, in its finally, releases the next call.          *)
(* finish() forgets the generation if it still is the run's.               *)
(*                                                                         *)
(* Everything between two awaits is one action.  A call awaits the         *)
(* previous tail (Commit | Enter, Refuse), each publication                *)
(* (Publish, PublishFails) and nothing else; a tail promise                *)
(* previous.then(() => current) resolves in a step of its own (Resolve).   *)
(***************************************************************************)
EXTENDS Naturals, FiniteSets

CONSTANTS
  Provider,
  Run,          \* the collection runs begin() hands out, each once
  Call,         \* the commit() calls
  ProviderOf,   \* ProviderOf[r]: the provider run r collects
  RunOf,        \* RunOf[c]: the run call c commits
  Items,        \* Items[c]: how many publications call c carries
  None

ASSUME CommitAssumption ==
  /\ ProviderOf \in [Run -> Provider]
  /\ RunOf \in [Call -> Run]
  /\ Items \in [Call -> Nat]
  /\ None \notin Run \cup Call

VARIABLES
  generations,  \* generations[p]: the current run of p, or None
  tails,        \* tails[p]: the call whose tail is the last of p, or None
  previous,     \* previous[c]: the tail call c found, None for a resolved one
  resolved,     \* the calls whose tail promise has resolved
  pc,           \* pc[c]: where call c is
  done,         \* done[c]: how many of its items call c has published
  aborted,      \* the calls whose AbortSignal has fired
  finished,     \* the runs finish() was called for
  \* History, read by the properties only.
  begins,       \* how many runs have begun
  order,        \* order[r]: the begin number of run r, 0 before begin()
  arrivals,     \* how many commit() calls have been made
  arrival,      \* arrival[c]: the arrival number of call c, 0 before
  newest,       \* newest[p]: begin number of the last run admitted for p
  written       \* written[p]: begin number of the run that wrote p last

serviceVars == <<generations, tails, previous, resolved, pc, done>>
historyVars == <<begins, order, arrivals, arrival, newest, written>>
vars == <<generations, tails, previous, resolved, pc, done, aborted, finished,
          begins, order, arrivals, arrival, newest, written>>

Site(c) == ProviderOf[RunOf[c]]

Init ==
  /\ generations = [p \in Provider |-> None]
  /\ tails = [p \in Provider |-> None]
  /\ previous = [c \in Call |-> None]
  /\ resolved = {}
  /\ pc = [c \in Call |-> "idle"]
  /\ done = [c \in Call |-> 0]
  /\ aborted = {}
  /\ finished = {}
  /\ begins = 0
  /\ order = [r \in Run |-> 0]
  /\ arrivals = 0
  /\ arrival = [c \in Call |-> 0]
  /\ newest = [p \in Provider |-> 0]
  /\ written = [p \in Provider |-> 0]

-----------------------------------------------------------------------------
(* The handlers.  A definition named <Operation>_<Bug> is not code: it is  *)
(* the operation with a plausible bug, kept to show which property of the  *)
(* module the bug would break.                                             *)

Begin(r) ==
  /\ order[r] = 0
  /\ begins' = begins + 1
  /\ order' = [order EXCEPT ![r] = begins + 1]
  /\ generations' = [generations EXCEPT ![ProviderOf[r]] = r]
  /\ UNCHANGED <<tails, previous, resolved, pc, done, aborted, finished,
                 arrivals, arrival, newest, written>>

\* The run's timeout, shutdown or caller fires its signal, at any time.
Abort(c) ==
  /\ c \notin aborted
  /\ pc[c] # "settled"
  /\ aborted' = aborted \cup {c}
  /\ UNCHANGED <<serviceVars, finished, historyVars>>

\* commit() up to its first await.
Commit(c) ==
  /\ pc[c] = "idle"
  /\ order[RunOf[c]] # 0
  /\ RunOf[c] \notin finished
  /\ previous' = [previous EXCEPT ![c] = tails[Site(c)]]
  /\ tails' = [tails EXCEPT ![Site(c)] = c]
  /\ pc' = [pc EXCEPT ![c] = "waiting"]
  /\ arrivals' = arrivals + 1
  /\ arrival' = [arrival EXCEPT ![c] = arrivals + 1]
  /\ UNCHANGED <<generations, resolved, done, aborted, finished, begins, order,
                 newest, written>>

PreviousResolved_NotAwaited(c) == TRUE

\* `await previous` returns.
PreviousResolved(c) == previous[c] = None \/ previous[c] \in resolved

MayPublish_NoGeneration(c) == c \notin aborted

\* The checks commit() makes when its turn comes.
MayPublish(c) == c \notin aborted /\ generations[Site(c)] = RunOf[c]

Settle_KeepsTail(c) ==
  /\ pc' = [pc EXCEPT ![c] = "settled"]
  /\ UNCHANGED tails

\* The finally block: release(), and drop the tail if nobody queued behind.
Settle(c) ==
  /\ pc' = [pc EXCEPT ![c] = "settled"]
  /\ tails' = IF tails[Site(c)] = c THEN [tails EXCEPT ![Site(c)] = None]
              ELSE tails

Enter(c) ==
  /\ pc[c] = "waiting"
  /\ PreviousResolved(c)
  /\ MayPublish(c)
  /\ pc' = [pc EXCEPT ![c] = "publishing"]
  /\ newest' = [newest EXCEPT ![Site(c)] = order[RunOf[c]]]
  /\ UNCHANGED <<generations, tails, previous, resolved, done, aborted,
                 finished, begins, order, arrivals, arrival, written>>

\* throwIfAborted() or "Superseded collection run".
Refuse(c) ==
  /\ pc[c] = "waiting"
  /\ PreviousResolved(c)
  /\ ~ MayPublish(c)
  /\ Settle(c)
  /\ UNCHANGED <<generations, previous, resolved, done, aborted, finished,
                 historyVars>>

\* The loop over the publications has another turn.
HasItem(c) == done[c] < Items[c]

Publish(c) ==
  /\ pc[c] = "publishing"
  /\ HasItem(c)
  /\ done' = [done EXCEPT ![c] = @ + 1]
  /\ written' = [written EXCEPT ![Site(c)] = order[RunOf[c]]]
  /\ UNCHANGED <<generations, tails, previous, resolved, pc, aborted, finished,
                 begins, order, arrivals, arrival, newest>>

\* A publication rejects: the remaining items are skipped.
PublishFails(c) ==
  /\ pc[c] = "publishing"
  /\ HasItem(c)
  /\ Settle(c)
  /\ UNCHANGED <<generations, previous, resolved, done, aborted, finished,
                 historyVars>>

Complete(c) ==
  /\ pc[c] = "publishing"
  /\ ~ HasItem(c)
  /\ Settle(c)
  /\ UNCHANGED <<generations, previous, resolved, done, aborted, finished,
                 historyVars>>

Released_OnSuccess(c) == pc[c] = "settled" /\ ~ HasItem(c)

\* release() has been called: in the finally, whatever the outcome.
Released(c) == pc[c] = "settled"

\* previous.then(() => current) resolves.
Resolve(c) ==
  /\ c \notin resolved
  /\ Released(c)
  /\ PreviousResolved(c)
  /\ resolved' = resolved \cup {c}
  /\ UNCHANGED <<generations, tails, previous, pc, done, aborted, finished,
                 historyVars>>

\* finish(): forget the generation, unless a newer run took it over.
Forget(r) ==
  generations' = IF generations[ProviderOf[r]] = r
                 THEN [generations EXCEPT ![ProviderOf[r]] = None]
                 ELSE generations

\* The caller's finally, once its commits are over.
Finish(r) ==
  /\ order[r] # 0
  /\ r \notin finished
  /\ \A c \in Call : RunOf[c] = r => pc[c] \in {"idle", "settled"}
  /\ finished' = finished \cup {r}
  /\ Forget(r)
  /\ UNCHANGED <<tails, previous, resolved, pc, done, aborted, historyVars>>

CallStep(c) ==
  Enter(c) \/ Refuse(c) \/ Publish(c) \/ PublishFails(c) \/ Complete(c)

Next ==
  \/ \E r \in Run : Begin(r) \/ Finish(r)
  \/ \E c \in Call : Abort(c) \/ Commit(c) \/ CallStep(c) \/ Resolve(c)

Spec == Init /\ [][Next]_vars

\* Promise reactions always run, and a publication always ends: the pool that
\* runs it has connection and statement time limits.
Fairness == \A c \in Call : WF_vars(CallStep(c)) /\ WF_vars(Resolve(c))

FairSpec == Spec /\ Fairness

-----------------------------------------------------------------------------
(* Properties.                                                             *)

TypeOK ==
  /\ generations \in [Provider -> Run \cup {None}]
  /\ tails \in [Provider -> Call \cup {None}]
  /\ previous \in [Call -> Call \cup {None}]
  /\ resolved \subseteq Call
  /\ pc \in [Call -> {"idle", "waiting", "publishing", "settled"}]
  /\ done \in [Call -> Nat]
  /\ \A c \in Call : done[c] <= Items[c]
  /\ aborted \subseteq Call
  /\ finished \subseteq Run
  /\ begins \in Nat
  /\ order \in [Run -> Nat]
  /\ arrivals \in Nat
  /\ arrival \in [Call -> Nat]
  /\ newest \in [Provider -> Nat]
  /\ written \in [Provider -> Nat]

\* Two calls of one provider never publish at the same time, however their
\* runs, failures and aborts interleave.
OnePublisherPerProvider ==
  \A c, d \in Call :
    pc[c] = "publishing" /\ pc[d] = "publishing" /\ Site(c) = Site(d) => c = d

\* Once nobody waits or publishes, the map of tails holds nothing of the
\* provider: the chain of promises cannot grow for the life of the process.
TailsAreReclaimed ==
  \A p \in Provider :
    tails[p] # None =>
      \E c \in Call : Site(c) = p /\ pc[c] \in {"waiting", "publishing"}

\* What an older run publishes never lands after what a newer run published:
\* the store sees the runs of a provider in the order in which they began.
WritesFollowBeginOrder ==
  [][\A p \in Provider : written'[p] >= written[p]]_written

\* A call is turned away only if its signal fired or a newer run of the same
\* provider began: finish() of an old run never costs the current one its turn.
OnlySupersededIsRefused ==
  [][\A c \in Call :
       pc[c] = "waiting" /\ pc'[c] = "settled" /\ c \notin aborted =>
         \E r \in Run :
           /\ ProviderOf[r] = Site(c)
           /\ order[r] > order[RunOf[c]]]_pc

-----------------------------------------------------------------------------
(* The refinement of CommitLock.                                           *)

Publisher(p) == {c \in Call : Site(c) = p /\ pc[c] = "publishing"}

lockOwner ==
  [p \in Provider |->
     IF Publisher(p) = {} THEN None ELSE CHOOSE c \in Publisher(p) : TRUE]

lockWaiting == {c \in Call : pc[c] = "waiting"}

Lock == INSTANCE CommitLock WITH
  SiteOf <- [c \in Call |-> Site(c)], waiting <- lockWaiting, owner <- lockOwner

\* The tails and generations implement the critical section of CommitLock: its
\* steps, and that every call settles, also behind one that was refused or
\* failed.
LockSafety == Lock!Safety
LockSpec == Lock!Spec
=============================================================================
