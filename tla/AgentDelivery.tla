---------------------------- MODULE AgentDelivery ----------------------------
(***************************************************************************)
(* The collector agent and the server, connected by HTTP.                  *)
(*                                                                         *)
(* A post opens a request at the server and the agent waits for its        *)
(* answer.  The agent may time out while the request is still at work:     *)
(* the request goes on without it, and the same publication is posted      *)
(* again.  Either process may end at any moment and is started again.      *)
(***************************************************************************)
EXTENDS AgentOutbox, FiniteSets

CONSTANTS
  Event, Scope, Journal, Request,
  RunOf, ScopeOf, At, HashOf, EventsIn, ListScope, JournalOf,
  MaxFaults,      \* bound: failures, timeouts and process ends
  MaxExpired      \* bound: files dropped for their age

VARIABLES
  up, request, receipts, published, scopes, journal, rows, tail, projection,
  announced, acknowledged,
  slot,           \* the request whose answer the agent awaits, or None
  faults

Server == INSTANCE ServerIngestion

\* There is one list scope for each esport, and an event is of one esport.
ASSUME DeliveryAssumption ==
  /\ Server!IngestionAssumption
  /\ \A p, r \in Publication :
       ScopeOf[p] \in ListScope /\ ScopeOf[r] \in ListScope /\ ScopeOf[p] # ScopeOf[r]
         => EventsIn[p] \cap EventsIn[r] = {}

serverVars == <<up, request, receipts, published, scopes, journal, rows, tail,
                projection, announced, acknowledged>>
vars == <<agentVars, serverVars, slot, faults>>

Init == AgentInit /\ Server!Init /\ slot = None /\ faults = 0

Fault == faults < MaxFaults /\ faults' = faults + 1

\* A provider has one job at a time: what it observed of a scope is committed in
\* the order of observation, and a list before the details observed after it.
Precedes(r, p) ==
  /\ At[r] < At[p]
  /\ \/ ScopeOf[r] = ScopeOf[p]
     \/ ScopeOf[r] \in ListScope /\ ScopeOf[p] \notin ListScope

InOrder(p) == \A r \in Publication : Precedes(r, p) => r \in offered

Ages == 0..Len(outbox)
FewExpired == Cardinality(expired') <= MaxExpired

Offer(p) ==
  /\ InOrder(p)
  /\ \E n \in Ages : Accept(p, n) /\ FewExpired
  /\ UNCHANGED <<serverVars, slot, faults>>

StartDelivery ==
  /\ \E n \in Ages : Tick(n) /\ FewExpired
  /\ UNCHANGED <<serverVars, slot, faults>>

\* The request arrives.
Connect ==
  /\ Post
  /\ \E q \in Request : Server!Send(q, Head(batch)) /\ slot' = q
  /\ UNCHANGED faults

\* Nobody answers at the server's address, or the network loses the post.
Refused ==
  /\ Post
  /\ IF up THEN Fault ELSE UNCHANGED faults
  /\ slot' = None
  /\ UNCHANGED serverVars

AnswerArrives ==
  /\ slot # None /\ request[slot].stage = "accepted"
  /\ Delivered
  /\ slot' = None
  /\ UNCHANGED <<serverVars, faults>>

\* No 2xx: an error answer, a broken connection, or no request at all.
FailureArrives ==
  /\ posting # None
  /\ slot # None => request[slot].stage = "failed"
  /\ DeliveryFails
  /\ slot' = None
  /\ UNCHANGED <<serverVars, faults>>

\* AbortSignal.timeout, or an answer that is lost: the request goes on alone.
TimesOut ==
  /\ slot # None /\ request[slot].stage # "failed"
  /\ Fault
  /\ DeliveryFails
  /\ slot' = None
  /\ UNCHANGED serverVars

EndDelivery == DeliveryEnds /\ UNCHANGED <<serverVars, slot, faults>>
Rested == RestEnds /\ UNCHANGED <<serverVars, slot, faults>>
StopAgent == Stop /\ Fault /\ UNCHANGED <<serverVars, slot>>

AgentExits ==
  /\ Exit
  /\ IF stopped THEN UNCHANGED faults ELSE Fault
  /\ slot' = None
  /\ UNCHANGED serverVars

AgentReturns == AgentRestart /\ UNCHANGED <<serverVars, slot, faults>>

ServerHandles(q) ==
  /\ Server!Handle(q)
  /\ IF request'[q].stage = "failed" THEN Fault ELSE UNCHANGED faults
  /\ UNCHANGED <<agentVars, slot>>

ServerCrashes == Server!Crash /\ Fault /\ UNCHANGED <<agentVars, slot>>
ServerReturns == Server!Restart /\ UNCHANGED <<agentVars, slot, faults>>

AgentStep ==
  \/ StartDelivery \/ Connect \/ Refused \/ AnswerArrives \/ FailureArrives
  \/ EndDelivery \/ Rested \/ AgentReturns

Next ==
  \/ \E p \in Publication : Offer(p)
  \/ AgentStep \/ TimesOut \/ StopAgent \/ AgentExits
  \/ \E q \in Request : ServerHandles(q)
  \/ ServerCrashes \/ ServerReturns

Spec == Init /\ [][Next]_vars

\* Timers fire, both processes are started again by their supervisors, a stopped
\* agent exits, and the server ends what it took up (its transactions and its
\* queries have timeouts).
Fairness ==
  /\ WF_vars(StartDelivery) /\ WF_vars(Connect \/ Refused)
  /\ WF_vars(AnswerArrives) /\ WF_vars(FailureArrives)
  /\ WF_vars(EndDelivery) /\ WF_vars(Rested) /\ WF_vars(AgentReturns)
  /\ WF_vars(stopped /\ AgentExits)
  /\ WF_vars(ServerReturns)
  /\ \A q \in Request : WF_vars(ServerHandles(q))

FairSpec == Spec /\ Fairness

-----------------------------------------------------------------------------
(* Properties.                                                             *)

\* The files not stored yet: only the oldest may have been stored, by a post
\* whose answer the agent did not get.
Unstored ==
  IF outbox # <<>> /\ Head(outbox) \in receipts THEN Tail(outbox) ELSE outbox

\* docs/RUNTIMES.md: the pair stores every accepted publication once, in the
\* order of acceptance, through retries, timeouts, restarts and refusals; only
\* retention gives up publications, and only the oldest.
Promise ==
  INSTANCE Delivery WITH
    waiting <- Unstored,
    stored <- receipts,
    lost <- expired \ receipts

DeliverySpec == Promise!Spec

\* As long as retention dropped nothing, an event is marked as listed exactly
\* when the last stored list of some scope lists it, although details refresh
\* the rows lists look at, requests are repeated and orphans run on.
ListedMatchesLatestList ==
  expired = {} =>
    \A e \in Event :
      rows[e].listed <=>
        \E s \in ListScope : scopes[s] # None /\ e \in EventsIn[scopes[s]]

\* Once failures stop, what was accepted is stored, unless retention drops it.
EventuallyStored ==
  \A p \in Publication :
    p \in Items(outbox) ~> p \in receipts \cup expired
=============================================================================
