------------------------ MODULE IngestionCommitProofs ------------------------
(***************************************************************************)
(* For any number of providers, runs and calls, IngestionCommit keeps one  *)
(* publisher per provider, reclaims its tails, writes in begin order and   *)
(* implements the safety half of CommitLock.                               *)
(*                                                                         *)
(* The argument.  Number the commit() calls in the order they are made.    *)
(* A call's `previous` is at least as late as every earlier call of its    *)
(* provider that has not settled (PreviousInv), and a tail that resolved   *)
(* has only settled calls up to it (ResolvedInv).  So a call whose         *)
(* previous tail has resolved has nobody unsettled ahead of it             *)
(* (TurnInv), which is mutual exclusion.  The begin numbers of runs        *)
(* (OrderInv) and the generation check then order what is written          *)
(* (NewestInv).                                                            *)
(***************************************************************************)
EXTENDS IngestionCommit, TLAPS

InFlight(c) == pc[c] \in {"waiting", "publishing"}

Ahead(d, c) ==
  /\ Site(d) = Site(c)
  /\ arrival[d] # 0
  /\ arrival[d] < arrival[c]

ArrivalInv ==
  /\ \A c \in Call : pc[c] = "idle" <=> arrival[c] = 0
  /\ \A c \in Call : arrival[c] <= arrivals
  /\ \A c, d \in Call : arrival[c] # 0 /\ arrival[c] = arrival[d] => c = d

TailInv ==
  \A p \in Provider :
    /\ tails[p] = None => \A c \in Call : Site(c) = p => ~ InFlight(c)
    /\ tails[p] # None =>
         /\ Site(tails[p]) = p
         /\ InFlight(tails[p])
         /\ \A c \in Call :
              Site(c) = p /\ InFlight(c) => arrival[c] <= arrival[tails[p]]

PreviousInv ==
  \A c \in Call :
    /\ previous[c] # None =>
         Site(previous[c]) = Site(c) /\ arrival[previous[c]] # 0
    /\ \A d \in Call :
         Ahead(d, c) /\ pc[d] # "settled" =>
           previous[c] # None /\ arrival[d] <= arrival[previous[c]]

AheadSettled(c) == \A d \in Call : Ahead(d, c) => pc[d] = "settled"

ResolvedInv == \A c \in resolved : pc[c] = "settled" /\ AheadSettled(c)

TurnInv == \A c \in Call : pc[c] = "publishing" => AheadSettled(c)

QueueInv == ArrivalInv /\ TailInv /\ PreviousInv /\ ResolvedInv /\ TurnInv

OrderInv ==
  /\ \A r \in Run : order[r] <= begins
  /\ \A r, s \in Run : order[r] # 0 /\ order[r] = order[s] => r = s
  /\ \A p \in Provider :
       generations[p] # None =>
         /\ ProviderOf[generations[p]] = p
         /\ \A r \in Run : ProviderOf[r] = p => order[r] <= order[generations[p]]
  /\ \A c \in Call : InFlight(c) =>
       order[RunOf[c]] # 0 /\ RunOf[c] \notin finished
  /\ \A r \in Run :
       order[r] # 0 /\ r \notin finished =>
         \/ generations[ProviderOf[r]] = r
         \/ \E s \in Run : ProviderOf[s] = ProviderOf[r] /\ order[s] > order[r]

NewestInv ==
  /\ \A p \in Provider :
       /\ written[p] <= newest[p]
       /\ newest[p] # 0 =>
            \E r \in Run : ProviderOf[r] = p /\ order[r] = newest[p]
  /\ \A c \in Call :
       pc[c] = "publishing" => newest[Site(c)] = order[RunOf[c]]

IInv == TypeOK /\ QueueInv /\ OrderInv /\ NewestInv

-----------------------------------------------------------------------------

LEMMA SiteType == \A c \in Call : Site(c) \in Provider /\ RunOf[c] \in Run
  BY CommitAssumption DEF Site

\* Every variable keeps its type and no call publishes more than its items.
THEOREM TypeCorrect == Spec => []TypeOK
<1>1. Init => TypeOK
  BY CommitAssumption DEF Init, TypeOK
<1>2. TypeOK /\ [Next]_vars => TypeOK'
  <2> SUFFICES ASSUME TypeOK, [Next]_vars PROVE TypeOK'
    OBVIOUS
  <2> USE CommitAssumption, SiteType DEF TypeOK, historyVars, serviceVars
  <2>1. ASSUME NEW r \in Run, Begin(r) PROVE TypeOK'
    BY <2>1 DEF Begin
  <2>2. ASSUME NEW r \in Run, Finish(r) PROVE TypeOK'
    BY <2>2 DEF Finish, Forget
  <2>3. ASSUME NEW c \in Call, Abort(c) PROVE TypeOK'
    BY <2>3 DEF Abort
  <2>4. ASSUME NEW c \in Call, Commit(c) PROVE TypeOK'
    BY <2>4 DEF Commit
  <2>5. ASSUME NEW c \in Call, Enter(c) PROVE TypeOK'
    BY <2>5 DEF Enter
  <2>6. ASSUME NEW c \in Call, Refuse(c) PROVE TypeOK'
    BY <2>6 DEF Refuse, Settle
  <2>7. ASSUME NEW c \in Call, Publish(c) PROVE TypeOK'
    BY <2>7 DEF Publish, HasItem
  <2>8. ASSUME NEW c \in Call, PublishFails(c) PROVE TypeOK'
    BY <2>8 DEF PublishFails, Settle
  <2>9. ASSUME NEW c \in Call, Complete(c) PROVE TypeOK'
    BY <2>9 DEF Complete, Settle
  <2>10. ASSUME NEW c \in Call, Resolve(c) PROVE TypeOK'
    BY <2>10 DEF Resolve
  <2>11. CASE UNCHANGED vars
    BY <2>11 DEF vars
  <2> QED
    BY <2>1, <2>2, <2>3, <2>4, <2>5, <2>6, <2>7, <2>8, <2>9, <2>10, <2>11
       DEF Next, CallStep
<1> QED
  BY <1>1, <1>2, PTL DEF Spec

\* When the tail a call awaits has resolved, nobody ahead of it is unsettled.
LEMMA TurnComes ==
  ASSUME TypeOK, QueueInv, NEW c \in Call, PreviousResolved(c)
  PROVE AheadSettled(c)
<1> SUFFICES ASSUME NEW d \in Call, Ahead(d, c), pc[d] # "settled"
             PROVE FALSE
  BY DEF AheadSettled
<1> DEFINE q == previous[c]
<1>1. q # None /\ arrival[d] <= arrival[q]
  BY DEF QueueInv, PreviousInv
<1>2. q \in resolved /\ q \in Call
  BY <1>1 DEF PreviousResolved, TypeOK
<1>3. Site(q) = Site(c)
  BY <1>1 DEF QueueInv, PreviousInv
<1>4. CASE arrival[d] = arrival[q]
  BY <1>2, <1>4 DEF QueueInv, ArrivalInv, ResolvedInv, Ahead
<1>5. CASE arrival[d] < arrival[q]
  <2>1. Ahead(d, q)
    BY <1>3, <1>5 DEF Ahead
  <2> QED
    BY <2>1, <1>2 DEF QueueInv, ResolvedInv, AheadSettled
<1> QED
  BY <1>1, <1>2, <1>4, <1>5 DEF TypeOK

\* Of two calls of a provider that have both been made, one is ahead.
LEMMA CallsAreOrdered ==
  ASSUME TypeOK, QueueInv, NEW c \in Call, NEW d \in Call, Site(d) = Site(c),
         c # d, pc[c] # "idle", pc[d] # "idle"
  PROVE Ahead(c, d) \/ Ahead(d, c)
<1>1. arrival[c] # 0 /\ arrival[d] # 0 /\ arrival[c] # arrival[d]
  BY DEF QueueInv, ArrivalInv
<1>2. arrival[c] \in Nat /\ arrival[d] \in Nat
  BY DEF TypeOK
<1>3. arrival[c] < arrival[d] \/ arrival[d] < arrival[c]
  BY ONLY <1>1, <1>2
<1> QED
  BY <1>1, <1>3 DEF Ahead

\* A call leaving the queue, whether it published or was refused, leaves the
\* others in order.  It may leave only when its turn has come.
LEMMA SettleKeepsQueue ==
  ASSUME TypeOK, QueueInv, NEW c \in Call, InFlight(c), AheadSettled(c),
         Settle(c), UNCHANGED <<previous, resolved, arrivals, arrival>>
  PROVE QueueInv'
<1> USE DEF Settle, TypeOK
<1>0. \A d \in Call : Site(d)' = Site(d)
  BY DEF Site
<1>a. \A d \in Call : pc'[d] = IF d = c THEN "settled" ELSE pc[d]
  OBVIOUS
<1>b. \A d, e \in Call : Ahead(d, e)' = Ahead(d, e)
  BY <1>0 DEF Ahead
<1>1. ArrivalInv'
  BY <1>a DEF QueueInv, ArrivalInv, InFlight
<1>2. TailInv'
  <2> SUFFICES ASSUME NEW p \in Provider
               PROVE /\ tails'[p] = None =>
                          \A d \in Call : Site(d) = p => ~ InFlight(d)'
                     /\ tails'[p] # None =>
                          /\ Site(tails'[p]) = p
                          /\ pc'[tails'[p]] \in {"waiting", "publishing"}
                          /\ \A d \in Call : Site(d) = p /\ InFlight(d)'
                               => arrival[d] <= arrival[tails'[p]]
    BY <1>0 DEF TailInv, InFlight, Site
  <2>1. CASE tails[p] = c
    <3>1. Site(c) = p /\ tails'[p] = None
      BY <2>1, SiteType, CommitAssumption DEF QueueInv, TailInv
    <3>2. ASSUME NEW d \in Call, Site(d) = p, InFlight(d)'
          PROVE FALSE
      <4>1. d # c /\ InFlight(d)
        BY <3>2, <1>a DEF InFlight
      <4>2. arrival[d] <= arrival[c]
        BY <2>1, <3>1, <3>2, <4>1, CommitAssumption DEF QueueInv, TailInv
      <4>3. Ahead(d, c)
        BY <3>1, <3>2, <4>1, <4>2 DEF QueueInv, ArrivalInv, InFlight, Ahead
      <4> QED
        BY <4>1, <4>3 DEF AheadSettled, InFlight
    <3> QED
      BY <3>1, <3>2
  <2>2. CASE tails[p] # c
    <3>1. tails'[p] = tails[p]
      BY <2>2, SiteType
    <3> QED
      BY <2>2, <3>1, <1>a DEF QueueInv, TailInv, InFlight
  <2> QED
    BY <2>1, <2>2
<1>3. PreviousInv'
  BY <1>0, <1>a, <1>b DEF QueueInv, PreviousInv
<1>4. ResolvedInv'
  BY <1>a, <1>b DEF QueueInv, ResolvedInv, AheadSettled
<1>5. TurnInv'
  BY <1>a, <1>b DEF QueueInv, TurnInv, AheadSettled
<1> QED
  BY <1>1, <1>2, <1>3, <1>4, <1>5 DEF QueueInv

\* A new call queues behind everybody: its `previous` is the last in flight.
LEMMA CommitKeepsQueue ==
  ASSUME TypeOK, QueueInv, NEW c \in Call, Commit(c)
  PROVE QueueInv'
<1> USE DEF Commit, TypeOK
<1>0. \A d \in Call : Site(d)' = Site(d)
  BY DEF Site
<1>a. \A d \in Call : pc'[d] = IF d = c THEN "waiting" ELSE pc[d]
  OBVIOUS
<1>b. \A d \in Call : arrival'[d] = IF d = c THEN arrivals + 1 ELSE arrival[d]
  OBVIOUS
<1>c. arrival[c] = 0 /\ pc[c] = "idle"
  BY DEF QueueInv, ArrivalInv
<1>d. \A d \in Call : arrival[d] <= arrivals
  BY DEF QueueInv, ArrivalInv
<1>e. \A d, e \in Call : e # c => (Ahead(d, e)' <=> Ahead(d, e))
  BY <1>0, <1>b, <1>c, <1>d DEF Ahead
<1>f. \A d \in Call : Ahead(d, c)' => d # c /\ Site(d) = Site(c) /\ arrival[d] # 0
  BY <1>0, <1>b DEF Ahead
<1>1. ArrivalInv'
  BY <1>a, <1>b, <1>d DEF QueueInv, ArrivalInv
<1>2. TailInv'
  <2> SUFFICES ASSUME NEW p \in Provider
               PROVE /\ tails'[p] = None =>
                          \A d \in Call : Site(d) = p => ~ InFlight(d)'
                     /\ tails'[p] # None =>
                          /\ Site(tails'[p]) = p
                          /\ pc'[tails'[p]] \in {"waiting", "publishing"}
                          /\ \A d \in Call : Site(d) = p /\ InFlight(d)'
                               => arrival'[d] <= arrival'[tails'[p]]
    BY <1>0 DEF TailInv, InFlight, Site
  <2>1. CASE p = Site(c)
    <3>1. tails'[p] = c /\ c # None
      BY <2>1, SiteType, CommitAssumption
    <3> QED
      BY <2>1, <3>1, <1>a, <1>b, <1>d
  <2>2. CASE p # Site(c)
    <3>1. tails'[p] = tails[p]
      BY <2>2, SiteType
    <3> QED
      BY <2>2, <3>1, <1>a, <1>b, <1>c DEF QueueInv, TailInv, InFlight
  <2> QED
    BY <2>1, <2>2
<1>3. PreviousInv'
  <2> SUFFICES ASSUME NEW e \in Call
               PROVE /\ previous'[e] # None =>
                          /\ Site(previous'[e]) = Site(e)
                          /\ arrival'[previous'[e]] # 0
                     /\ \A d \in Call : Ahead(d, e)' /\ pc'[d] # "settled" =>
                          /\ previous'[e] # None
                          /\ arrival'[d] <= arrival'[previous'[e]]
    BY <1>0 DEF PreviousInv, Site
  <2>1. CASE e # c
    <3>1. previous'[e] = previous[e]
      BY <2>1
    <3>2. previous[e] # None => previous[e] \in Call /\ previous[e] # c
      BY <1>c DEF QueueInv, PreviousInv
    <3>3. \A d \in Call : Ahead(d, e) => d # c
      BY <1>c DEF Ahead
    <3> QED
      BY <2>1, <3>1, <3>2, <3>3, <1>a, <1>b, <1>e DEF QueueInv, PreviousInv
  <2>2. CASE e = c
    <3> DEFINE t == tails[Site(c)]
    <3>1. previous'[e] = t /\ t \in Call \cup {None}
      BY <2>2, SiteType
    <3>2. ASSUME t # None
          PROVE Site(t) = Site(c) /\ arrival[t] # 0 /\ t # c
      BY <3>1, <3>2, <1>c, SiteType DEF QueueInv, TailInv, InFlight, ArrivalInv
    <3>3. ASSUME NEW d \in Call, Ahead(d, c)', pc'[d] # "settled"
          PROVE t # None /\ arrival'[d] <= arrival'[t]
      <4>1. d # c /\ Site(d) = Site(c) /\ arrival[d] # 0 /\ InFlight(d)
        BY <3>3, <1>a, <1>f DEF QueueInv, ArrivalInv, InFlight
      <4>2. t # None /\ arrival[d] <= arrival[t]
        BY <4>1, SiteType DEF QueueInv, TailInv
      <4> QED
        BY <4>1, <4>2, <3>1, <3>2, <1>b
    <3> QED
      BY <2>2, <3>1, <3>2, <3>3, <1>b
  <2> QED
    BY <2>1, <2>2
<1>4. \A e \in Call : e # c /\ AheadSettled(e) => AheadSettled(e)'
  BY <1>a, <1>c, <1>e DEF AheadSettled, Ahead
<1>5. ResolvedInv'
  BY <1>4, <1>a, <1>c DEF QueueInv, ResolvedInv
<1>6. TurnInv'
  BY <1>4, <1>a DEF QueueInv, TurnInv
<1> QED
  BY <1>1, <1>2, <1>3, <1>5, <1>6 DEF QueueInv

LEMMA QueueStep ==
  ASSUME TypeOK, QueueInv, [Next]_vars
  PROVE QueueInv'
<1> USE DEF historyVars, serviceVars
<1>0. ASSUME UNCHANGED <<tails, previous, resolved, pc, arrivals, arrival>>
      PROVE QueueInv'
  BY <1>0 DEF QueueInv, ArrivalInv, TailInv, PreviousInv, ResolvedInv, TurnInv,
              AheadSettled, Ahead, InFlight, Site
<1>1. ASSUME NEW r \in Run, Begin(r) PROVE QueueInv'
  BY <1>0, <1>1 DEF Begin
<1>2. ASSUME NEW r \in Run, Finish(r) PROVE QueueInv'
  BY <1>0, <1>2 DEF Finish
<1>3. ASSUME NEW c \in Call, Abort(c) PROVE QueueInv'
  BY <1>0, <1>3 DEF Abort
<1>4. ASSUME NEW c \in Call, Commit(c) PROVE QueueInv'
  BY <1>4, CommitKeepsQueue
<1>5. ASSUME NEW c \in Call, Enter(c) PROVE QueueInv'
  <2>1. AheadSettled(c)
    BY <1>5, TurnComes DEF Enter
  <2>2. /\ \A d \in Call : pc'[d] = IF d = c THEN "publishing" ELSE pc[d]
        /\ \A d \in Call : Site(d)' = Site(d)
        /\ UNCHANGED <<tails, previous, resolved, arrivals, arrival>>
        /\ pc[c] = "waiting"
    BY <1>5 DEF Enter, TypeOK, Site
  <2>3. ArrivalInv' /\ TailInv' /\ PreviousInv'
    <3>1. ArrivalInv'
      BY <2>2 DEF QueueInv, ArrivalInv
    <3>2. TailInv'
      BY <2>2 DEF QueueInv, TailInv, InFlight, TypeOK, Site
    <3>3. PreviousInv'
      BY <2>2 DEF QueueInv, PreviousInv, Ahead, Site
    <3> QED
      BY <3>1, <3>2, <3>3
  <2>4. \A d \in Call : AheadSettled(d) => AheadSettled(d)'
    BY <2>2 DEF AheadSettled, Ahead
  <2> QED
    BY <2>1, <2>2, <2>3, <2>4 DEF QueueInv, ResolvedInv, TurnInv, TypeOK
<1>6. ASSUME NEW c \in Call, Refuse(c) PROVE QueueInv'
  BY <1>6, TurnComes, SettleKeepsQueue DEF Refuse, InFlight
<1>7. ASSUME NEW c \in Call, Publish(c) PROVE QueueInv'
  BY <1>0, <1>7 DEF Publish
<1>8. ASSUME NEW c \in Call, PublishFails(c) PROVE QueueInv'
  BY <1>8, SettleKeepsQueue DEF PublishFails, InFlight, QueueInv, TurnInv
<1>9. ASSUME NEW c \in Call, Complete(c) PROVE QueueInv'
  BY <1>9, SettleKeepsQueue DEF Complete, InFlight, QueueInv, TurnInv
<1>10. ASSUME NEW c \in Call, Resolve(c) PROVE QueueInv'
  <2>1. AheadSettled(c) /\ pc[c] = "settled"
    BY <1>10, TurnComes DEF Resolve, Released
  <2>2. ResolvedInv'
    BY <1>10, <2>1 DEF Resolve, QueueInv, ResolvedInv, AheadSettled, Ahead, Site
  <2>3. ArrivalInv' /\ TailInv' /\ PreviousInv' /\ TurnInv'
    BY <1>10 DEF Resolve, QueueInv, ArrivalInv, TailInv, PreviousInv, TurnInv,
                 AheadSettled, Ahead, InFlight, Site
  <2> QED
    BY <2>2, <2>3 DEF QueueInv
<1>11. CASE UNCHANGED vars
  BY <1>0, <1>11 DEF vars
<1> QED
  BY <1>1, <1>2, <1>3, <1>4, <1>5, <1>6, <1>7, <1>8, <1>9, <1>10, <1>11
     DEF Next, CallStep

-----------------------------------------------------------------------------
(* Begin numbers and generations.                                          *)

LEMMA OrderStep ==
  ASSUME TypeOK, OrderInv, [Next]_vars
  PROVE OrderInv'
<1> USE CommitAssumption, SiteType DEF TypeOK, historyVars, serviceVars, InFlight
<1>0. ASSUME UNCHANGED <<generations, finished, begins, order>>,
             \A d \in Call : pc'[d] \in {"waiting", "publishing"} =>
               pc[d] \in {"waiting", "publishing"}
      PROVE OrderInv'
  BY <1>0 DEF OrderInv
<1>1. ASSUME NEW r \in Run, Begin(r) PROVE OrderInv'
  <2>1. \A s \in Run : order'[s] = IF s = r THEN begins + 1 ELSE order[s]
    BY <1>1 DEF Begin
  <2>2. \A p \in Provider :
          generations'[p] = IF p = ProviderOf[r] THEN r ELSE generations[p]
    BY <1>1 DEF Begin
  <2>3. \A s \in Run : order[s] <= begins
    BY DEF OrderInv
  <2>4. UNCHANGED <<pc, finished>> /\ begins' = begins + 1 /\ order[r] = 0
    BY <1>1 DEF Begin
  <2>5. /\ \A s \in Run : order'[s] <= begins'
        /\ \A s, t \in Run : order'[s] # 0 /\ order'[s] = order'[t] => s = t
    BY <2>1, <2>3, <2>4 DEF OrderInv
  <2>6. \A p \in Provider :
          generations'[p] # None =>
            /\ ProviderOf[generations'[p]] = p
            /\ \A s \in Run :
                 ProviderOf[s] = p => order'[s] <= order'[generations'[p]]
    <3> SUFFICES ASSUME NEW p \in Provider, generations'[p] # None
                 PROVE /\ ProviderOf[generations'[p]] = p
                       /\ \A s \in Run : ProviderOf[s] = p =>
                            order'[s] <= order'[generations'[p]]
      OBVIOUS
    <3>1. CASE p = ProviderOf[r]
      <4>1. generations'[p] = r /\ order'[r] = begins + 1
        BY <3>1, <2>1, <2>2
      <4> QED
        BY <3>1, <4>1, <2>1, <2>3
    <3>2. CASE p # ProviderOf[r]
      <4>1. generations'[p] = generations[p] /\ generations[p] \in Run
        BY <3>2, <2>2
      <4>2. \A s \in Run : ProviderOf[s] = p => order'[s] = order[s]
        BY <3>2, <2>1
      <4>3. /\ ProviderOf[generations[p]] = p
            /\ \A s \in Run : ProviderOf[s] = p =>
                 order[s] <= order[generations[p]]
        BY <4>1 DEF OrderInv
      <4> QED
        BY <4>1, <4>2, <4>3
    <3> QED
      BY <3>1, <3>2
  <2>7. \A c \in Call : InFlight(c)' =>
          order'[RunOf[c]] # 0 /\ RunOf[c] \notin finished'
    BY <2>1, <2>4 DEF OrderInv
  <2>8. \A s \in Run :
          order'[s] # 0 /\ s \notin finished' =>
            \/ generations'[ProviderOf[s]] = s
            \/ \E t \in Run :
                 ProviderOf[t] = ProviderOf[s] /\ order'[t] > order'[s]
    <3> SUFFICES ASSUME NEW s \in Run, s # r, order[s] # 0, s \notin finished
                 PROVE \/ generations'[ProviderOf[s]] = s
                       \/ \E t \in Run : /\ ProviderOf[t] = ProviderOf[s]
                                         /\ order'[t] > order'[s]
      BY <2>1, <2>2, <2>4
    <3>1. CASE ProviderOf[s] = ProviderOf[r]
      <4>1. order'[r] > order'[s]
        BY <2>1, <2>3
      <4> QED
        BY <3>1, <4>1
    <3>2. CASE ProviderOf[s] # ProviderOf[r]
      <4>1. generations'[ProviderOf[s]] = generations[ProviderOf[s]]
        BY <2>2, <3>2
      <4>2. CASE generations[ProviderOf[s]] = s
        BY <4>1, <4>2
      <4>3. CASE \E t \in Run : /\ ProviderOf[t] = ProviderOf[s]
                                /\ order[t] > order[s]
        BY <4>3, <3>2, <2>1
      <4> QED
        BY <4>2, <4>3 DEF OrderInv
    <3> QED
      BY <3>1, <3>2
  <2> QED
    BY <2>5, <2>6, <2>7, <2>8 DEF OrderInv
<1>2. ASSUME NEW r \in Run, Finish(r) PROVE OrderInv'
  <2>1. /\ UNCHANGED <<pc, order, begins>>
        /\ finished' = finished \cup {r}
        /\ \A p \in Provider :
             \/ generations'[p] = generations[p]
             \/ generations[p] = r /\ p = ProviderOf[r] /\ generations'[p] = None
        /\ generations[ProviderOf[r]] = r => generations'[ProviderOf[r]] = None
    BY <1>2 DEF Finish, Forget
  <2>2. \A c \in Call : RunOf[c] = r => ~ InFlight(c)
    BY <1>2 DEF Finish
  <2>3. \A s \in Run :
          order[s] # 0 /\ s \notin finished' =>
            \/ generations'[ProviderOf[s]] = s
            \/ \E t \in Run :
                 ProviderOf[t] = ProviderOf[s] /\ order[t] > order[s]
    <3> SUFFICES ASSUME NEW s \in Run, order[s] # 0, s \notin finished, s # r,
                        generations[ProviderOf[s]] = s
                 PROVE generations'[ProviderOf[s]] = s
      BY <2>1 DEF OrderInv
    <3> QED
      BY <2>1
  <2> QED
    BY <2>1, <2>2, <2>3 DEF OrderInv
<1>3. ASSUME NEW c \in Call, Abort(c) PROVE OrderInv'
  BY <1>0, <1>3 DEF Abort
<1>4. ASSUME NEW c \in Call, Commit(c) PROVE OrderInv'
  BY <1>4 DEF Commit, OrderInv
<1>5. ASSUME NEW c \in Call, Enter(c) PROVE OrderInv'
  BY <1>0, <1>5 DEF Enter
<1>6. ASSUME NEW c \in Call, Refuse(c) PROVE OrderInv'
  BY <1>0, <1>6 DEF Refuse, Settle
<1>7. ASSUME NEW c \in Call, Publish(c) PROVE OrderInv'
  BY <1>0, <1>7 DEF Publish
<1>8. ASSUME NEW c \in Call, PublishFails(c) PROVE OrderInv'
  BY <1>0, <1>8 DEF PublishFails, Settle
<1>9. ASSUME NEW c \in Call, Complete(c) PROVE OrderInv'
  BY <1>0, <1>9 DEF Complete, Settle
<1>10. ASSUME NEW c \in Call, Resolve(c) PROVE OrderInv'
  BY <1>0, <1>10 DEF Resolve
<1>11. CASE UNCHANGED vars
  BY <1>0, <1>11 DEF vars
<1> QED
  BY <1>1, <1>2, <1>3, <1>4, <1>5, <1>6, <1>7, <1>8, <1>9, <1>10, <1>11
     DEF Next, CallStep

\* A run admitted to the critical section began no earlier than the last one.
LEMMA EntersInOrder ==
  ASSUME TypeOK, OrderInv, NewestInv, NEW c \in Call, Enter(c)
  PROVE order[RunOf[c]] >= newest[Site(c)]
<1>1. generations[Site(c)] = RunOf[c] /\ RunOf[c] # None
  BY SiteType, CommitAssumption DEF Enter, MayPublish
<1>2. \A r \in Run : ProviderOf[r] = Site(c) => order[r] <= order[RunOf[c]]
  BY <1>1, SiteType DEF OrderInv
<1> QED
  BY <1>2, SiteType DEF NewestInv, TypeOK

LEMMA NewestStep ==
  ASSUME TypeOK, QueueInv, OrderInv, NewestInv, [Next]_vars
  PROVE NewestInv'
<1> USE CommitAssumption, SiteType DEF TypeOK, historyVars, serviceVars
<1>0. ASSUME UNCHANGED <<order, newest, written>>,
             \A d \in Call : pc'[d] = "publishing" => pc[d] = "publishing"
      PROVE NewestInv'
  BY <1>0 DEF NewestInv, Site
<1>1. ASSUME NEW r \in Run, Begin(r) PROVE NewestInv'
  <2>1. /\ \A s \in Run : s # r => order'[s] = order[s]
        /\ order[r] = 0 /\ UNCHANGED <<newest, written, pc>>
    BY <1>1 DEF Begin
  <2>2. \A c \in Call : pc[c] = "publishing" => order[RunOf[c]] # 0
    BY DEF OrderInv, InFlight
  <2> QED
    BY <2>1, <2>2 DEF NewestInv, Site
<1>2. ASSUME NEW r \in Run, Finish(r) PROVE NewestInv'
  BY <1>0, <1>2 DEF Finish
<1>3. ASSUME NEW c \in Call, Abort(c) PROVE NewestInv'
  BY <1>0, <1>3 DEF Abort
<1>4. ASSUME NEW c \in Call, Commit(c) PROVE NewestInv'
  BY <1>0, <1>4 DEF Commit
<1>5. ASSUME NEW c \in Call, Enter(c) PROVE NewestInv'
  <2>1. AheadSettled(c) /\ pc[c] = "waiting"
    BY <1>5, TurnComes DEF Enter
  <2>2. \A d \in Call : pc[d] = "publishing" => Site(d) # Site(c)
    <3> SUFFICES ASSUME NEW d \in Call, pc[d] = "publishing", Site(d) = Site(c)
                 PROVE FALSE
      OBVIOUS
    <3>1. AheadSettled(d)
      BY DEF QueueInv, TurnInv
    <3>2. Ahead(c, d) \/ Ahead(d, c)
      BY <2>1, CallsAreOrdered
    <3> QED
      BY <2>1, <3>1, <3>2 DEF AheadSettled
  <2>3. /\ \A p \in Provider : newest'[p] = IF p = Site(c) THEN order[RunOf[c]]
                                            ELSE newest[p]
        /\ UNCHANGED <<order, written>>
        /\ \A d \in Call : pc'[d] = IF d = c THEN "publishing" ELSE pc[d]
    BY <1>5 DEF Enter
  <2>4. order[RunOf[c]] >= newest[Site(c)]
    BY <1>5, EntersInOrder
  <2>5. \A p \in Provider :
          /\ written'[p] <= newest'[p]
          /\ newest'[p] # 0 =>
               \E r \in Run : ProviderOf[r] = p /\ order'[r] = newest'[p]
    BY <2>3, <2>4 DEF NewestInv, Site
  <2>6. \A d \in Call :
          pc'[d] = "publishing" => newest'[Site(d)] = order'[RunOf[d]]
    BY <2>2, <2>3 DEF NewestInv
  <2> QED
    BY <2>5, <2>6 DEF NewestInv, Site
<1>6. ASSUME NEW c \in Call, Refuse(c) PROVE NewestInv'
  BY <1>0, <1>6 DEF Refuse, Settle
<1>7. ASSUME NEW c \in Call, Publish(c) PROVE NewestInv'
  <2>1. newest[Site(c)] = order[RunOf[c]]
    BY <1>7 DEF Publish, NewestInv
  <2> QED
    BY <1>7, <2>1 DEF Publish, NewestInv, Site
<1>8. ASSUME NEW c \in Call, PublishFails(c) PROVE NewestInv'
  BY <1>0, <1>8 DEF PublishFails, Settle
<1>9. ASSUME NEW c \in Call, Complete(c) PROVE NewestInv'
  BY <1>0, <1>9 DEF Complete, Settle
<1>10. ASSUME NEW c \in Call, Resolve(c) PROVE NewestInv'
  BY <1>0, <1>10 DEF Resolve
<1>11. CASE UNCHANGED vars
  BY <1>0, <1>11 DEF vars
<1> QED
  BY <1>1, <1>2, <1>3, <1>4, <1>5, <1>6, <1>7, <1>8, <1>9, <1>10, <1>11
     DEF Next, CallStep

LEMMA InitInv == Init => IInv
<1> SUFFICES ASSUME Init PROVE IInv
  OBVIOUS
<1>1. TypeOK
  BY CommitAssumption DEF Init, TypeOK
<1>2. QueueInv
  BY SiteType, CommitAssumption
     DEF Init, QueueInv, ArrivalInv, TailInv, PreviousInv, ResolvedInv,
         TurnInv, InFlight, Ahead, AheadSettled
<1>3. OrderInv /\ NewestInv
  BY SiteType, CommitAssumption DEF Init, OrderInv, NewestInv, InFlight
<1> QED
  BY <1>1, <1>2, <1>3 DEF IInv

LEMMA Inductive == Spec => []IInv
<1>1. TypeOK /\ IInv /\ [Next]_vars => QueueInv' /\ OrderInv' /\ NewestInv'
  BY QueueStep, OrderStep, NewestStep DEF IInv
<1>2. Spec => [](QueueInv /\ OrderInv /\ NewestInv)
  <2>1. Init => QueueInv /\ OrderInv /\ NewestInv
    BY InitInv DEF IInv
  <2>2. TypeOK /\ (QueueInv /\ OrderInv /\ NewestInv) /\ [Next]_vars
          => (QueueInv /\ OrderInv /\ NewestInv)'
    BY <1>1 DEF IInv
  <2> QED
    BY <2>1, <2>2, TypeCorrect, PTL DEF Spec
<1> QED
  BY <1>2, TypeCorrect, PTL DEF IInv

\* For any number of providers, runs and calls, at most one call of a provider
\* is publishing: commit()'s tails are a lock.
THEOREM MutualExclusion == Spec => []OnePublisherPerProvider
<1>1. IInv => OnePublisherPerProvider
  BY DEF IInv, QueueInv, TurnInv, ArrivalInv, AheadSettled, Ahead, TypeOK,
         OnePublisherPerProvider
<1> QED
  BY <1>1, Inductive, PTL

\* No tail outlives the calls in flight, so the map of tails never leaks.
THEOREM NoTailLeak == Spec => []TailsAreReclaimed
<1>1. IInv => TailsAreReclaimed
  BY DEF IInv, QueueInv, TailInv, InFlight, TypeOK, TailsAreReclaimed
<1> QED
  BY <1>1, Inductive, PTL

\* Nothing an older run publishes lands after a newer run's publication.
THEOREM WritesOrdered == Spec => WritesFollowBeginOrder
<1> DEFINE Ordered == \A p \in Provider : written'[p] >= written[p]
<1>1. IInv /\ [Next]_vars => [Ordered]_written
  <2> SUFFICES ASSUME IInv, [Next]_vars, written' # written PROVE Ordered
    OBVIOUS
  <2>1. PICK c \in Call : Publish(c)
    BY DEF Next, CallStep, Begin, Finish, Abort, Commit, Enter, Refuse,
           PublishFails, Complete, Resolve, historyVars, vars
  <2>2. newest[Site(c)] = order[RunOf[c]] /\ written[Site(c)] <= newest[Site(c)]
    BY <2>1, SiteType DEF Publish, IInv, NewestInv
  <2> QED
    BY <2>1, <2>2, SiteType DEF Publish, IInv, TypeOK
<1> QED
  BY <1>1, Inductive, PTL DEF Spec, WritesFollowBeginOrder

\* A call is turned away only because its signal fired or a newer run began.
THEOREM RefusalsJustified == Spec => OnlySupersededIsRefused
<1> DEFINE Justified ==
      \A c \in Call :
        pc[c] = "waiting" /\ pc'[c] = "settled" /\ c \notin aborted =>
          \E r \in Run :
            /\ ProviderOf[r] = Site(c)
            /\ order[r] > order[RunOf[c]]
<1>1. IInv /\ [Next]_vars => [Justified]_pc
  <2> SUFFICES ASSUME IInv, [Next]_vars,
                      NEW c \in Call, pc[c] = "waiting", pc'[c] = "settled",
                      c \notin aborted
               PROVE \E r \in Run : /\ ProviderOf[r] = Site(c)
                                    /\ order[r] > order[RunOf[c]]
    OBVIOUS
  <2>1. Refuse(c)
    BY DEF IInv, TypeOK, Next, CallStep, Begin, Finish, Abort, Commit, Enter,
           Publish, PublishFails, Complete, Resolve, Refuse, Settle,
           historyVars, serviceVars, vars
  <2>2. generations[Site(c)] # RunOf[c]
    BY <2>1 DEF Refuse, MayPublish
  <2>3. order[RunOf[c]] # 0 /\ RunOf[c] \notin finished
    BY DEF IInv, OrderInv, InFlight
  <2> QED
    BY <2>2, <2>3, SiteType DEF IInv, OrderInv, Site
<1> QED
  BY <1>1, Inductive, PTL DEF Spec, OnlySupersededIsRefused

-----------------------------------------------------------------------------
(* The refinement.                                                         *)

LEMMA OwnerIsPublisher ==
  ASSUME OnePublisherPerProvider, NEW c \in Call, pc[c] = "publishing"
  PROVE lockOwner[Site(c)] = c
<1>1. Publisher(Site(c)) = {c}
  BY DEF Publisher, OnePublisherPerProvider
<1> QED
  BY <1>1, SiteType DEF lockOwner

LEMMA NoOwner ==
  ASSUME NEW p \in Provider, \A c \in Call : Site(c) = p => pc[c] # "publishing"
  PROVE lockOwner[p] = None
<1>1. Publisher(p) = {}
  BY DEF Publisher
<1> QED
  BY <1>1 DEF lockOwner

\* A step that moves one call into or out of its publishing loop changes the
\* owner of that call's provider and of no other.
LEMMA OwnerOfOthers ==
  ASSUME TypeOK, NEW c \in Call, NEW v, pc' = [pc EXCEPT ![c] = v],
         NEW p \in Provider, p # Site(c)
  PROVE lockOwner'[p] = lockOwner[p]
<1>1. Publisher(p)' = Publisher(p)
  BY DEF Publisher, Site, TypeOK
<1> QED
  BY <1>1 DEF lockOwner

LEMMA SameOwners ==
  ASSUME \A p \in Provider : Publisher(p)' = Publisher(p)
  PROVE lockOwner' = lockOwner
<1>1. ASSUME NEW p \in Provider PROVE lockOwner'[p] = lockOwner[p]
  <2>1. Publisher(p)' = Publisher(p)
    OBVIOUS
  <2> QED
    BY ONLY <2>1, p \in Provider DEF lockOwner
<1> QED
  BY ONLY <1>1 DEF lockOwner

\* Only a call in its publishing loop is an owner.
LEMMA OwnersPublish ==
  ASSUME NEW p \in Provider, lockOwner[p] # None
  PROVE pc[lockOwner[p]] = "publishing"
<1>1. Publisher(p) # {} /\ lockOwner[p] = CHOOSE c \in Publisher(p) : TRUE
  BY DEF lockOwner
<1> QED
  BY <1>1 DEF Publisher

\* Every behaviour of the tails and generations is one of the abstract lock.
THEOREM ImplementsLock == Spec => LockSafety
<1>1. Init => Lock!Init
  <2> SUFFICES ASSUME Init PROVE Lock!Init
    OBVIOUS
  <2>1. \A p \in Provider : lockOwner[p] = None
    BY NoOwner DEF Init
  <2>2. lockOwner = [p \in Provider |-> None]
    BY <2>1 DEF lockOwner
  <2>3. lockWaiting = {}
    BY DEF Init, lockWaiting
  <2> QED
    BY <2>2, <2>3 DEF Init, Lock!Init
<1>2. /\ IInv /\ OnePublisherPerProvider /\ OnePublisherPerProvider'
      /\ [Next]_vars
      => [Lock!Next]_Lock!vars
  <2> SUFFICES ASSUME IInv, OnePublisherPerProvider, OnePublisherPerProvider',
                      [Next]_vars
               PROVE [Lock!Next]_Lock!vars
    OBVIOUS
  <2> USE DEF IInv
  <2>0. ASSUME UNCHANGED <<pc, newest, written>> PROVE UNCHANGED Lock!vars
    <3>1. \A p \in Provider : Publisher(p)' = Publisher(p)
      BY <2>0 DEF Publisher, Site
    <3> QED
      BY <2>0, <3>1, SameOwners DEF Lock!vars, lockWaiting
  <2>1. ASSUME NEW c \in Call, Enter(c) PROVE Lock!Acquire(c)
    <3>1. pc[c] = "waiting" /\ pc' = [pc EXCEPT ![c] = "publishing"]
      BY <2>1 DEF Enter
    <3>2. lockOwner'[Site(c)] = c
      <4>1. Publisher(Site(c))' = {c}
        BY <3>1 DEF Publisher, Site, TypeOK, OnePublisherPerProvider
      <4> QED
        BY <4>1, SiteType DEF lockOwner
    <3>3. lockOwner[Site(c)] = None
      <4>1. \A d \in Call : Site(d) = Site(c) => pc[d] # "publishing"
        BY <3>1 DEF TypeOK, OnePublisherPerProvider, Site
      <4> QED
        BY <4>1, NoOwner, SiteType
    <3>4. \A p \in Provider : p # Site(c) => lockOwner'[p] = lockOwner[p]
      BY <3>1, OwnerOfOthers
    <3>5. lockOwner' = [lockOwner EXCEPT ![Site(c)] = c]
      BY <3>2, <3>4, SiteType DEF lockOwner
    <3>6. order[RunOf[c]] >= newest[Site(c)]
      BY <2>1, EntersInOrder
    <3>7. /\ newest' = [newest EXCEPT ![Site(c)] = order[RunOf[c]]]
          /\ written' = written
      BY <2>1 DEF Enter
    <3>8. newest'[Site(c)] = order[RunOf[c]]
      BY <3>7, SiteType DEF TypeOK
    <3>9. c \in lockWaiting /\ lockWaiting' = lockWaiting \ {c}
      BY <3>1 DEF lockWaiting, TypeOK
    <3> QED
      BY <3>3, <3>5, <3>6, <3>7, <3>8, <3>9 DEF Lock!Acquire
  <2>2. ASSUME NEW c \in Call, Publish(c) PROVE Lock!Write(Site(c))
    <3>1. lockOwner[Site(c)] = c /\ c # None
      BY <2>2, OwnerIsPublisher, CommitAssumption DEF Publish
    <3>2. newest[Site(c)] = order[RunOf[c]]
      BY <2>2 DEF Publish, NewestInv
    <3>3. lockOwner' = lockOwner /\ lockWaiting' = lockWaiting
      BY <2>2 DEF Publish, lockOwner, lockWaiting, Publisher, Site
    <3> QED
      BY <2>2, <3>1, <3>2, <3>3 DEF Publish, Lock!Write
  <2>3. ASSUME NEW c \in Call, pc[c] = "publishing", Settle(c),
               UNCHANGED <<newest, written>>
        PROVE Lock!Release(Site(c))
    <3>1. lockOwner[Site(c)] = c /\ c # None
      BY <2>3, OwnerIsPublisher, CommitAssumption
    <3>2. lockOwner'[Site(c)] = None
      <4>1. Publisher(Site(c))' = {}
        BY <2>3 DEF Settle, Publisher, Site, TypeOK, OnePublisherPerProvider
      <4> QED
        BY <4>1, SiteType DEF lockOwner
    <3>3. \A p \in Provider : p # Site(c) => lockOwner'[p] = lockOwner[p]
      BY <2>3, OwnerOfOthers DEF Settle
    <3>4. lockOwner' = [lockOwner EXCEPT ![Site(c)] = None]
      BY <3>2, <3>3, SiteType DEF lockOwner
    <3>5. lockWaiting' = lockWaiting
      BY <2>3 DEF Settle, lockWaiting, TypeOK
    <3> QED
      BY <2>3, <3>1, <3>4, <3>5 DEF Lock!Release
  <2>4. ASSUME NEW c \in Call, pc[c] # "publishing", pc'[c] # "publishing",
               \A d \in Call : d # c => pc'[d] = pc[d]
        PROVE lockOwner' = lockOwner
    <3>1. \A p \in Provider : Publisher(p)' = Publisher(p)
      BY <2>4 DEF Publisher, Site
    <3> QED
      BY <3>1, SameOwners
  <2>5. ASSUME NEW r \in Run, Begin(r) \/ Finish(r)
        PROVE UNCHANGED <<pc, newest, written>>
    BY <2>5 DEF Begin, Finish, historyVars
  <2>6. ASSUME NEW c \in Call, Abort(c) \/ Resolve(c)
        PROVE UNCHANGED <<pc, newest, written>>
    BY <2>6 DEF Abort, Resolve, historyVars, serviceVars
  <2>7. ASSUME NEW c \in Call, Commit(c) PROVE Lock!Ask(c)
    <3>1. pc[c] = "idle" /\ pc' = [pc EXCEPT ![c] = "waiting"]
      BY <2>7 DEF Commit
    <3>2. lockOwner' = lockOwner
      BY <2>4, <3>1 DEF TypeOK
    <3>3. c \notin lockWaiting /\ lockWaiting' = lockWaiting \cup {c}
      BY <3>1 DEF lockWaiting, TypeOK
    <3>4. lockOwner[Site(c)] # c
      BY <3>1, SiteType, CommitAssumption, OwnersPublish
    <3> QED
      BY <2>7, <3>2, <3>3, <3>4 DEF Commit, Lock!Ask, Lock!Inside
  <2>8. ASSUME NEW c \in Call, Refuse(c) PROVE Lock!Refuse(c)
    <3>1. pc[c] = "waiting" /\ pc' = [pc EXCEPT ![c] = "settled"]
      BY <2>8 DEF Refuse, Settle
    <3>2. lockOwner' = lockOwner
      BY <2>4, <3>1 DEF TypeOK
    <3>3. c \in lockWaiting /\ lockWaiting' = lockWaiting \ {c}
      BY <3>1 DEF lockWaiting, TypeOK
    <3> QED
      BY <2>8, <3>2, <3>3 DEF Refuse, Lock!Refuse, historyVars
  <2>9. ASSUME NEW c \in Call, PublishFails(c) PROVE Lock!Release(Site(c))
    BY <2>3, <2>9 DEF PublishFails, historyVars
  <2>10. ASSUME NEW c \in Call, Complete(c) PROVE Lock!Release(Site(c))
    BY <2>3, <2>10 DEF Complete, historyVars
  <2> QED
    BY <2>0, <2>1, <2>2, <2>5, <2>6, <2>7, <2>8, <2>9, <2>10, SiteType
       DEF Next, CallStep, Lock!Next, vars
<1> QED
  BY <1>1, <1>2, Inductive, MutualExclusion, PTL DEF Spec, LockSafety, Lock!Safety

=============================================================================
