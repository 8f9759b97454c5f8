--------------------------- MODULE LocalCdpProofs ---------------------------
(***************************************************************************)
(* The safety properties of LocalCdp, for any number of tabs, connections, *)
(* jobs and faults.  The invariant says what a job in each phase has, who  *)
(* holds the leases of the connection and where every target is.  Its      *)
(* steps are proved from what an action changes, not from how it writes    *)
(* it: `Moves' reduces the actions to twenty such changes.  The line of    *)
(* the warm-ups has no part in it.                                         *)
(***************************************************************************)
EXTENDS LocalCdp, FiniteSetTheorems, TLAPS

\* A tab, a collector's feed and a job of runExclusive().
Tab == [target : Nat, gen : Nat]
Feed == [target : Nat, gen : Nat, warmed : BOOLEAN]
Phase == {"idle", "tab", "endpoint", "connect", "attach", "version", "undo", "action",
          "feed", "session", "drop", "warm", "warming", "capture", "closing"}
Job == [phase : Phase, kind : {"none", "list", "detail"}, back : {"action", "feed"},
        aborted : BOOLEAN, target : Nat, gen : Nat]

\* The variables' types, but for the line of the warm-ups.
PlacesTyped ==
  /\ chrome \in [open : SUBSET Nat, made : Nat] /\ notices \subseteq Nat
  /\ conn \in [gen : Nat, state : {"none", "connecting", "open"}, users : Nat]
  /\ tab \in [Provider -> Tab \union {None}] /\ closing \in [Provider -> Tab \union {None}]
  /\ feed \in [Provider -> Feed \union {None}] /\ job \in [Provider -> Job]
  /\ leftover \subseteq [target : Nat, gen : Nat, inLine : BOOLEAN]
  /\ closer \in {"no", "drain", "tabs", "closed"}
  /\ orphans \subseteq Nat /\ overlooked \subseteq Nat
TypeInv == PlacesTyped /\ cooling \in BOOLEAN /\ spent \in [jobs : Nat, faults : Nat]

\* What a job in each phase has: a target, a lease, a tab or a feed.
JobInv ==
  \A p \in Provider :
    /\ job[p].target # 0 <=> job[p].phase \in {"attach", "version", "undo", "session"}
    /\ job[p].gen # 0 <=> job[p].phase \in {"connect", "attach", "version", "undo", "session"}
    /\ job[p].phase \in {"endpoint", "connect", "attach", "version", "undo"} => tab[p] = None
    /\ job[p].phase \in {"drop", "warm", "warming", "capture"} => feed[p] # None
    /\ job[p].phase \in {"feed", "session"} => job[p].back = "feed"
    /\ /\ job[p].back = "feed"
       /\ job[p].phase \in {"tab", "endpoint", "connect", "attach", "version", "undo",
                            "feed", "session"}
       => feed[p] = None

\* A tab is closed for the job that left it or by close(), after the last job.
CloseInv ==
  \A p \in Provider :
    /\ closing[p] # None =>
         tab[p] = None /\ (job[p].phase = "closing" \/ closer = "tabs")
    /\ closer \in {"tabs", "closed"} => job[p].phase = "idle"
    /\ closer = "closed" => tab[p] = None

\* The leases of the entry of the endpoint that p holds.
One(b) == IF b THEN 1 ELSE 0
Leases(p) ==
  One(tab[p] # None /\ tab[p].gen = conn.gen)
  + One(closing[p] # None /\ closing[p].gen = conn.gen)
  + One(feed[p] # None /\ feed[p].gen = conn.gen)
  + One(job[p].gen = conn.gen)

\* Every lease was taken of this entry or an earlier one, a tab's of this one.
LeaseInv ==
  /\ conn.state # "none" =>
       /\ conn.gen > 0 /\ conn.users > 0
       /\ conn.users = Leases("bet365") + Leases("betano")
  /\ \A p \in Provider :
       /\ tab[p] # None => conn.state = "open" /\ tab[p].gen = conn.gen
       /\ closing[p] # None => closing[p].gen <= conn.gen
       /\ feed[p] # None => feed[p].gen <= conn.gen
       /\ job[p].gen <= conn.gen
       /\ job[p].phase = "version" /\ job[p].gen = conn.gen => conn.state # "connecting"

\* The targets p has to do with.
Uses(p) ==
  {t \in 1..chrome.made :
     \/ tab[p] # None /\ tab[p].target = t
     \/ closing[p] # None /\ closing[p].target = t
     \/ feed[p] # None /\ feed[p].target = t
     \/ job[p].target = t}

\* Targets are numbered as they are made, and no two providers share one.
TargetInv ==
  /\ chrome.open \subseteq 1..chrome.made /\ notices \subseteq 1..chrome.made
  /\ chrome.open \intersect notices = {}
  /\ \A l \in leftover : l.target \in 1..chrome.made
  /\ \A p \in Provider :
       /\ tab[p] # None => tab[p].target \in 1..chrome.made
       /\ closing[p] # None => closing[p].target \in 1..chrome.made
       /\ feed[p] # None => feed[p].target \in 1..chrome.made
       /\ job[p].target \in 0..chrome.made
  /\ Uses("bet365") \intersect Uses("betano") = {}

\* Nobody opens or feeds on what an aborted job left.
LeftInv ==
  \A l \in leftover, p \in Provider :
    /\ tab[p] # None => tab[p].target # l.target
    /\ job[p].phase \in {"attach", "version"} => job[p].target # l.target

\* Where the target of a job is when the job lets go of it.
PlaceInv ==
  /\ \A p \in Provider :
       /\ job[p].phase = "session" /\ job[p].target \in chrome.open \ orphans =>
            tab[p] # None /\ tab[p].target = job[p].target
       /\ job[p].phase = "version" /\ Alive(job[p].gen) =>
            job[p].target \in chrome.open \union notices \union overlooked
       /\ tab[p] # None => tab[p].target \in chrome.open \union notices \union overlooked
  /\ chrome.open \subseteq Owned \union orphans

-----------------------------------------------------------------------------
(* Steps, by what they change.                                             *)

Chrome == [open : SUBSET Nat, made : Nat]
Conn == [gen : Nat, state : {"none", "connecting", "open"}, users : Nat]

\* g is f but for p.
But(f, g, p) == \A q \in Provider \ {p} : g[q] = f[q]

\* The job of p, after the step.
Becomes(p, phase, back, gen, target) ==
  /\ job' \in [Provider -> Job] /\ But(job, job', p)
  /\ job'[p].phase = phase /\ job'[p].back = back
  /\ job'[p].gen = gen /\ job'[p].target = target
Turns(p, phase) == Becomes(p, phase, job[p].back, job[p].gen, job[p].target)

\* The job is over, and its tab closed where it was aborted.
Ends(p) ==
  \/ /\ Becomes(p, "idle", "action", 0, 0)
     /\ UNCHANGED <<tab, closing>>
  \/ /\ Becomes(p, "closing", "action", 0, 0)
     /\ tab' \in [Provider -> Tab \union {None}] /\ But(tab, tab', p)
     /\ closing' \in [Provider -> Tab \union {None}] /\ But(closing, closing', p)
     /\ tab[p] # None /\ tab'[p] = None /\ closing'[p] = tab[p]

\* A lease is taken,
Takes ==
  /\ conn' \in Conn
  /\ \/ /\ conn.state = "none"
        /\ conn'.gen = conn.gen + 1 /\ conn'.state = "connecting" /\ conn'.users = 1
     \/ /\ conn.state # "none"
        /\ conn'.gen = conn.gen /\ conn'.state = conn.state /\ conn'.users = conn.users + 1

\* or given back.
Gives(gen) ==
  /\ conn' \in Conn
  /\ \/ (conn.gen # gen \/ conn.state = "none") /\ conn' = conn
     \/ /\ conn.gen = gen /\ conn.state # "none" /\ conn.users = 1
        /\ conn'.gen = conn.gen /\ conn'.state = "none"
     \/ /\ conn.gen = gen /\ conn.state # "none" /\ conn.users # 1
        /\ conn'.gen = conn.gen /\ conn'.state = conn.state /\ conn'.users = conn.users - 1

\* The entry of the endpoint is no more.
Gone == /\ conn' \in Conn /\ conn'.gen = conn.gen /\ conn'.state = "none"

\* Targets of ours that stop being open, and those that may stay for ever.
Closes(t) ==
  /\ chrome' \in Chrome /\ chrome'.open = chrome.open \ {t} /\ chrome'.made = chrome.made
Made ==
  /\ chrome' \in Chrome
  /\ chrome'.open = chrome.open \union {chrome.made + 1} /\ chrome'.made = chrome.made + 1
Keeps(t) == orphans' = orphans \union {t}

\* A job goes on without a change of anything else,
Waits(p) ==
  /\ \/ job[p].phase = "idle" /\ closer = "no" /\ Becomes(p, "tab", "action", 0, 0)
     \/ job[p].phase = "tab" /\ tab[p] = None /\ Turns(p, "endpoint")
     \/ job[p].phase = "tab" /\ Turns(p, job[p].back)
     \/ job[p].phase = "attach" /\ Reached(job[p]) /\ Turns(p, "version")
     \/ job[p].phase \in {"attach", "version"} /\ Turns(p, "undo")
     \/ /\ job[p].phase = "action" /\ feed[p] = None
        /\ Becomes(p, "tab", "feed", job[p].gen, job[p].target)
     \/ /\ job[p].phase = "action" /\ feed[p] # None
        /\ \E phase \in {"drop", "warm", "capture"} :
             Becomes(p, phase, "feed", job[p].gen, job[p].target)
     \/ job[p].phase = "warm" /\ Turns(p, "warming")
     \/ job[p].phase = "capture" /\ Becomes(p, "idle", "action", 0, 0)
     \/ job[p].phase \notin {"idle", "closing"} /\ Turns(p, job[p].phase)
  /\ UNCHANGED <<chrome, notices, conn, tab, closing, feed, leftover, closer,
                 orphans, overlooked>>

\* or ends without one,
Stops(p) ==
  /\ \/ job[p].phase \in {"tab", "endpoint", "action", "feed", "warm", "warming", "capture"}
     \/ job[p].phase = "connect" /\ (conn.state = "none" \/ conn.gen # job[p].gen)
  /\ Ends(p)
  /\ UNCHANGED <<chrome, notices, conn, feed, leftover, closer, orphans, overlooked>>

\* or ends and leaves something to go on,
Leaves(p) ==
  /\ job[p].phase \in {"warm", "warming", "capture"}
  /\ Ends(p) /\ tab'[p] = None
  /\ leftover' \subseteq [target : Nat, gen : Nat, inLine : BOOLEAN]
  /\ \A l \in leftover' : l \in leftover \/ l.target = feed[p].target
  /\ UNCHANGED <<chrome, notices, conn, feed, closer, orphans, overlooked>>

\* or takes a lease, for a tab or a feed,
Leasing(p) ==
  /\ Takes
  /\ \/ /\ job[p].phase = "endpoint"
        /\ Becomes(p, "connect", job[p].back, conn'.gen, job[p].target)
     \/ /\ job[p].phase = "feed" /\ tab[p] # None
        /\ Becomes(p, "session", job[p].back, conn'.gen, tab[p].target)
  /\ UNCHANGED <<chrome, notices, tab, closing, feed, leftover, closer, orphans,
                 overlooked>>

\* or ends and gives its own back,
Releasing(p) ==
  /\ Gives(job[p].gen) /\ Ends(p)
  /\ \/ job[p].phase \in {"connect", "session"} /\ UNCHANGED <<chrome, orphans>>
     \/ job[p].phase = "connect" /\ Made /\ Keeps(chrome.made + 1)
     \/ job[p].phase = "undo" /\ Closes(job[p].target) /\ UNCHANGED orphans
     \/ job[p].phase = "undo" /\ UNCHANGED chrome /\ Keeps(job[p].target)
  /\ UNCHANGED <<notices, feed, leftover, closer, overlooked>>

\* or has made a target, which becomes its tab,
Creating(p) ==
  /\ job[p].phase = "connect" /\ Alive(job[p].gen)
  /\ Made /\ Becomes(p, "attach", job[p].back, job[p].gen, chrome.made + 1)
  /\ UNCHANGED <<notices, conn, tab, closing, feed, leftover, closer, orphans,
                 overlooked>>
Having(p) ==
  /\ job[p].phase = "version" /\ Alive(job[p].gen)
  /\ tab' \in [Provider -> Tab \union {None}] /\ But(tab, tab', p)
  /\ tab'[p] \in Tab /\ tab'[p].target = job[p].target /\ tab'[p].gen = job[p].gen
  /\ Becomes(p, job[p].back, job[p].back, 0, 0)
  /\ UNCHANGED <<chrome, notices, conn, closing, feed, leftover, closer, orphans,
                 overlooked>>

\* or has a feed of it, that is warmed or dropped.
Feeding(p) ==
  /\ job[p].phase = "session" /\ Reached(job[p])
  /\ feed' \in [Provider -> Feed \union {None}] /\ But(feed, feed', p)
  /\ feed'[p] \in Feed /\ feed'[p].target = job[p].target /\ feed'[p].gen = job[p].gen
  /\ \E phase \in {"drop", "warm"} : Becomes(p, phase, job[p].back, 0, 0)
  /\ UNCHANGED <<chrome, notices, conn, tab, closing, leftover, closer, orphans,
                 overlooked>>
Warming(p) ==
  /\ job[p].phase = "warming" /\ feed[p] # None
  /\ feed' \in [Provider -> Feed \union {None}] /\ But(feed, feed', p)
  /\ feed'[p] \in Feed /\ feed'[p].target = feed[p].target /\ feed'[p].gen = feed[p].gen
  /\ Turns(p, "capture")
  /\ UNCHANGED <<chrome, notices, conn, tab, closing, leftover, closer, orphans,
                 overlooked>>
Dropping(p) ==
  /\ feed[p] # None /\ Gives(feed[p].gen)
  /\ feed' \in [Provider -> Feed \union {None}] /\ But(feed, feed', p) /\ feed'[p] = None
  /\ \/ job[p].phase = "drop" /\ Ends(p)
     \/ job[p].phase = "drop" /\ Turns(p, "tab") /\ UNCHANGED <<tab, closing>>
     \/ job[p].phase = "idle" /\ UNCHANGED <<job, tab, closing>>
  /\ UNCHANGED <<chrome, notices, leftover, closer, orphans, overlooked>>

\* A tab that was let go of is closed.
Shutting(p) ==
  /\ closing[p] # None /\ Gives(closing[p].gen)
  /\ \/ Closes(closing[p].target) /\ UNCHANGED orphans
     \/ UNCHANGED chrome /\ Keeps(closing[p].target)
  /\ closing' \in [Provider -> Tab \union {None}] /\ But(closing, closing', p)
  /\ closing'[p] = None
  /\ \/ job[p].phase = "closing" /\ Becomes(p, "idle", "action", 0, 0)
     \/ job[p].phase # "closing" /\ UNCHANGED job
  /\ UNCHANGED <<notices, tab, feed, leftover, closer, overlooked>>

\* Chrome, and what nobody awaits.
GoingOn ==
  /\ leftover' \subseteq [target : Nat, gen : Nat, inLine : BOOLEAN]
  /\ \A l \in leftover' : \E k \in leftover : l.target = k.target
  /\ UNCHANGED <<chrome, notices, conn, tab, job, closing, feed, closer, orphans,
                 overlooked>>
Approved ==
  /\ conn.state = "connecting" /\ conn' \in Conn
  /\ conn'.gen = conn.gen /\ conn'.state = "open" /\ conn'.users = conn.users
  /\ UNCHANGED <<chrome, notices, tab, job, closing, feed, leftover, closer,
                 orphans, overlooked>>
NotApproved ==
  /\ conn.state = "connecting" /\ Gone
  /\ UNCHANGED <<chrome, notices, tab, job, closing, feed, leftover, closer,
                 orphans, overlooked>>
Disconnected ==
  /\ conn.state = "open" /\ Gone
  /\ notices' = {} /\ orphans' = orphans \union chrome.open
  /\ chrome' \in Chrome /\ chrome'.made = chrome.made /\ chrome'.open \subseteq chrome.open
  /\ tab' \in [Provider -> Tab \union {None}] /\ \A p \in Provider : tab'[p] = None
  /\ UNCHANGED <<job, closing, feed, leftover, closer, overlooked>>
Lost(t) ==
  /\ t \in chrome.open /\ Closes(t)
  /\ \/ conn.state = "open" /\ notices' = notices \union {t}
     \/ conn.state # "open" /\ UNCHANGED notices
  /\ UNCHANGED <<conn, tab, job, closing, feed, leftover, closer, orphans,
                 overlooked>>
Noticed(t) ==
  /\ t \in notices /\ notices' = notices \ {t}
  /\ tab' \in [Provider -> Tab \union {None}]
  /\ \A p \in Provider : tab'[p] = IF Forgets(p, t) THEN None ELSE tab[p]
  /\ \/ (\E p \in Provider : Forgets(p, t)) /\ Gives(conn.gen)
     \/ (\A p \in Provider : ~ Forgets(p, t)) /\ UNCHANGED conn
  /\ overlooked' \subseteq Nat /\ overlooked \subseteq overlooked'
  /\ \A p \in Provider :
       job[p].phase = "version" /\ job[p].target = t => t \in overlooked'
  /\ UNCHANGED <<chrome, job, closing, feed, leftover, closer, orphans>>

\* close().
Ending ==
  /\ \/ closer = "no" /\ closer' = "drain"
     \/ /\ closer = "drain" /\ closer' = "tabs"
        /\ \A p \in Provider : job[p].phase = "idle"
     \/ /\ closer = "tabs" /\ closer' = "closed"
        /\ \A p \in Provider : closing[p] = None /\ tab[p] = None
  /\ UNCHANGED <<chrome, notices, conn, tab, job, closing, feed, leftover, orphans,
                 overlooked>>
Letting(p) ==
  /\ closer = "tabs" /\ \A q \in Provider : closing[q] = None
  /\ tab[p] # None /\ tab'[p] = None /\ closing'[p] = tab[p]
  /\ tab' \in [Provider -> Tab \union {None}] /\ But(tab, tab', p)
  /\ closing' \in [Provider -> Tab \union {None}] /\ But(closing, closing', p)
  /\ UNCHANGED <<chrome, notices, conn, job, feed, leftover, closer, orphans,
                 overlooked>>
\* Nothing of this.
Resting ==
  UNCHANGED <<chrome, notices, conn, tab, job, closing, feed, leftover, closer,
              orphans, overlooked>>

\* None is neither a tab nor a feed.
LEMMA NoneIs == None \notin Tab /\ None \notin Feed
  BY LocalCdpAssumption DEF Tab, Feed

\* A rejected job ends.
LEMMA EndsOf ==
  ASSUME TypeInv, NEW p \in Provider, NEW aborted \in BOOLEAN, RejectedAs(p, aborted)
  PROVE Ends(p) /\ (ClosesTab(aborted) => tab'[p] = None)
<1> DEFINE over == [Idle EXCEPT !.phase = "closing"]
<1>1. /\ Idle \in Job /\ Idle.phase = "idle" /\ Idle.back = "action"
      /\ Idle.gen = 0 /\ Idle.target = 0
  BY DEF Idle, Job, Phase
<1>2. /\ over \in Job /\ over.phase = "closing" /\ over.back = "action"
      /\ over.gen = 0 /\ over.target = 0
  BY DEF Idle, Job, Phase
<1>3. job \in [Provider -> Job] /\ tab \in [Provider -> Tab \union {None}]
      /\ closing \in [Provider -> Tab \union {None}]
  BY DEF TypeInv, PlacesTyped
<1> HIDE DEF over
<1>4. CASE ClosesTab(aborted) /\ tab[p] # None
  <2>1. /\ job' = [job EXCEPT ![p] = over] /\ tab' = [tab EXCEPT ![p] = None]
        /\ closing' = [closing EXCEPT ![p] = tab[p]]
    BY <1>4 DEF RejectedAs, over
  <2>2. Becomes(p, "closing", "action", 0, 0)
    BY <1>2, <1>3, <2>1 DEF Becomes, But
  <2>3. /\ tab' \in [Provider -> Tab \union {None}] /\ But(tab, tab', p)
        /\ closing' \in [Provider -> Tab \union {None}] /\ But(closing, closing', p)
        /\ tab'[p] = None /\ closing'[p] = tab[p]
    BY <1>3, <2>1 DEF But
  <2> QED
    BY <1>4, <2>2, <2>3 DEF Ends
<1>5. CASE ~ (ClosesTab(aborted) /\ tab[p] # None)
  <2>1. job' = [job EXCEPT ![p] = Idle] /\ tab' = tab /\ closing' = closing
    BY <1>5 DEF RejectedAs
  <2>2. Becomes(p, "idle", "action", 0, 0)
    BY <1>1, <1>3, <2>1 DEF Becomes, But
  <2> QED
    BY <1>5, <2>1, <2>2 DEF Ends
<1> QED
  BY <1>4, <1>5

\* It ends whether it was aborted or not.
LEMMA Rejecting ==
  ASSUME TypeInv, NEW p \in Provider, Rejected(p)
  PROVE Ends(p)
  BY EndsOf DEF Rejected, TypeInv, PlacesTyped, Job

\* Released() gives a lease back.
LEMMA GivesOf ==
  ASSUME TypeInv, LeaseInv, NEW gen, conn' = Released(gen)
  PROVE Gives(gen)
<1>1. conn \in Conn /\ (conn.state # "none" => conn.users > 0)
  BY DEF TypeInv, PlacesTyped, LeaseInv, Conn
<1>2. CASE conn.gen # gen \/ conn.state = "none"
  BY <1>1, <1>2 DEF Released, Gives
<1>3. CASE ~ (conn.gen # gen \/ conn.state = "none") /\ conn.users = 1
  <2>1. conn' = Dropped
    BY <1>3 DEF Released
  <2>2. Dropped \in Conn /\ Dropped.gen = conn.gen /\ Dropped.state = "none"
    BY <1>1 DEF Conn, Dropped
  <2> QED
    BY <1>3, <2>1, <2>2 DEF Gives
<1>4. CASE ~ (conn.gen # gen \/ conn.state = "none") /\ conn.users # 1
  <2>1. conn' = [conn EXCEPT !.users = @ - 1]
    BY <1>4 DEF Released
  <2>2. conn.users \in Nat /\ conn.users - 1 \in Nat
    BY <1>1, <1>4 DEF Conn
  <2>3. conn' \in Conn /\ conn'.gen = conn.gen /\ conn'.state = conn.state
        /\ conn'.users = conn.users - 1
    BY <1>1, <2>1, <2>2 DEF Conn
  <2> QED
    BY <1>4, <2>3 DEF Gives
<1> QED
  BY <1>2, <1>3, <1>4

\* Acquired takes one.
LEMMA TakesOf ==
  ASSUME TypeInv, conn' = Acquired
  PROVE Takes /\ Acquired.gen = conn'.gen /\ conn'.gen \in Nat
<1>1. conn \in Conn
  BY DEF TypeInv, PlacesTyped, Conn
<1> QED
  BY <1>1 DEF Acquired, Takes, Conn

\* Dropped forgets the connection.
LEMMA GoneOf ==
  ASSUME TypeInv, conn' = Dropped
  PROVE Gone
  BY DEF TypeInv, PlacesTyped, Gone, Dropped, Conn

\* A job whose phase alone changes.
LEMMA TurnsOf ==
  ASSUME TypeInv, NEW p \in Provider, NEW phase \in Phase, Goes(p, phase)
  PROVE Turns(p, phase)
<1>1. job[p] \in Job /\ job \in [Provider -> Job]
  BY DEF TypeInv, PlacesTyped
<1>2. [job[p] EXCEPT !.phase = phase] \in Job
  BY <1>1 DEF Job
<1> QED
  BY <1>1, <1>2 DEF Goes, Turns, Becomes, But, Job

\* A job that is replaced.
LEMMA BecomesOf ==
  ASSUME TypeInv, NEW p \in Provider, NEW j \in Job, job' = [job EXCEPT ![p] = j]
  PROVE Becomes(p, j.phase, j.back, j.gen, j.target)
  BY DEF TypeInv, PlacesTyped, Becomes, But

\* A target that leaves the open ones.
LEMMA ClosesOf ==
  ASSUME TypeInv, NEW t, chrome' = [chrome EXCEPT !.open = @ \ {t}]
  PROVE Closes(t)
  BY DEF TypeInv, PlacesTyped, Closes, Chrome

\* What each action of a job is.
LEMMA OpeningOf ==
  ASSUME TypeInv, JobInv, LeaseInv, NEW p \in Provider, Opening(p)
  PROVE \/ Waits(p) \/ Stops(p) \/ Leasing(p) \/ Releasing(p) \/ Creating(p) \/ Having(p)
<1>0. /\ job[p] \in Job /\ job[p].phase \in Phase /\ job[p].back \in {"action", "feed"}
      /\ job[p].back \in Phase /\ tab[p] \in Tab \union {None}
  BY DEF TypeInv, PlacesTyped, Job, Phase
<1>1. CASE GetTab(p)
  <2>1. CASE closer # "no" \/ cooling
    BY <1>1, <2>1, Rejecting DEF GetTab, Rejects, Stops, In
  <2>2. CASE ~ (closer # "no" \/ cooling)
    <3>1. Goes(p, IF tab[p] # None THEN job[p].back ELSE "endpoint")
      BY <1>1, <2>2 DEF GetTab
    <3>2. CASE tab[p] # None
      <4>1. Turns(p, job[p].back)
        BY <1>0, <3>1, <3>2, TurnsOf
      <4> QED
        BY <1>1, <2>2, <4>1 DEF GetTab, Waits, In
    <3>3. CASE tab[p] = None
      <4>1. Turns(p, "endpoint")
        BY <3>1, <3>3, TurnsOf DEF Phase
      <4> QED
        BY <1>1, <2>2, <3>3, <4>1 DEF GetTab, Waits, In
    <3> QED
      BY <3>2, <3>3
  <2> QED
    BY <2>1, <2>2
<1>2. CASE Connect(p)
  <2> DEFINE j == [job[p] EXCEPT !.phase = "connect", !.gen = Acquired.gen]
  <2>1. Takes /\ Acquired.gen = conn'.gen /\ conn'.gen \in Nat
    BY <1>2, TakesOf DEF Connect
  <2>2. /\ j \in Job /\ j.phase = "connect" /\ j.gen = conn'.gen /\ j.back = job[p].back
        /\ j.target = job[p].target
    BY <1>0, <2>1 DEF Job, Phase
  <2>3. job' = [job EXCEPT ![p] = j]
    BY <1>2 DEF Connect
  <2> HIDE DEF j
  <2>4. Becomes(p, "connect", job[p].back, conn'.gen, job[p].target)
    BY <2>2, <2>3, BecomesOf
  <2> QED
    BY <1>2, <2>1, <2>4 DEF Connect, Leasing, In
<1>3. CASE NoEndpoint(p)
  BY <1>3, Rejecting DEF NoEndpoint, OpenFails, Stops, In
<1>4. CASE NotConnected(p)
  BY <1>4, Rejecting DEF NotConnected, OpenFails, Stops, In
<1>5. CASE CreateTarget(p)
  <2> DEFINE t == chrome.made + 1
  <2>1. t \in Nat /\ Made
    BY <1>5 DEF CreateTarget, TypeInv, PlacesTyped, Made, Chrome
  <2>2. CASE job' = [job EXCEPT ![p].phase = "attach", ![p].target = t]
             /\ UNCHANGED <<conn, cooling, tab, closing, orphans, spent>>
    <3> DEFINE j == [job[p] EXCEPT !.phase = "attach", !.target = t]
    <3>1. /\ j \in Job /\ j.phase = "attach" /\ j.gen = job[p].gen /\ j.back = job[p].back
          /\ j.target = t
      BY <1>0, <2>1 DEF Job, Phase
    <3>2. job' = [job EXCEPT ![p] = j]
      BY <2>2
    <3> HIDE DEF j
    <3>3. Becomes(p, "attach", job[p].back, job[p].gen, t)
      BY <3>1, <3>2, BecomesOf
    <3> QED
      BY <1>5, <2>1, <2>2, <3>3 DEF CreateTarget, Creating, In
  <2>3. CASE orphans' = orphans \union {t} /\ conn' = Released(job[p].gen) /\ Rejected(p)
    BY <1>5, <2>1, <2>3, Rejecting, GivesOf DEF CreateTarget, Releasing, In, Keeps
  <2> QED
    BY <1>5, <2>2, <2>3 DEF CreateTarget
<1>6. CASE NoTarget(p)
  BY <1>6, Rejecting, GivesOf DEF NoTarget, OpenFails, Releasing, In
<1>7. CASE Attach(p)
  BY <1>7, TurnsOf DEF Attach, Waits, In, Phase
<1>8. CASE Version(p)
  <2>1. CASE Goes(p, "undo") /\ UNCHANGED tab
    BY <1>8, <2>1, TurnsOf DEF Version, Waits, In, Phase
  <2>2. CASE /\ Alive(job[p].gen)
             /\ tab' = [tab EXCEPT ![p] = [target |-> job[p].target, gen |-> job[p].gen]]
             /\ job' = [job EXCEPT ![p].phase = job[p].back, ![p].gen = 0, ![p].target = 0]
    <3> DEFINE j == [job[p] EXCEPT !.phase = job[p].back, !.gen = 0, !.target = 0]
    <3>1. /\ j \in Job /\ j.phase = job[p].back /\ j.gen = 0 /\ j.back = job[p].back
          /\ j.target = 0
      BY <1>0 DEF Job
    <3>2. job' = [job EXCEPT ![p] = j]
      BY <2>2
    <3> HIDE DEF j
    <3>3. Becomes(p, job[p].back, job[p].back, 0, 0)
      BY <3>1, <3>2, BecomesOf
    <3>4. /\ tab' \in [Provider -> Tab \union {None}] /\ But(tab, tab', p)
          /\ tab'[p] \in Tab /\ tab'[p].target = job[p].target /\ tab'[p].gen = job[p].gen
      BY <1>0, <2>2 DEF TypeInv, PlacesTyped, Tab, But, Job
    <3> QED
      BY <1>8, <2>2, <3>3, <3>4 DEF Version, Having, In
  <2> QED
    BY <1>8, <2>1, <2>2 DEF Version
<1>9. CASE Undo(p)
  BY <1>9, Rejecting, GivesOf, ClosesOf DEF Undo, OpenFails, Releasing, In, Keeps
<1> QED
  BY <1>1, <1>2, <1>3, <1>4, <1>5, <1>6, <1>7, <1>8, <1>9 DEF Opening

\* What each step of its collector's action is.
LEMMA WorkingOf ==
  ASSUME TypeInv, JobInv, LeaseInv, NEW p \in Provider, Working(p)
  PROVE \/ Waits(p) \/ Stops(p) \/ Leasing(p) \/ Releasing(p)
        \/ Feeding(p) \/ Warming(p) \/ Dropping(p)
<1>0. /\ job[p] \in Job /\ job[p].phase \in Phase /\ job[p].back \in {"action", "feed"}
      /\ job[p].back \in Phase /\ tab[p] \in Tab \union {None}
      /\ feed[p] \in Feed \union {None}
  BY DEF TypeInv, PlacesTyped, Job, Phase
<1>1. CASE Begin(p)
  <2> DEFINE opens == p = "bet365" \/ job[p].kind = "list"
             phase == IF ~IsCurrent(p) THEN IF feed[p] = None THEN "tab" ELSE "drop"
                      ELSE IF feed[p].warmed THEN "capture" ELSE "warm"
             j == [job[p] EXCEPT !.back = "feed", !.phase = phase]
  <2>1. CASE job[p].aborted \/ (~opens /\ ~IsCurrent(p))
    BY <1>1, <2>1, Rejecting DEF Begin, Rejects, Stops, In
  <2>2. CASE ~ (job[p].aborted \/ (~opens /\ ~IsCurrent(p)))
    <3>1. /\ phase \in {"tab", "drop", "capture", "warm"}
          /\ phase = "tab" => feed[p] = None
          /\ phase # "tab" => feed[p] # None
      BY DEF IsCurrent
    <3>2. job' = [job EXCEPT ![p] = j]
      BY <1>1, <2>2 DEF Begin
    <3> HIDE DEF phase
    <3>3. /\ j \in Job /\ j.phase = phase /\ j.gen = job[p].gen /\ j.back = "feed"
          /\ j.target = job[p].target
      BY <1>0, <3>1 DEF Job, Phase
    <3> HIDE DEF j
    <3>4. Becomes(p, phase, "feed", job[p].gen, job[p].target)
      BY <3>2, <3>3, BecomesOf
    <3>5. /\ job[p].phase = "action"
          /\ UNCHANGED <<chrome, notices, conn, tab, closing, feed, leftover, closer,
                         orphans, overlooked>>
      BY <1>1, <2>2 DEF Begin, In
    <3> QED
      BY <3>1, <3>4, <3>5 DEF Waits
  <2> QED
    BY <2>1, <2>2
<1>2. CASE OpenFeed(p)
  <2>1. CASE tab[p] = None
    BY <1>2, <2>1, Rejecting DEF OpenFeed, Rejects, Stops, In
  <2>2. CASE tab[p] # None
    <3> DEFINE j == [job[p] EXCEPT !.phase = "session", !.gen = Acquired.gen,
                                   !.target = tab[p].target]
    <3>1. Takes /\ Acquired.gen = conn'.gen /\ conn'.gen \in Nat
      BY <1>2, <2>2, TakesOf DEF OpenFeed
    <3>2. /\ j \in Job /\ j.phase = "session" /\ j.gen = conn'.gen /\ j.back = job[p].back
          /\ j.target = tab[p].target
      BY <1>0, <2>2, <3>1 DEF Job, Phase, Tab
    <3>3. job' = [job EXCEPT ![p] = j]
      BY <1>2, <2>2 DEF OpenFeed
    <3> HIDE DEF j
    <3>4. Becomes(p, "session", job[p].back, conn'.gen, tab[p].target)
      BY <3>2, <3>3, BecomesOf
    <3> QED
      BY <1>2, <2>2, <3>1, <3>4 DEF OpenFeed, Leasing, In
  <2> QED
    BY <2>1, <2>2
<1>3. CASE AttachFeed(p)
  <2> DEFINE phase == IF job[p].aborted THEN "drop" ELSE "warm"
             j == [job[p] EXCEPT !.gen = 0, !.target = 0, !.phase = phase]
             f == [target |-> job[p].target, gen |-> job[p].gen, warmed |-> FALSE]
  <2>1. phase \in {"drop", "warm"}
    OBVIOUS
  <2>2. job' = [job EXCEPT ![p] = j] /\ feed' = [feed EXCEPT ![p] = f]
    BY <1>3 DEF AttachFeed
  <2> HIDE DEF phase
  <2>3. /\ j \in Job /\ j.phase = phase /\ j.gen = 0 /\ j.back = job[p].back /\ j.target = 0
    BY <1>0, <2>1 DEF Job, Phase
  <2>4. f \in Feed /\ f.target = job[p].target /\ f.gen = job[p].gen
    BY <1>0 DEF Feed, Job
  <2> HIDE DEF j, f
  <2>5. Becomes(p, phase, job[p].back, 0, 0)
    BY <2>2, <2>3, BecomesOf
  <2>6. /\ feed' \in [Provider -> Feed \union {None}] /\ But(feed, feed', p)
        /\ feed'[p] = f
    BY <2>2, <2>4 DEF TypeInv, PlacesTyped, But
  <2>7. /\ job[p].phase = "session" /\ Reached(job[p])
        /\ UNCHANGED <<chrome, notices, conn, tab, closing, leftover, closer, orphans,
                       overlooked>>
    BY <1>3 DEF AttachFeed, In
  <2> QED
    BY <2>1, <2>4, <2>5, <2>6, <2>7 DEF Feeding
<1>4. CASE NoFeed(p)
  BY <1>4, Rejecting, GivesOf DEF NoFeed, Rejects, Releasing, In
<1>5. CASE DropFeed(p)
  <2>1. /\ job[p].phase = "drop" /\ feed[p] # None /\ Gives(feed[p].gen)
        /\ feed' \in [Provider -> Feed \union {None}] /\ But(feed, feed', p) /\ feed'[p] = None
        /\ UNCHANGED <<chrome, notices, leftover, closer, orphans, overlooked>>
    BY <1>5, GivesOf DEF DropFeed, In, JobInv, TypeInv, PlacesTyped, But
  <2>2. CASE job[p].aborted
    BY <1>5, <2>1, <2>2, Rejecting DEF DropFeed, Dropping
  <2>3. CASE ~ job[p].aborted
    <3>1. Turns(p, "tab") /\ UNCHANGED <<tab, closing>>
      BY <1>5, <2>3, TurnsOf DEF DropFeed, Phase
    <3> QED
      BY <2>1, <3>1 DEF Dropping
  <2> QED
    BY <2>2, <2>3
<1>6. CASE FirstInLine(p)
  <2>1. CASE closer = "no"
    <3>1. Turns(p, "warming")
      BY <1>6, <2>1, TurnsOf DEF FirstInLine, Phase
    <3> QED
      BY <1>6, <2>1, <3>1 DEF FirstInLine, Waits, In
  <2>2. CASE closer # "no"
    BY <1>6, <2>2, Rejecting DEF FirstInLine, Rejects, Stops, In
  <2> QED
    BY <2>1, <2>2
<1>7. CASE WarmUp(p)
  <2>1. CASE Rejects(p) /\ UNCHANGED <<conn, leftover, orphans>>
    BY <1>7, <2>1, Rejecting DEF WarmUp, Rejects, Stops, In
  <2>2. CASE /\ feed' = [feed EXCEPT ![p].warmed = TRUE] /\ Goes(p, "capture")
             /\ UNCHANGED <<chrome, notices, tab, closing, closer, overlooked>>
             /\ UNCHANGED <<conn, leftover, orphans>>
    <3> DEFINE f == [feed[p] EXCEPT !.warmed = TRUE]
    <3>1. feed[p] # None /\ feed[p] \in Feed /\ job[p].phase = "warming"
      BY <1>0, <1>7 DEF WarmUp, In, JobInv
    <3>2. f \in Feed /\ f.target = feed[p].target /\ f.gen = feed[p].gen
      BY <3>1 DEF Feed
    <3>3. feed' = [feed EXCEPT ![p] = f]
      BY <2>2
    <3> HIDE DEF f
    <3>4. /\ feed' \in [Provider -> Feed \union {None}] /\ But(feed, feed', p)
          /\ feed'[p] = f
      BY <3>2, <3>3 DEF TypeInv, PlacesTyped, But
    <3>5. Turns(p, "capture")
      BY <2>2, TurnsOf DEF Phase
    <3> QED
      BY <2>2, <3>1, <3>2, <3>4, <3>5 DEF Warming
  <2> QED
    BY <1>7, <2>1, <2>2 DEF WarmUp
<1>8. CASE PageAnswers(p)
  <2>1. Idle \in Job /\ Idle.phase = "idle" /\ Idle.back = "action"
        /\ Idle.gen = 0 /\ Idle.target = 0
    BY DEF Idle, Job, Phase
  <2>2. Becomes(p, "idle", "action", 0, 0)
    BY <1>8, <2>1, BecomesOf DEF PageAnswers
  <2> QED
    BY <1>8, <2>2 DEF PageAnswers, Waits, In
<1>9. CASE NoAnswer(p)
  BY <1>9, Rejecting DEF NoAnswer, Rejects, Stops, In
<1> QED
  BY <1>1, <1>2, <1>3, <1>4, <1>5, <1>6, <1>7, <1>8, <1>9 DEF Working

\* A job that starts, a tab or a feed that is closed, a job that is aborted.
LEMMA AroundOf ==
  ASSUME TypeInv, JobInv, LeaseInv, NEW p \in Provider,
         \/ \E kind \in {"list", "detail"} : Start(p, kind)
         \/ CloseTab(p) \/ CloseCollection(p) \/ Abort(p)
  PROVE Waits(p) \/ Leaves(p) \/ Dropping(p) \/ Shutting(p)
<1>0. /\ job[p] \in Job /\ job[p].phase \in Phase /\ job[p].back \in {"action", "feed"}
      /\ tab[p] \in Tab \union {None} /\ feed[p] \in Feed \union {None}
      /\ closing[p] \in Tab \union {None}
  BY DEF TypeInv, PlacesTyped, Job
<1>1. Idle \in Job /\ Idle.phase = "idle" /\ Idle.back = "action"
      /\ Idle.gen = 0 /\ Idle.target = 0
  BY DEF Idle, Job, Phase
<1>2. ASSUME NEW kind \in {"list", "detail"}, Start(p, kind) PROVE Waits(p)
  <2> DEFINE j == [Idle EXCEPT !.phase = "tab", !.kind = kind]
  <2>1. j \in Job /\ j.phase = "tab" /\ j.back = "action" /\ j.gen = 0 /\ j.target = 0
    BY <1>1 DEF Job, Phase
  <2>2. job' = [job EXCEPT ![p] = j]
    BY <1>2 DEF Start
  <2> HIDE DEF j
  <2>3. Becomes(p, "tab", "action", 0, 0)
    BY <2>1, <2>2, BecomesOf
  <2> QED
    BY <1>2, <2>3 DEF Start, Waits, In
<1>3. CASE CloseTab(p)
  <2>1. /\ closing' \in [Provider -> Tab \union {None}] /\ But(closing, closing', p)
        /\ closing'[p] = None /\ closing[p] # None /\ Gives(closing[p].gen)
        /\ UNCHANGED <<notices, tab, feed, leftover, closer, overlooked>>
    BY <1>3, GivesOf DEF CloseTab, TypeInv, PlacesTyped, But
  <2>2. \/ Closes(closing[p].target) /\ UNCHANGED orphans
        \/ UNCHANGED chrome /\ Keeps(closing[p].target)
    BY <1>3, ClosesOf DEF CloseTab, Keeps
  <2>3. \/ job[p].phase = "closing" /\ Becomes(p, "idle", "action", 0, 0)
        \/ job[p].phase # "closing" /\ UNCHANGED job
    BY <1>1, <1>3, BecomesOf DEF CloseTab, In
  <2> QED
    BY <2>1, <2>2, <2>3 DEF Shutting
<1>4. CASE CloseCollection(p)
  BY <1>4, GivesOf DEF CloseCollection, Dropping, In, TypeInv, PlacesTyped, But
<1>5. CASE Abort(p)
  <2>1. CASE job[p].phase \in {"warm", "warming", "capture"}
    <3> DEFINE l == [target |-> feed[p].target, gen |-> feed[p].gen,
                     inLine |-> job[p].phase # "capture"]
    <3>1. feed[p] \in Feed
      BY <1>0, <2>1 DEF JobInv
    <3>2. /\ l \in [target : Nat, gen : Nat, inLine : BOOLEAN]
          /\ l.target = feed[p].target
      BY <3>1 DEF Feed
    <3>3. leftover' = leftover \union {l} /\ RejectedAs(p, TRUE)
      BY <1>5, <2>1 DEF Abort
    <3> HIDE DEF l
    <3>4. Ends(p) /\ tab'[p] = None
      BY <3>3, EndsOf DEF ClosesTab
    <3> QED
      BY <1>5, <2>1, <3>2, <3>3, <3>4 DEF Abort, Leaves, TypeInv, PlacesTyped
  <2>2. CASE job[p].phase \notin {"warm", "warming", "capture"}
    <3> DEFINE j == [job[p] EXCEPT !.aborted = TRUE]
    <3>1. /\ j \in Job /\ j.phase = job[p].phase /\ j.gen = job[p].gen
          /\ j.back = job[p].back /\ j.target = job[p].target
      BY <1>0 DEF Job
    <3>2. job' = [job EXCEPT ![p] = j]
      BY <1>5, <2>2 DEF Abort
    <3> HIDE DEF j
    <3>3. Turns(p, job[p].phase)
      BY <3>1, <3>2, BecomesOf DEF Turns
    <3> QED
      BY <1>5, <2>2, <3>3 DEF Abort, Waits
  <2> QED
    BY <2>1, <2>2
<1> QED
  BY <1>2, <1>3, <1>4, <1>5

\* What the other steps are.
LEMMA ElseOf ==
  ASSUME TypeInv, JobInv, LeaseInv,
         \/ \E l \in leftover : GoesOn(l)
         \/ Connecting \/ CoolDown \/ Stop \/ Closing
         \/ \E quits \in BOOLEAN : Disconnect(quits)
         \/ \E t \in 1..MaxTabs : TargetCloses(t) \/ Detached(t)
         \/ UNCHANGED vars
  PROVE \/ GoingOn \/ Approved \/ NotApproved \/ Disconnected \/ Ending \/ Resting
        \/ \E t \in Nat : Lost(t) \/ Noticed(t)
        \/ \E p \in Provider : Letting(p)
<1>1. ASSUME NEW l \in leftover, GoesOn(l) PROVE GoingOn
  <2> DEFINE k == [l EXCEPT !.inLine = FALSE]
  <2>1. l \in [target : Nat, gen : Nat, inLine : BOOLEAN]
    BY DEF TypeInv, PlacesTyped
  <2>2. k \in [target : Nat, gen : Nat, inLine : BOOLEAN] /\ k.target = l.target
    BY <2>1
  <2>3. leftover' \subseteq leftover \union {k}
    BY <1>1 DEF GoesOn
  <2> HIDE DEF k
  <2> QED
    BY <1>1, <2>2, <2>3 DEF GoesOn, GoingOn, TypeInv, PlacesTyped
<1>2. CASE Approve
  BY <1>2 DEF Approve, Approved, TypeInv, PlacesTyped, Conn
<1>3. CASE ConnectFails
  BY <1>3, GoneOf DEF ConnectFails, NotApproved
<1>4. CASE CoolDown
  BY <1>4 DEF CoolDown, Resting
<1>5. CASE Stop
  BY <1>5 DEF Stop, Ending
<1>6. CASE Drain
  BY <1>6 DEF Drain, Drained, Ending, In
<1>7. CASE CloseNext
  <2>1. CASE \A p \in Provider : tab[p] = None
    BY <1>7, <2>1 DEF CloseNext, Ending
  <2>2. CASE ~ \A p \in Provider : tab[p] = None
    <3> DEFINE p == IF tab["bet365"] # None THEN "bet365" ELSE "betano"
    <3>1. p \in Provider /\ tab[p] # None
      BY <2>2 DEF Provider
    <3>2. closing' = [closing EXCEPT ![p] = tab[p]] /\ tab' = [tab EXCEPT ![p] = None]
      BY <1>7, <2>2 DEF CloseNext
    <3> HIDE DEF p
    <3>3. Letting(p)
      BY <1>7, <2>2, <3>1, <3>2 DEF CloseNext, Letting, TypeInv, PlacesTyped, But
    <3> QED
      BY <3>1, <3>3
  <2> QED
    BY <2>1, <2>2
<1>8. ASSUME NEW quits \in BOOLEAN, Disconnect(quits) PROVE Disconnected
  <2>1. /\ chrome' \in Chrome /\ chrome'.made = chrome.made
        /\ chrome'.open \subseteq chrome.open
    BY <1>8 DEF Disconnect, TypeInv, PlacesTyped, Chrome
  <2> QED
    BY <1>8, <2>1, GoneOf DEF Disconnect, Disconnected
<1>9. ASSUME NEW t \in 1..MaxTabs, TargetCloses(t) PROVE t \in Nat /\ Lost(t)
  BY <1>9, ClosesOf DEF TargetCloses, Lost
<1>10. ASSUME NEW t \in 1..MaxTabs, Detached(t) PROVE t \in Nat /\ Noticed(t)
  <2>1. /\ tab' \in [Provider -> Tab \union {None}]
        /\ \A p \in Provider : tab'[p] = IF Forgets(p, t) THEN None ELSE tab[p]
    BY <1>10 DEF Detached, TypeInv, PlacesTyped
  <2>2. \/ (\E p \in Provider : Forgets(p, t)) /\ Gives(conn.gen)
        \/ (\A p \in Provider : ~ Forgets(p, t)) /\ UNCHANGED conn
    BY <1>10, GivesOf DEF Detached
  <2>3. /\ overlooked' \subseteq Nat /\ overlooked \subseteq overlooked'
        /\ \A p \in Provider :
             job[p].phase = "version" /\ job[p].target = t => t \in overlooked'
    BY <1>10 DEF Detached, TypeInv, PlacesTyped
  <2> QED
    BY <1>10, <2>1, <2>2, <2>3 DEF Detached, Noticed
<1>11. CASE UNCHANGED vars
  BY <1>11 DEF vars, Resting
<1> QED
  BY <1>1, <1>2, <1>3, <1>4, <1>5, <1>6, <1>7, <1>8, <1>9, <1>10, <1>11
     DEF Connecting, Closing

\* A step of p's.
Moving(p) ==
  \/ Waits(p) \/ Stops(p) \/ Leaves(p) \/ Leasing(p) \/ Releasing(p)
  \/ Creating(p) \/ Having(p) \/ Feeding(p) \/ Warming(p) \/ Dropping(p)
  \/ Shutting(p) \/ Letting(p)

\* Every step is one of these.
LEMMA Moves ==
  ASSUME TypeInv, JobInv, LeaseInv, [Next]_vars
  PROVE \/ \E p \in Provider : Moving(p)
        \/ GoingOn \/ Approved \/ NotApproved \/ Disconnected \/ Ending \/ Resting
        \/ \E t \in Nat : Lost(t) \/ Noticed(t)
<1>1. ASSUME NEW p \in Provider, Opening(p) \/ Working(p) PROVE Moving(p)
  BY <1>1, OpeningOf, WorkingOf DEF Moving
<1>2. ASSUME NEW p \in Provider,
             \/ \E kind \in {"list", "detail"} : Start(p, kind)
             \/ CloseTab(p) \/ CloseCollection(p) \/ Abort(p)
      PROVE Moving(p)
  BY <1>2, AroundOf DEF Moving
<1>3. CASE \/ \E l \in leftover : GoesOn(l)
           \/ Connecting \/ CoolDown \/ Stop \/ Closing
           \/ \E quits \in BOOLEAN : Disconnect(quits)
           \/ \E t \in 1..MaxTabs : TargetCloses(t) \/ Detached(t)
           \/ UNCHANGED vars
  BY <1>3, ElseOf DEF Moving
<1> QED
  BY <1>1, <1>2, <1>3 DEF Next

-----------------------------------------------------------------------------
(* The invariant, one part after the other.                                *)

\* The types of what the moves change.
LEMMA PlacesTypedStep ==
  ASSUME TypeInv, JobInv, LeaseInv, TargetInv, [Next]_vars
  PROVE PlacesTyped'
<1>1. ASSUME NEW p \in Provider, Waits(p) PROVE PlacesTyped'
  BY <1>1 DEF Waits, PlacesTyped, TypeInv, Becomes, Turns, Ends, Takes, Gives, Gone, Closes,
              Made, Keeps, Chrome, Conn
<1>2. ASSUME NEW p \in Provider, Stops(p) PROVE PlacesTyped'
  BY <1>2 DEF Stops, PlacesTyped, TypeInv, Becomes, Turns, Ends, Takes, Gives, Gone, Closes,
              Made, Keeps, Chrome, Conn
<1>3. ASSUME NEW p \in Provider, Leaves(p) PROVE PlacesTyped'
  BY <1>3 DEF Leaves, PlacesTyped, TypeInv, Becomes, Turns, Ends, Takes, Gives, Gone,
              Closes, Made, Keeps, Chrome, Conn
<1>4. ASSUME NEW p \in Provider, Leasing(p) PROVE PlacesTyped'
  BY <1>4 DEF Leasing, PlacesTyped, TypeInv, Becomes, Turns, Ends, Takes, Gives, Gone,
              Closes, Made, Keeps, Chrome, Conn
<1>5. ASSUME NEW p \in Provider, Releasing(p) PROVE PlacesTyped'
  <2>1. conn' \in Conn /\ job' \in [Provider -> Job] /\ tab' \in [Provider -> Tab \union {None}]
        /\ closing' \in [Provider -> Tab \union {None}]
    BY <1>5 DEF Releasing, PlacesTyped, TypeInv, Becomes, Ends, Gives
  <2>2. job[p].target \in Nat /\ chrome.made + 1 \in Nat
    BY DEF PlacesTyped, TypeInv, Job
  <2>3. chrome' \in Chrome /\ orphans' \subseteq Nat
    BY <1>5, <2>2 DEF Releasing, PlacesTyped, TypeInv, Closes, Made, Keeps, Chrome
  <2> QED
    BY <1>5, <2>1, <2>3 DEF Releasing, PlacesTyped, TypeInv, Conn, Chrome
<1>6. ASSUME NEW p \in Provider, Creating(p) PROVE PlacesTyped'
  BY <1>6 DEF Creating, PlacesTyped, TypeInv, Becomes, Turns, Ends, Takes, Gives, Gone,
              Closes, Made, Keeps, Chrome, Conn
<1>7. ASSUME NEW p \in Provider, Having(p) PROVE PlacesTyped'
  BY <1>7 DEF Having, PlacesTyped, TypeInv, Becomes, Turns, Ends, Takes, Gives, Gone,
              Closes, Made, Keeps, Chrome, Conn
<1>8. ASSUME NEW p \in Provider, Feeding(p) PROVE PlacesTyped'
  BY <1>8 DEF Feeding, PlacesTyped, TypeInv, Becomes, Turns, Ends, Takes, Gives, Gone,
              Closes, Made, Keeps, Chrome, Conn
<1>9. ASSUME NEW p \in Provider, Warming(p) PROVE PlacesTyped'
  BY <1>9 DEF Warming, PlacesTyped, TypeInv, Becomes, Turns, Ends, Takes, Gives, Gone,
              Closes, Made, Keeps, Chrome, Conn
<1>10. ASSUME NEW p \in Provider, Dropping(p) PROVE PlacesTyped'
  BY <1>10 DEF Dropping, PlacesTyped, TypeInv, Becomes, Turns, Ends, Takes, Gives, Gone,
               Closes, Made, Keeps, Chrome, Conn
<1>11. ASSUME NEW p \in Provider, Shutting(p) PROVE PlacesTyped'
  <2>1. conn' \in Conn /\ job' \in [Provider -> Job] /\ closing[p].target \in Nat
    BY <1>11 DEF Shutting, PlacesTyped, TypeInv, Becomes, Gives, Tab
  <2>2. chrome' \in Chrome /\ orphans' \subseteq Nat
    BY <1>11, <2>1 DEF Shutting, PlacesTyped, TypeInv, Closes, Keeps, Chrome
  <2> QED
    BY <1>11, <2>1, <2>2 DEF Shutting, PlacesTyped, TypeInv, Conn, Chrome
<1>12. ASSUME NEW p \in Provider, Letting(p) PROVE PlacesTyped'
  BY <1>12 DEF Letting, PlacesTyped, TypeInv, Becomes, Turns, Ends, Takes, Gives, Gone,
               Closes, Made, Keeps, Chrome, Conn
<1>13. CASE GoingOn
  BY <1>13 DEF GoingOn, PlacesTyped, TypeInv, Becomes, Turns, Ends, Takes, Gives, Gone,
               Closes, Made, Keeps, Chrome, Conn
<1>14. CASE Approved
  BY <1>14 DEF Approved, PlacesTyped, TypeInv, Becomes, Turns, Ends, Takes, Gives, Gone,
               Closes, Made, Keeps, Chrome, Conn
<1>15. CASE NotApproved
  BY <1>15 DEF NotApproved, PlacesTyped, TypeInv, Becomes, Turns, Ends, Takes, Gives, Gone,
               Closes, Made, Keeps, Chrome, Conn
<1>16. CASE Disconnected
  BY <1>16 DEF Disconnected, PlacesTyped, TypeInv, Becomes, Turns, Ends, Takes, Gives, Gone,
               Closes, Made, Keeps, Chrome, Conn
<1>17. CASE Ending
  BY <1>17 DEF Ending, PlacesTyped, TypeInv, Becomes, Turns, Ends, Takes, Gives, Gone,
               Closes, Made, Keeps, Chrome, Conn
<1>18. CASE Resting
  BY <1>18 DEF Resting, PlacesTyped, TypeInv, Becomes, Turns, Ends, Takes, Gives, Gone,
               Closes, Made, Keeps, Chrome, Conn
<1>19. ASSUME NEW t \in Nat, Lost(t) PROVE PlacesTyped'
  BY <1>19 DEF Lost, PlacesTyped, TypeInv, Becomes, Turns, Ends, Takes, Gives, Gone, Closes,
               Made, Keeps, Chrome, Conn
<1>20. ASSUME NEW t \in Nat, Noticed(t) PROVE PlacesTyped'
  BY <1>20 DEF Noticed, PlacesTyped, TypeInv, Becomes, Turns, Ends, Takes, Gives, Gone,
               Closes, Made, Keeps, Chrome, Conn
<1> QED
  BY <1>1, <1>2, <1>3, <1>4, <1>5, <1>6, <1>7, <1>8, <1>9, <1>10, <1>11, <1>12, <1>13,
       <1>14, <1>15, <1>16, <1>17, <1>18, <1>19, <1>20, Moves DEF Moving

\* Jobs keep what their phases say they have.
LEMMA JobStep ==
  ASSUME TypeInv, JobInv, CloseInv, LeaseInv, TargetInv, [Next]_vars
  PROVE JobInv'
<1>1. ASSUME NEW p \in Provider, Waits(p) PROVE JobInv'
  BY <1>1 DEF Waits, JobInv, PlacesTyped, TypeInv, Becomes, Turns, Ends, Takes, But, Conn,
              Job
<1>2. ASSUME NEW p \in Provider, Stops(p) PROVE JobInv'
  BY <1>2 DEF Stops, JobInv, PlacesTyped, TypeInv, Becomes, Turns, Ends, Takes, But, Conn,
              Job
<1>3. ASSUME NEW p \in Provider, Leaves(p) PROVE JobInv'
  BY <1>3 DEF Leaves, JobInv, PlacesTyped, TypeInv, Becomes, Turns, Ends, Takes, But, Conn,
              Job
<1>4. ASSUME NEW p \in Provider, Leasing(p) PROVE JobInv'
  <2>1. conn'.gen # 0 /\ (tab[p] # None => tab[p].target # 0)
    BY <1>4 DEF Leasing, Takes, LeaseInv, TargetInv, PlacesTyped, TypeInv, Tab, Chrome
  <2> QED
    BY <1>4, <2>1 DEF Leasing, JobInv, Becomes, But
<1>5. ASSUME NEW p \in Provider, Releasing(p) PROVE JobInv'
  BY <1>5 DEF Releasing, JobInv, PlacesTyped, TypeInv, Becomes, Turns, Ends, Takes, But,
              Conn, Job
<1>6. ASSUME NEW p \in Provider, Creating(p) PROVE JobInv'
  BY <1>6 DEF Creating, JobInv, PlacesTyped, TypeInv, Becomes, Turns, Ends, Takes, But,
              Conn, Job
<1>7. ASSUME NEW p \in Provider, Having(p) PROVE JobInv'
  BY <1>7 DEF Having, JobInv, PlacesTyped, TypeInv, Becomes, Turns, Ends, Takes, But, Conn,
              Job
<1>8. ASSUME NEW p \in Provider, Feeding(p) PROVE JobInv'
  BY <1>8, NoneIs DEF Feeding, JobInv, Becomes, But
<1>9. ASSUME NEW p \in Provider, Warming(p) PROVE JobInv'
  BY <1>9, NoneIs DEF Warming, JobInv, Becomes, Turns, But
<1>10. ASSUME NEW p \in Provider, Dropping(p) PROVE JobInv'
  BY <1>10 DEF Dropping, JobInv, PlacesTyped, TypeInv, Becomes, Turns, Ends, Takes, But,
               Conn, Job
<1>11. ASSUME NEW p \in Provider, Shutting(p) PROVE JobInv'
  BY <1>11 DEF Shutting, JobInv, PlacesTyped, TypeInv, Becomes, Turns, Ends, Takes, But,
               Conn, Job
<1>12. ASSUME NEW p \in Provider, Letting(p) PROVE JobInv'
  BY <1>12 DEF Letting, JobInv, PlacesTyped, TypeInv, Becomes, Turns, Ends, Takes, But,
               Conn, Job
<1>13. CASE GoingOn
  BY <1>13 DEF GoingOn, JobInv, PlacesTyped, TypeInv, Becomes, Turns, Ends, Takes, But,
               Conn, Job
<1>14. CASE Approved
  BY <1>14 DEF Approved, JobInv, PlacesTyped, TypeInv, Becomes, Turns, Ends, Takes, But,
               Conn, Job
<1>15. CASE NotApproved
  BY <1>15 DEF NotApproved, JobInv, PlacesTyped, TypeInv, Becomes, Turns, Ends, Takes, But,
               Conn, Job
<1>16. CASE Disconnected
  BY <1>16 DEF Disconnected, JobInv, PlacesTyped, TypeInv, Becomes, Turns, Ends, Takes, But,
               Conn, Job
<1>17. CASE Ending
  BY <1>17 DEF Ending, JobInv, PlacesTyped, TypeInv, Becomes, Turns, Ends, Takes, But, Conn,
               Job
<1>18. CASE Resting
  BY <1>18 DEF Resting, JobInv, PlacesTyped, TypeInv, Becomes, Turns, Ends, Takes, But,
               Conn, Job
<1>19. ASSUME NEW t \in Nat, Lost(t) PROVE JobInv'
  BY <1>19 DEF Lost, JobInv, PlacesTyped, TypeInv, Becomes, Turns, Ends, Takes, But, Conn,
               Job
<1>20. ASSUME NEW t \in Nat, Noticed(t) PROVE JobInv'
  BY <1>20 DEF Noticed, JobInv, PlacesTyped, TypeInv, Becomes, Turns, Ends, Takes, But,
               Conn, Job
<1> QED
  BY <1>1, <1>2, <1>3, <1>4, <1>5, <1>6, <1>7, <1>8, <1>9, <1>10, <1>11, <1>12, <1>13,
       <1>14, <1>15, <1>16, <1>17, <1>18, <1>19, <1>20, Moves DEF Moving

\* Tabs are closed one at a time.
LEMMA CloseStep ==
  ASSUME TypeInv, JobInv, CloseInv, LeaseInv, TargetInv, [Next]_vars
  PROVE CloseInv'
<1>1. ASSUME NEW p \in Provider, Waits(p) PROVE CloseInv'
  BY <1>1 DEF Waits, CloseInv, PlacesTyped, TypeInv, Becomes, Turns, Ends, But
<1>2. ASSUME NEW p \in Provider, Stops(p) PROVE CloseInv'
  BY <1>2 DEF Stops, CloseInv, PlacesTyped, TypeInv, Becomes, Turns, Ends, But
<1>3. ASSUME NEW p \in Provider, Leaves(p) PROVE CloseInv'
  BY <1>3 DEF Leaves, CloseInv, PlacesTyped, TypeInv, Becomes, Turns, Ends, But
<1>4. ASSUME NEW p \in Provider, Leasing(p) PROVE CloseInv'
  BY <1>4 DEF Leasing, CloseInv, PlacesTyped, TypeInv, Becomes, Turns, Ends, But
<1>5. ASSUME NEW p \in Provider, Releasing(p) PROVE CloseInv'
  BY <1>5 DEF Releasing, CloseInv, PlacesTyped, TypeInv, Becomes, Turns, Ends, But
<1>6. ASSUME NEW p \in Provider, Creating(p) PROVE CloseInv'
  BY <1>6 DEF Creating, CloseInv, PlacesTyped, TypeInv, Becomes, Turns, Ends, But
<1>7. ASSUME NEW p \in Provider, Having(p) PROVE CloseInv'
  BY <1>7 DEF Having, CloseInv, PlacesTyped, TypeInv, Becomes, Turns, Ends, But
<1>8. ASSUME NEW p \in Provider, Feeding(p) PROVE CloseInv'
  BY <1>8 DEF Feeding, CloseInv, PlacesTyped, TypeInv, Becomes, Turns, Ends, But
<1>9. ASSUME NEW p \in Provider, Warming(p) PROVE CloseInv'
  BY <1>9 DEF Warming, CloseInv, PlacesTyped, TypeInv, Becomes, Turns, Ends, But
<1>10. ASSUME NEW p \in Provider, Dropping(p) PROVE CloseInv'
  BY <1>10 DEF Dropping, CloseInv, PlacesTyped, TypeInv, Becomes, Turns, Ends, But
<1>11. ASSUME NEW p \in Provider, Shutting(p) PROVE CloseInv'
  BY <1>11 DEF Shutting, CloseInv, PlacesTyped, TypeInv, Becomes, Turns, Ends, But
<1>12. ASSUME NEW p \in Provider, Letting(p) PROVE CloseInv'
  BY <1>12 DEF Letting, CloseInv, PlacesTyped, TypeInv, Becomes, Turns, Ends, But
<1>13. CASE GoingOn
  BY <1>13 DEF GoingOn, CloseInv, PlacesTyped, TypeInv, Becomes, Turns, Ends, But
<1>14. CASE Approved
  BY <1>14 DEF Approved, CloseInv, PlacesTyped, TypeInv, Becomes, Turns, Ends, But
<1>15. CASE NotApproved
  BY <1>15 DEF NotApproved, CloseInv, PlacesTyped, TypeInv, Becomes, Turns, Ends, But
<1>16. CASE Disconnected
  BY <1>16 DEF Disconnected, CloseInv, PlacesTyped, TypeInv, Becomes, Turns, Ends, But
<1>17. CASE Ending
  BY <1>17 DEF Ending, CloseInv, PlacesTyped, TypeInv, Becomes, Turns, Ends, But
<1>18. CASE Resting
  BY <1>18 DEF Resting, CloseInv, PlacesTyped, TypeInv, Becomes, Turns, Ends, But
<1>19. ASSUME NEW t \in Nat, Lost(t) PROVE CloseInv'
  BY <1>19 DEF Lost, CloseInv, PlacesTyped, TypeInv, Becomes, Turns, Ends, But
<1>20. ASSUME NEW t \in Nat, Noticed(t) PROVE CloseInv'
  BY <1>20 DEF Noticed, CloseInv, PlacesTyped, TypeInv, Becomes, Turns, Ends, But
<1> QED
  BY <1>1, <1>2, <1>3, <1>4, <1>5, <1>6, <1>7, <1>8, <1>9, <1>10, <1>11, <1>12, <1>13,
       <1>14, <1>15, <1>16, <1>17, <1>18, <1>19, <1>20, Moves DEF Moving

\* Leases are counted.
LEMMA LeaseStep ==
  ASSUME TypeInv, JobInv, CloseInv, LeaseInv, TargetInv, [Next]_vars
  PROVE LeaseInv'
<1>1. ASSUME NEW p \in Provider, Waits(p) PROVE LeaseInv'
  BY <1>1 DEF Waits, LeaseInv, Leases, One, PlacesTyped, TypeInv, Becomes, Turns, Ends, But,
              Provider, Takes, Gives, Gone, Conn, JobInv, CloseInv, Job, Tab, Feed, Alive,
              Reached
<1>2. ASSUME NEW p \in Provider, Stops(p) PROVE LeaseInv'
  BY <1>2 DEF Stops, LeaseInv, Leases, One, PlacesTyped, TypeInv, Becomes, Turns, Ends, But,
              Provider, Takes, Gives, Gone, Conn, JobInv, CloseInv, Job, Tab, Feed, Alive,
              Reached
<1>3. ASSUME NEW p \in Provider, Leaves(p) PROVE LeaseInv'
  BY <1>3 DEF Leaves, LeaseInv, Leases, One, PlacesTyped, TypeInv, Becomes, Turns, Ends,
              But, Provider, Takes, Gives, Gone, Conn, JobInv, CloseInv, Job, Tab, Feed,
              Alive, Reached
<1>4. ASSUME NEW p \in Provider, Leasing(p) PROVE LeaseInv'
  BY <1>4 DEF Leasing, LeaseInv, Leases, One, PlacesTyped, TypeInv, Becomes, Turns, Ends,
              But, Provider, Takes, Gives, Gone, Conn, JobInv, CloseInv, Job, Tab, Feed,
              Alive, Reached
<1>5. ASSUME NEW p \in Provider, Releasing(p) PROVE LeaseInv'
  BY <1>5 DEF Releasing, LeaseInv, Leases, One, PlacesTyped, TypeInv, Becomes, Turns, Ends,
              But, Provider, Takes, Gives, Gone, Conn, JobInv, CloseInv, Job, Tab, Feed,
              Alive, Reached
<1>6. ASSUME NEW p \in Provider, Creating(p) PROVE LeaseInv'
  BY <1>6 DEF Creating, LeaseInv, Leases, One, PlacesTyped, TypeInv, Becomes, Turns, Ends,
              But, Provider, Takes, Gives, Gone, Conn, JobInv, CloseInv, Job, Tab, Feed,
              Alive, Reached
<1>7. ASSUME NEW p \in Provider, Having(p) PROVE LeaseInv'
  BY <1>7, NoneIs DEF Having, LeaseInv, Leases, One, PlacesTyped, TypeInv, Becomes, Turns,
                      But, Provider, JobInv, CloseInv, Alive, Reached
<1>8. ASSUME NEW p \in Provider, Feeding(p) PROVE LeaseInv'
  BY <1>8, NoneIs DEF Feeding, LeaseInv, Leases, One, PlacesTyped, TypeInv, Becomes, Turns,
                      But, Provider, JobInv, CloseInv, Alive, Reached
<1>9. ASSUME NEW p \in Provider, Warming(p) PROVE LeaseInv'
  BY <1>9, NoneIs DEF Warming, LeaseInv, Leases, One, PlacesTyped, TypeInv, Becomes, Turns,
                      But, Provider, JobInv, CloseInv, Alive, Reached
<1>10. ASSUME NEW p \in Provider, Dropping(p) PROVE LeaseInv'
  BY <1>10 DEF Dropping, LeaseInv, Leases, One, PlacesTyped, TypeInv, Becomes, Turns, Ends,
               But, Provider, Takes, Gives, Gone, Conn, JobInv, CloseInv, Job, Tab, Feed,
               Alive, Reached
<1>11. ASSUME NEW p \in Provider, Shutting(p) PROVE LeaseInv'
  BY <1>11 DEF Shutting, LeaseInv, Leases, One, PlacesTyped, TypeInv, Becomes, Turns, Ends,
               But, Provider, Takes, Gives, Gone, Conn, JobInv, CloseInv, Job, Tab, Feed,
               Alive, Reached
<1>12. ASSUME NEW p \in Provider, Letting(p) PROVE LeaseInv'
  BY <1>12 DEF Letting, LeaseInv, Leases, One, PlacesTyped, TypeInv, Becomes, Turns, Ends,
               But, Provider, Takes, Gives, Gone, Conn, JobInv, CloseInv, Job, Tab, Feed,
               Alive, Reached
<1>13. CASE GoingOn
  BY <1>13 DEF GoingOn, LeaseInv, Leases, One, PlacesTyped, TypeInv, Becomes, Turns, Ends,
               But, Provider, Takes, Gives, Gone, Conn, JobInv, CloseInv, Job, Tab, Feed,
               Alive, Reached
<1>14. CASE Approved
  BY <1>14 DEF Approved, LeaseInv, Leases, One, PlacesTyped, TypeInv, Becomes, Turns, Ends,
               But, Provider, Takes, Gives, Gone, Conn, JobInv, CloseInv, Job, Tab, Feed,
               Alive, Reached
<1>15. CASE NotApproved
  BY <1>15 DEF NotApproved, LeaseInv, Leases, One, PlacesTyped, TypeInv, Becomes, Turns,
               Ends, But, Provider, Takes, Gives, Gone, Conn, JobInv, CloseInv, Job, Tab,
               Feed, Alive, Reached
<1>16. CASE Disconnected
  BY <1>16 DEF Disconnected, LeaseInv, Leases, One, PlacesTyped, TypeInv, Becomes, Turns,
               Ends, But, Provider, Takes, Gives, Gone, Conn, JobInv, CloseInv, Job, Tab,
               Feed, Alive, Reached
<1>17. CASE Ending
  BY <1>17 DEF Ending, LeaseInv, Leases, One, PlacesTyped, TypeInv, Becomes, Turns, Ends,
               But, Provider, Takes, Gives, Gone, Conn, JobInv, CloseInv, Job, Tab, Feed,
               Alive, Reached
<1>18. CASE Resting
  BY <1>18 DEF Resting, LeaseInv, Leases, One, PlacesTyped, TypeInv, Becomes, Turns, Ends,
               But, Provider, Takes, Gives, Gone, Conn, JobInv, CloseInv, Job, Tab, Feed,
               Alive, Reached
<1>19. ASSUME NEW t \in Nat, Lost(t) PROVE LeaseInv'
  BY <1>19 DEF Lost, LeaseInv, Leases, One, PlacesTyped, TypeInv, Becomes, Turns, Ends, But,
               Provider, Takes, Gives, Gone, Conn, JobInv, CloseInv, Job, Tab, Feed, Alive,
               Reached
<1>20. ASSUME NEW t \in Nat, Noticed(t) PROVE LeaseInv'
  <2>1. ASSUME Forgets("bet365", t), Forgets("betano", t) PROVE FALSE
    BY <2>1 DEF Forgets, TargetInv, Uses, Provider
  <2>2. \A q \in Provider : Forgets(q, t) => conn.state = "open" /\ tab[q].gen = conn.gen
    BY DEF Forgets, LeaseInv
  <2>3. CASE \A q \in Provider : ~ Forgets(q, t)
    <3>1. \A q \in Provider : tab'[q] = tab[q]
      BY <1>20, <2>3 DEF Noticed
    <3> QED
      BY <1>20, <2>3, <3>1 DEF Noticed, LeaseInv, Leases, Provider
  <2>4. ASSUME NEW q \in Provider, NEW r \in Provider \ {q}, Forgets(q, t) PROVE LeaseInv'
    <3>1. tab[q] # None /\ tab'[q] = None /\ tab'[r] = tab[r] /\ Gives(conn.gen)
      BY <1>20, <2>1, <2>4 DEF Noticed, Forgets, Provider
    <3>2. UNCHANGED <<closing, feed, job>> /\ Provider = {q, r} /\ conn.state = "open"
      BY <1>20, <2>2, <2>4 DEF Noticed, Provider
    <3>3. Leases(q)' = Leases(q) - 1 /\ Leases(r)' = Leases(r) /\ conn'.gen = conn.gen
      BY <2>2, <2>4, <3>1, <3>2 DEF Leases, One, Gives
    <3>4. Leases(q) \in Nat /\ Leases(r) \in Nat /\ conn.users = Leases(q) + Leases(r)
      BY <3>2 DEF Leases, One, LeaseInv, Provider
    <3>5. conn'.state # "none" => conn'.users > 0 /\ conn'.users = Leases(q)' + Leases(r)'
      BY <3>1, <3>2, <3>3, <3>4 DEF Gives, PlacesTyped, TypeInv, Conn
    <3>6. conn'.state = "none" => tab[r] = None
      BY <3>1, <3>2, <3>4, <2>2, <2>4 DEF Gives, Leases, One, LeaseInv
    <3> QED
      BY <3>1, <3>2, <3>3, <3>4, <3>5, <3>6 DEF LeaseInv, Gives, Provider
  <2> QED
    BY <2>3, <2>4 DEF Provider
<1> QED
  BY <1>1, <1>2, <1>3, <1>4, <1>5, <1>6, <1>7, <1>8, <1>9, <1>10, <1>11, <1>12, <1>13,
       <1>14, <1>15, <1>16, <1>17, <1>18, <1>19, <1>20, Moves DEF Moving

\* Targets stay apart.
LEMMA TargetStep ==
  ASSUME TypeInv, JobInv, CloseInv, LeaseInv, TargetInv, [Next]_vars
  PROVE TargetInv'
<1>1. ASSUME NEW p \in Provider, Waits(p) PROVE TargetInv'
  <2>1. job[p].phase \in {"idle", "capture"} => job[p].target = 0
    BY DEF JobInv
  <2>2. \A q \in Provider : job'[q].target = job[q].target
    BY <1>1, <2>1 DEF Waits, Becomes, Turns, But
  <2>3. UNCHANGED <<chrome, notices, tab, closing, feed, leftover>>
    BY <1>1 DEF Waits
  <2> QED
    BY <2>2, <2>3 DEF TargetInv, Uses, Provider
<1>2. ASSUME NEW p \in Provider, Stops(p) PROVE TargetInv'
  BY <1>2 DEF Stops, TargetInv, Uses, PlacesTyped, TypeInv, Becomes, Turns, Ends, But,
              Provider, JobInv, Job, Tab, Feed, Closes, Made, Chrome
<1>3. ASSUME NEW p \in Provider, Leaves(p) PROVE TargetInv'
  BY <1>3 DEF Leaves, TargetInv, Uses, PlacesTyped, TypeInv, Becomes, Turns, Ends, But,
              Provider, JobInv, Job, Tab, Feed, Closes, Made, Chrome
<1>4. ASSUME NEW p \in Provider, Leasing(p) PROVE TargetInv'
  BY <1>4 DEF Leasing, TargetInv, Uses, PlacesTyped, TypeInv, Becomes, Turns, Ends, But,
              Provider, JobInv, Job, Tab, Feed, Closes, Made, Chrome
<1>5. ASSUME NEW p \in Provider, Releasing(p) PROVE TargetInv'
  BY <1>5 DEF Releasing, TargetInv, Uses, PlacesTyped, TypeInv, Becomes, Turns, Ends, But,
              Provider, JobInv, Job, Tab, Feed, Closes, Made, Chrome
<1>6. ASSUME NEW p \in Provider, Creating(p) PROVE TargetInv'
  BY <1>6 DEF Creating, TargetInv, Uses, PlacesTyped, TypeInv, Becomes, Turns, Ends, But,
              Provider, JobInv, Job, Tab, Feed, Closes, Made, Chrome
<1>7. ASSUME NEW p \in Provider, Having(p) PROVE TargetInv'
  BY <1>7 DEF Having, TargetInv, Uses, PlacesTyped, TypeInv, Becomes, Turns, Ends, But,
              Provider, JobInv, Job, Tab, Feed, Closes, Made, Chrome
<1>8. ASSUME NEW p \in Provider, Feeding(p) PROVE TargetInv'
  BY <1>8 DEF Feeding, TargetInv, Uses, PlacesTyped, TypeInv, Becomes, Turns, Ends, But,
              Provider, JobInv, Job, Tab, Feed, Closes, Made, Chrome
<1>9. ASSUME NEW p \in Provider, Warming(p) PROVE TargetInv'
  BY <1>9 DEF Warming, TargetInv, Uses, PlacesTyped, TypeInv, Becomes, Turns, Ends, But,
              Provider, JobInv, Job, Tab, Feed, Closes, Made, Chrome
<1>10. ASSUME NEW p \in Provider, Dropping(p) PROVE TargetInv'
  BY <1>10 DEF Dropping, TargetInv, Uses, PlacesTyped, TypeInv, Becomes, Turns, Ends, But,
               Provider, JobInv, Job, Tab, Feed, Closes, Made, Chrome
<1>11. ASSUME NEW p \in Provider, Shutting(p) PROVE TargetInv'
  BY <1>11 DEF Shutting, TargetInv, Uses, PlacesTyped, TypeInv, Becomes, Turns, Ends, But,
               Provider, JobInv, Job, Tab, Feed, Closes, Made, Chrome
<1>12. ASSUME NEW p \in Provider, Letting(p) PROVE TargetInv'
  BY <1>12 DEF Letting, TargetInv, Uses, PlacesTyped, TypeInv, Becomes, Turns, Ends, But,
               Provider, JobInv, Job, Tab, Feed, Closes, Made, Chrome
<1>13. CASE GoingOn
  BY <1>13 DEF GoingOn, TargetInv, Uses, PlacesTyped, TypeInv, Becomes, Turns, Ends, But,
               Provider, JobInv, Job, Tab, Feed, Closes, Made, Chrome
<1>14. CASE Approved
  BY <1>14 DEF Approved, TargetInv, Uses, PlacesTyped, TypeInv, Becomes, Turns, Ends, But,
               Provider, JobInv, Job, Tab, Feed, Closes, Made, Chrome
<1>15. CASE NotApproved
  BY <1>15 DEF NotApproved, TargetInv, Uses, PlacesTyped, TypeInv, Becomes, Turns, Ends,
               But, Provider, JobInv, Job, Tab, Feed, Closes, Made, Chrome
<1>16. CASE Disconnected
  BY <1>16 DEF Disconnected, TargetInv, Uses, PlacesTyped, TypeInv, Becomes, Turns, Ends,
               But, Provider, JobInv, Job, Tab, Feed, Closes, Made, Chrome
<1>17. CASE Ending
  BY <1>17 DEF Ending, TargetInv, Uses, PlacesTyped, TypeInv, Becomes, Turns, Ends, But,
               Provider, JobInv, Job, Tab, Feed, Closes, Made, Chrome
<1>18. CASE Resting
  BY <1>18 DEF Resting, TargetInv, Uses, PlacesTyped, TypeInv, Becomes, Turns, Ends, But,
               Provider, JobInv, Job, Tab, Feed, Closes, Made, Chrome
<1>19. ASSUME NEW t \in Nat, Lost(t) PROVE TargetInv'
  <2>1. t \in 1..chrome.made /\ chrome'.open = chrome.open \ {t} /\ chrome'.made = chrome.made
        /\ notices' \subseteq notices \union {t}
    BY <1>19 DEF Lost, Closes, TargetInv
  <2>2. chrome'.open \subseteq 1..chrome'.made /\ notices' \subseteq 1..chrome'.made
        /\ chrome'.open \intersect notices' = {}
    BY <2>1 DEF TargetInv
  <2> QED
    BY <1>19, <2>1, <2>2 DEF Lost, TargetInv, Uses
<1>20. ASSUME NEW t \in Nat, Noticed(t) PROVE TargetInv'
  BY <1>20 DEF Noticed, TargetInv, Uses, PlacesTyped, TypeInv, Becomes, Turns, Ends, But,
               Provider, JobInv, Job, Tab, Feed, Closes, Made, Chrome
<1> QED
  BY <1>1, <1>2, <1>3, <1>4, <1>5, <1>6, <1>7, <1>8, <1>9, <1>10, <1>11, <1>12, <1>13,
       <1>14, <1>15, <1>16, <1>17, <1>18, <1>19, <1>20, Moves DEF Moving

\* What aborted jobs left stays alone.
LEMMA LeftStep ==
  ASSUME TypeInv, JobInv, CloseInv, LeaseInv, TargetInv, LeftInv, [Next]_vars
  PROVE LeftInv'
<1>1. ASSUME NEW p \in Provider, Waits(p) PROVE LeftInv'
  BY <1>1 DEF Waits, LeftInv, TargetInv, Uses, PlacesTyped, TypeInv, Becomes, Turns, Ends,
              But, Provider, JobInv, Job, Tab, Feed, Made, Chrome
<1>2. ASSUME NEW p \in Provider, Stops(p) PROVE LeftInv'
  BY <1>2 DEF Stops, LeftInv, TargetInv, Uses, PlacesTyped, TypeInv, Becomes, Turns, Ends,
              But, Provider, JobInv, Job, Tab, Feed, Made, Chrome
<1>3. ASSUME NEW p \in Provider, Leaves(p) PROVE LeftInv'
  BY <1>3 DEF Leaves, LeftInv, TargetInv, Uses, PlacesTyped, TypeInv, Becomes, Turns, Ends,
              But, Provider, JobInv, Job, Tab, Feed, Made, Chrome
<1>4. ASSUME NEW p \in Provider, Leasing(p) PROVE LeftInv'
  BY <1>4 DEF Leasing, LeftInv, TargetInv, Uses, PlacesTyped, TypeInv, Becomes, Turns, Ends,
              But, Provider, JobInv, Job, Tab, Feed, Made, Chrome
<1>5. ASSUME NEW p \in Provider, Releasing(p) PROVE LeftInv'
  BY <1>5 DEF Releasing, LeftInv, TargetInv, Uses, PlacesTyped, TypeInv, Becomes, Turns,
              Ends, But, Provider, JobInv, Job, Tab, Feed, Made, Chrome
<1>6. ASSUME NEW p \in Provider, Creating(p) PROVE LeftInv'
  BY <1>6 DEF Creating, LeftInv, TargetInv, Uses, PlacesTyped, TypeInv, Becomes, Turns,
              Ends, But, Provider, JobInv, Job, Tab, Feed, Made, Chrome
<1>7. ASSUME NEW p \in Provider, Having(p) PROVE LeftInv'
  BY <1>7 DEF Having, LeftInv, TargetInv, Uses, PlacesTyped, TypeInv, Becomes, Turns, Ends,
              But, Provider, JobInv, Job, Tab, Feed, Made, Chrome
<1>8. ASSUME NEW p \in Provider, Feeding(p) PROVE LeftInv'
  BY <1>8 DEF Feeding, LeftInv, TargetInv, Uses, PlacesTyped, TypeInv, Becomes, Turns, Ends,
              But, Provider, JobInv, Job, Tab, Feed, Made, Chrome
<1>9. ASSUME NEW p \in Provider, Warming(p) PROVE LeftInv'
  BY <1>9 DEF Warming, LeftInv, TargetInv, Uses, PlacesTyped, TypeInv, Becomes, Turns, Ends,
              But, Provider, JobInv, Job, Tab, Feed, Made, Chrome
<1>10. ASSUME NEW p \in Provider, Dropping(p) PROVE LeftInv'
  BY <1>10 DEF Dropping, LeftInv, TargetInv, Uses, PlacesTyped, TypeInv, Becomes, Turns,
               Ends, But, Provider, JobInv, Job, Tab, Feed, Made, Chrome
<1>11. ASSUME NEW p \in Provider, Shutting(p) PROVE LeftInv'
  BY <1>11 DEF Shutting, LeftInv, TargetInv, Uses, PlacesTyped, TypeInv, Becomes, Turns,
               Ends, But, Provider, JobInv, Job, Tab, Feed, Made, Chrome
<1>12. ASSUME NEW p \in Provider, Letting(p) PROVE LeftInv'
  BY <1>12 DEF Letting, LeftInv, TargetInv, Uses, PlacesTyped, TypeInv, Becomes, Turns,
               Ends, But, Provider, JobInv, Job, Tab, Feed, Made, Chrome
<1>13. CASE GoingOn
  BY <1>13 DEF GoingOn, LeftInv, TargetInv, Uses, PlacesTyped, TypeInv, Becomes, Turns,
               Ends, But, Provider, JobInv, Job, Tab, Feed, Made, Chrome
<1>14. CASE Approved
  BY <1>14 DEF Approved, LeftInv, TargetInv, Uses, PlacesTyped, TypeInv, Becomes, Turns,
               Ends, But, Provider, JobInv, Job, Tab, Feed, Made, Chrome
<1>15. CASE NotApproved
  BY <1>15 DEF NotApproved, LeftInv, TargetInv, Uses, PlacesTyped, TypeInv, Becomes, Turns,
               Ends, But, Provider, JobInv, Job, Tab, Feed, Made, Chrome
<1>16. CASE Disconnected
  BY <1>16 DEF Disconnected, LeftInv, TargetInv, Uses, PlacesTyped, TypeInv, Becomes, Turns,
               Ends, But, Provider, JobInv, Job, Tab, Feed, Made, Chrome
<1>17. CASE Ending
  BY <1>17 DEF Ending, LeftInv, TargetInv, Uses, PlacesTyped, TypeInv, Becomes, Turns, Ends,
               But, Provider, JobInv, Job, Tab, Feed, Made, Chrome
<1>18. CASE Resting
  BY <1>18 DEF Resting, LeftInv, TargetInv, Uses, PlacesTyped, TypeInv, Becomes, Turns,
               Ends, But, Provider, JobInv, Job, Tab, Feed, Made, Chrome
<1>19. ASSUME NEW t \in Nat, Lost(t) PROVE LeftInv'
  BY <1>19 DEF Lost, LeftInv, TargetInv, Uses, PlacesTyped, TypeInv, Becomes, Turns, Ends,
               But, Provider, JobInv, Job, Tab, Feed, Made, Chrome
<1>20. ASSUME NEW t \in Nat, Noticed(t) PROVE LeftInv'
  BY <1>20 DEF Noticed, LeftInv, TargetInv, Uses, PlacesTyped, TypeInv, Becomes, Turns,
               Ends, But, Provider, JobInv, Job, Tab, Feed, Made, Chrome
<1> QED
  BY <1>1, <1>2, <1>3, <1>4, <1>5, <1>6, <1>7, <1>8, <1>9, <1>10, <1>11, <1>12, <1>13,
       <1>14, <1>15, <1>16, <1>17, <1>18, <1>19, <1>20, Moves DEF Moving

\* Every open target is somewhere.
LEMMA PlaceStep ==
  ASSUME TypeInv, JobInv, CloseInv, LeaseInv, TargetInv, PlaceInv, [Next]_vars
  PROVE PlaceInv'
<1>1. ASSUME NEW p \in Provider, Waits(p) PROVE PlaceInv'
  <2>1. job[p].phase \in {"idle", "capture"} => job[p].target = 0
    BY DEF JobInv
  <2>2. \A q \in Provider : job'[q].target = job[q].target
    BY <1>1, <2>1 DEF Waits, Becomes, Turns, But
  <2>3. job[p].back \notin {"session", "version"}
    BY DEF Job, PlacesTyped, TypeInv
  <2>4. ASSUME NEW q \in Provider
        PROVE  /\ job'[q].phase = "session" => job[q].phase = "session"
               /\ job'[q].phase = "version" =>
                    /\ job'[q].gen = job[q].gen
                    /\ \/ job[q].phase = "version"
                       \/ Reached(job[q])
    <3>1. CASE q = p
      BY <1>1, <2>3, <3>1 DEF Waits, Becomes, Turns
    <3>2. CASE q # p
      <4>1. job'[q] = job[q]
        BY <1>1, <3>2 DEF Waits, Becomes, Turns, But
      <4> QED
        BY <4>1
    <3> QED
      BY <3>1, <3>2
  <2>5. UNCHANGED <<chrome, notices, conn, tab, closing, orphans, overlooked>>
    BY <1>1 DEF Waits
  <2> QED
    BY <2>2, <2>4, <2>5 DEF PlaceInv, Owned, Alive, Reached
<1>2. ASSUME NEW p \in Provider, Stops(p) PROVE PlaceInv'
  BY <1>2 DEF Stops, PlaceInv, Owned, TargetInv, Uses, PlacesTyped, TypeInv, Becomes, Turns,
              Ends, But, Provider, JobInv, CloseInv, LeaseInv, Job, Tab, Feed, Closes, Made,
              Keeps, Chrome, Alive, Reached, Takes, Gives, Gone, Forgets
<1>3. ASSUME NEW p \in Provider, Leaves(p) PROVE PlaceInv'
  BY <1>3 DEF Leaves, PlaceInv, Owned, TargetInv, Uses, PlacesTyped, TypeInv, Becomes,
              Turns, Ends, But, Provider, JobInv, CloseInv, LeaseInv, Job, Tab, Feed,
              Closes, Made, Keeps, Chrome, Alive, Reached, Takes, Gives, Gone, Forgets
<1>4. ASSUME NEW p \in Provider, Leasing(p) PROVE PlaceInv'
  BY <1>4 DEF Leasing, PlaceInv, Owned, TargetInv, Uses, PlacesTyped, TypeInv, Becomes,
              Turns, Ends, But, Provider, JobInv, CloseInv, LeaseInv, Job, Tab, Feed,
              Closes, Made, Keeps, Chrome, Alive, Reached, Takes, Gives, Gone, Forgets
<1>5. ASSUME NEW p \in Provider, Releasing(p) PROVE PlaceInv'
  BY <1>5 DEF Releasing, PlaceInv, Owned, TargetInv, Uses, PlacesTyped, TypeInv, Becomes,
              Turns, Ends, But, Provider, JobInv, CloseInv, LeaseInv, Job, Tab, Feed,
              Closes, Made, Keeps, Chrome, Alive, Reached, Takes, Gives, Gone, Forgets
<1>6. ASSUME NEW p \in Provider, Creating(p) PROVE PlaceInv'
  BY <1>6 DEF Creating, PlaceInv, Owned, TargetInv, Uses, PlacesTyped, TypeInv, Becomes,
              Turns, Ends, But, Provider, JobInv, CloseInv, LeaseInv, Job, Tab, Feed,
              Closes, Made, Keeps, Chrome, Alive, Reached, Takes, Gives, Gone, Forgets
<1>7. ASSUME NEW p \in Provider, Having(p) PROVE PlaceInv'
  <2>1. tab'[p] # None /\ tab'[p].target = job[p].target /\ tab[p] = None
    BY <1>7, NoneIs DEF Having, JobInv
  <2>2. /\ \A q \in Provider \ {p} : tab'[q] = tab[q] /\ job'[q] = job[q]
        /\ job'[p].phase \in {"action", "feed"}
        /\ UNCHANGED <<chrome, notices, conn, closing, orphans, overlooked>>
    BY <1>7 DEF Having, Becomes, But, PlacesTyped, TypeInv, Job
  <2>3. Owned \subseteq Owned' \union {0}
    <3>1. \A q \in Provider : /\ tab[q] # None => tab[q].target \in Owned'
                              /\ closing[q] # None => closing[q].target \in Owned'
                              /\ job[q].target \in Owned'
      BY <2>1, <2>2 DEF Owned
    <3> QED
      BY <3>1 DEF Owned
  <2>4. chrome.open \subseteq Owned' \union orphans
    BY <2>3 DEF PlaceInv, TargetInv
  <2>5. job[p].target \in chrome.open \union notices \union overlooked
    BY <1>7 DEF Having, PlaceInv
  <2> QED
    BY <2>1, <2>2, <2>4, <2>5 DEF PlaceInv, Alive
<1>8. ASSUME NEW p \in Provider, Feeding(p) PROVE PlaceInv'
  BY <1>8 DEF Feeding, PlaceInv, Owned, TargetInv, Uses, PlacesTyped, TypeInv, Becomes,
              Turns, Ends, But, Provider, JobInv, CloseInv, LeaseInv, Job, Tab, Feed,
              Closes, Made, Keeps, Chrome, Alive, Reached, Takes, Gives, Gone, Forgets
<1>9. ASSUME NEW p \in Provider, Warming(p) PROVE PlaceInv'
  BY <1>9 DEF Warming, PlaceInv, Owned, TargetInv, Uses, PlacesTyped, TypeInv, Becomes,
              Turns, Ends, But, Provider, JobInv, CloseInv, LeaseInv, Job, Tab, Feed,
              Closes, Made, Keeps, Chrome, Alive, Reached, Takes, Gives, Gone, Forgets
<1>10. ASSUME NEW p \in Provider, Dropping(p) PROVE PlaceInv'
  BY <1>10 DEF Dropping, PlaceInv, Owned, TargetInv, Uses, PlacesTyped, TypeInv, Becomes,
               Turns, Ends, But, Provider, JobInv, CloseInv, LeaseInv, Job, Tab, Feed,
               Closes, Made, Keeps, Chrome, Alive, Reached, Takes, Gives, Gone, Forgets
<1>11. ASSUME NEW p \in Provider, Shutting(p) PROVE PlaceInv'
  BY <1>11 DEF Shutting, PlaceInv, Owned, TargetInv, Uses, PlacesTyped, TypeInv, Becomes,
               Turns, Ends, But, Provider, JobInv, CloseInv, LeaseInv, Job, Tab, Feed,
               Closes, Made, Keeps, Chrome, Alive, Reached, Takes, Gives, Gone, Forgets
<1>12. ASSUME NEW p \in Provider, Letting(p) PROVE PlaceInv'
  BY <1>12 DEF Letting, PlaceInv, Owned, TargetInv, Uses, PlacesTyped, TypeInv, Becomes,
               Turns, Ends, But, Provider, JobInv, CloseInv, LeaseInv, Job, Tab, Feed,
               Closes, Made, Keeps, Chrome, Alive, Reached, Takes, Gives, Gone, Forgets
<1>13. CASE GoingOn
  BY <1>13 DEF GoingOn, PlaceInv, Owned, TargetInv, Uses, PlacesTyped, TypeInv, Becomes,
               Turns, Ends, But, Provider, JobInv, CloseInv, LeaseInv, Job, Tab, Feed,
               Closes, Made, Keeps, Chrome, Alive, Reached, Takes, Gives, Gone, Forgets
<1>14. CASE Approved
  BY <1>14 DEF Approved, PlaceInv, Owned, TargetInv, Uses, PlacesTyped, TypeInv, Becomes,
               Turns, Ends, But, Provider, JobInv, CloseInv, LeaseInv, Job, Tab, Feed,
               Closes, Made, Keeps, Chrome, Alive, Reached, Takes, Gives, Gone, Forgets
<1>15. CASE NotApproved
  BY <1>15 DEF NotApproved, PlaceInv, Owned, TargetInv, Uses, PlacesTyped, TypeInv, Becomes,
               Turns, Ends, But, Provider, JobInv, CloseInv, LeaseInv, Job, Tab, Feed,
               Closes, Made, Keeps, Chrome, Alive, Reached, Takes, Gives, Gone, Forgets
<1>16. CASE Disconnected
  BY <1>16 DEF Disconnected, PlaceInv, Owned, TargetInv, Uses, PlacesTyped, TypeInv,
               Becomes, Turns, Ends, But, Provider, JobInv, CloseInv, LeaseInv, Job, Tab,
               Feed, Closes, Made, Keeps, Chrome, Alive, Reached, Takes, Gives, Gone,
               Forgets
<1>17. CASE Ending
  BY <1>17 DEF Ending, PlaceInv, Owned, TargetInv, Uses, PlacesTyped, TypeInv, Becomes,
               Turns, Ends, But, Provider, JobInv, CloseInv, LeaseInv, Job, Tab, Feed,
               Closes, Made, Keeps, Chrome, Alive, Reached, Takes, Gives, Gone, Forgets
<1>18. CASE Resting
  BY <1>18 DEF Resting, PlaceInv, Owned, TargetInv, Uses, PlacesTyped, TypeInv, Becomes,
               Turns, Ends, But, Provider, JobInv, CloseInv, LeaseInv, Job, Tab, Feed,
               Closes, Made, Keeps, Chrome, Alive, Reached, Takes, Gives, Gone, Forgets
<1>19. ASSUME NEW t \in Nat, Lost(t) PROVE PlaceInv'
  BY <1>19 DEF Lost, PlaceInv, Owned, TargetInv, Uses, PlacesTyped, TypeInv, Becomes, Turns,
               Ends, But, Provider, JobInv, CloseInv, LeaseInv, Job, Tab, Feed, Closes,
               Made, Keeps, Chrome, Alive, Reached, Takes, Gives, Gone, Forgets
<1>20. ASSUME NEW t \in Nat, Noticed(t) PROVE PlaceInv'
  BY <1>20 DEF Noticed, PlaceInv, Owned, TargetInv, Uses, PlacesTyped, TypeInv, Becomes,
               Turns, Ends, But, Provider, JobInv, CloseInv, LeaseInv, Job, Tab, Feed,
               Closes, Made, Keeps, Chrome, Alive, Reached, Takes, Gives, Gone, Forgets
<1> QED
  BY <1>1, <1>2, <1>3, <1>4, <1>5, <1>6, <1>7, <1>8, <1>9, <1>10, <1>11, <1>12, <1>13,
       <1>14, <1>15, <1>16, <1>17, <1>18, <1>19, <1>20, Moves DEF Moving

\* The clock and the bounds.
LEMMA BoundsStep ==
  ASSUME TypeInv, [Next]_vars
  PROVE cooling' \in BOOLEAN /\ spent' \in [jobs : Nat, faults : Nat]
<1>1. Fault => spent' \in [jobs : Nat, faults : Nat]
  BY DEF Fault, TypeInv
<1>2. ASSUME NEW p \in Provider, Opening(p) PROVE Fault \/ UNCHANGED spent
  BY <1>2 DEF Opening, GetTab, Connect, NoEndpoint, NotConnected, CreateTarget, NoTarget,
              Attach, Version, Undo, Refused
<1>3. ASSUME NEW p \in Provider, Working(p) PROVE Fault \/ UNCHANGED spent
  BY <1>3 DEF Working, Begin, OpenFeed, AttachFeed, NoFeed, DropFeed, FirstInLine, WarmUp,
              PageAnswers, NoAnswer, Refused
<1>4. ASSUME NEW p \in Provider, NEW kind, Start(p, kind)
      PROVE spent' \in [jobs : Nat, faults : Nat]
  BY <1>4 DEF Start, TypeInv
<1>5. ASSUME NEW p \in Provider, CloseTab(p) \/ CloseCollection(p) \/ Abort(p)
      PROVE Fault \/ UNCHANGED spent
  BY <1>5 DEF CloseTab, CloseCollection, Abort, Refused
<1>6. ASSUME \/ \E l \in leftover : GoesOn(l)
             \/ Connecting \/ CoolDown \/ Stop \/ Closing
             \/ \E quits \in BOOLEAN : Disconnect(quits)
             \/ \E t \in 1..MaxTabs : TargetCloses(t) \/ Detached(t)
             \/ UNCHANGED vars
      PROVE Fault \/ UNCHANGED spent
  BY <1>6 DEF GoesOn, Connecting, Approve, ConnectFails, CoolDown, Stop, Closing, Drain,
              CloseNext, Disconnect, TargetCloses, Detached, vars
<1>7. spent' \in [jobs : Nat, faults : Nat]
  BY <1>1, <1>2, <1>3, <1>4, <1>5, <1>6 DEF Next, TypeInv
<1>8. ASSUME NEW p \in Provider, Opening(p) PROVE cooling' \in BOOLEAN
  BY <1>8 DEF Opening, GetTab, Connect, NoEndpoint, NotConnected, CreateTarget, NoTarget,
              Attach, Version, Undo, OpenFails, TypeInv
<1>9. ASSUME NEW p \in Provider, Working(p) PROVE cooling' \in BOOLEAN
  BY <1>9 DEF Working, Begin, OpenFeed, AttachFeed, NoFeed, DropFeed, FirstInLine, WarmUp,
              PageAnswers, NoAnswer, TypeInv
<1>10. ASSUME NEW p \in Provider,
              \/ \E kind \in {"list", "detail"} : Start(p, kind)
              \/ CloseTab(p) \/ CloseCollection(p) \/ Abort(p)
       PROVE cooling' \in BOOLEAN
  BY <1>10 DEF Start, CloseTab, CloseCollection, Abort, TypeInv
<1>11. ASSUME \/ \E l \in leftover : GoesOn(l)
              \/ Connecting \/ CoolDown \/ Stop \/ Closing
              \/ \E quits \in BOOLEAN : Disconnect(quits)
              \/ \E t \in 1..MaxTabs : TargetCloses(t) \/ Detached(t)
              \/ UNCHANGED vars
       PROVE cooling' \in BOOLEAN
  BY <1>11 DEF GoesOn, Connecting, Approve, ConnectFails, CoolDown, Stop, Closing, Drain,
               CloseNext, Disconnect, TargetCloses, Detached, vars, TypeInv
<1>12. cooling' \in BOOLEAN
  BY <1>8, <1>9, <1>10, <1>11 DEF Next
<1> QED
  BY <1>7, <1>12

-----------------------------------------------------------------------------
(* The theorems.                                                           *)

\* The parts together.
Inv ==
  /\ TypeInv /\ JobInv /\ CloseInv /\ LeaseInv /\ TargetInv /\ LeftInv /\ PlaceInv

\* The invariant holds when nothing has run yet.
LEMMA InvInit == Init => Inv
<1> SUFFICES ASSUME Init PROVE Inv
  OBVIOUS
<1>1. Idle \in Job /\ Idle.phase = "idle" /\ Idle.back = "action"
      /\ Idle.gen = 0 /\ Idle.target = 0
  BY DEF Idle, Job, Phase
<1>2. /\ job = [p \in Provider |-> Idle] /\ tab = [p \in Provider |-> None]
      /\ feed = [p \in Provider |-> None] /\ closing = [p \in Provider |-> None]
      /\ closer = "no" /\ notices = {} /\ leftover = {} /\ orphans = {} /\ overlooked = {}
      /\ chrome.open = {} /\ chrome.made = 0 /\ conn.gen = 0 /\ conn.state = "none"
  BY DEF Init
<1>3. TypeInv
  BY <1>1, <1>2 DEF Init, TypeInv, PlacesTyped
<1>4. JobInv /\ CloseInv
  BY <1>1, <1>2 DEF JobInv, CloseInv
<1>5. LeaseInv
  BY <1>1, <1>2 DEF LeaseInv
<1>6. TargetInv /\ LeftInv
  BY <1>1, <1>2 DEF TargetInv, LeftInv, Uses, Provider
<1>7. PlaceInv
  BY <1>1, <1>2 DEF PlaceInv, Owned
<1> QED
  BY <1>3, <1>4, <1>5, <1>6, <1>7 DEF Inv

\* Every step keeps the invariant.
LEMMA InvStep == Inv /\ [Next]_vars => Inv'
<1> SUFFICES ASSUME Inv, [Next]_vars PROVE Inv'
  OBVIOUS
<1>1. TypeInv /\ JobInv /\ CloseInv /\ LeaseInv /\ TargetInv /\ LeftInv /\ PlaceInv
  BY DEF Inv
<1>2. TypeInv'
  BY <1>1, PlacesTypedStep, BoundsStep DEF TypeInv
<1>3. JobInv' /\ CloseInv' /\ LeaseInv'
  BY <1>1, JobStep, CloseStep, LeaseStep
<1>4. TargetInv' /\ LeftInv' /\ PlaceInv'
  BY <1>1, TargetStep, LeftStep, PlaceStep
<1> QED
  BY <1>2, <1>3, <1>4 DEF Inv

\* The invariant the properties follow from.
THEOREM Invariant == Spec => []Inv
BY InvInit, InvStep, PTL DEF Spec

\* x, if b.
Flag(b, x) == IF b THEN {x} ELSE {}

\* A set of at most one, by a condition.
LEMMA Flags ==
  ASSUME NEW b \in BOOLEAN, NEW x
  PROVE /\ IsFiniteSet(Flag(b, x)) /\ Cardinality(Flag(b, x)) = One(b)
        /\ One(b) \in Nat
<1>1. CASE b
  BY <1>1, FS_Singleton DEF Flag, One
<1>2. CASE ~ b
  BY <1>2, FS_EmptySet DEF Flag, One
<1> QED
  BY <1>1, <1>2

\* Two sets with nothing in common.
LEMMA Apart ==
  ASSUME NEW S, NEW T, IsFiniteSet(S), IsFiniteSet(T), S \cap T = {}
  PROVE /\ IsFiniteSet(S \cup T)
        /\ Cardinality(S \cup T) = Cardinality(S) + Cardinality(T)
        /\ Cardinality(S) \in Nat /\ Cardinality(T) \in Nat
<1>1. Cardinality(S \cap T) = 0
  BY FS_EmptySet
<1>2. Cardinality(S) \in Nat /\ Cardinality(T) \in Nat
  BY FS_CardinalityType
<1>3. /\ IsFiniteSet(S \cup T)
      /\ Cardinality(S \cup T) = Cardinality(S) + Cardinality(T) - Cardinality(S \cap T)
  BY FS_Union
<1> QED
  BY <1>1, <1>2, <1>3

\* What p holds.
HoldersOf(p) ==
  Flag(tab[p] # None /\ tab[p].gen = conn.gen, <<"tab", p>>)
  \cup Flag(closing[p] # None /\ closing[p].gen = conn.gen, <<"closing", p>>)
  \cup Flag(feed[p] # None /\ feed[p].gen = conn.gen, <<"feed", p>>)
  \cup Flag(job[p].gen = conn.gen, <<"job", p>>)

\* The holders that are p's are as many as its leases.
LEMMA HoldersOfCount ==
  ASSUME NEW p
  PROVE IsFiniteSet(HoldersOf(p)) /\ Cardinality(HoldersOf(p)) = Leases(p) /\ Leases(p) \in Nat
<1> DEFINE bA == tab[p] # None /\ tab[p].gen = conn.gen
           bB == closing[p] # None /\ closing[p].gen = conn.gen
           bC == feed[p] # None /\ feed[p].gen = conn.gen
           bD == job[p].gen = conn.gen
           a == Flag(bA, <<"tab", p>>)
           b == Flag(bB, <<"closing", p>>)
           c == Flag(bC, <<"feed", p>>)
           d == Flag(bD, <<"job", p>>)
<1>1. a \cap b = {} /\ (a \cup b) \cap c = {} /\ (a \cup b \cup c) \cap d = {}
  BY DEF Flag
<1>2. HoldersOf(p) = a \cup b \cup c \cup d /\ Leases(p) = One(bA) + One(bB) + One(bC) + One(bD)
  BY DEF HoldersOf, Leases
<1>3. bA \in BOOLEAN /\ bB \in BOOLEAN /\ bC \in BOOLEAN /\ bD \in BOOLEAN
  OBVIOUS
<1> HIDE DEF bA, bB, bC, bD
<1>4. /\ IsFiniteSet(a) /\ IsFiniteSet(b) /\ IsFiniteSet(c) /\ IsFiniteSet(d)
      /\ Cardinality(a) = One(bA) /\ Cardinality(b) = One(bB)
      /\ Cardinality(c) = One(bC) /\ Cardinality(d) = One(bD)
  BY <1>3, Flags
<1> HIDE DEF a, b, c, d
<1>5. /\ IsFiniteSet(a \cup b) /\ Cardinality(a \cup b) = Cardinality(a) + Cardinality(b)
      /\ Cardinality(a) \in Nat /\ Cardinality(b) \in Nat
  BY <1>1, <1>4, Apart
<1>6. /\ IsFiniteSet(a \cup b \cup c) /\ Cardinality(c) \in Nat
      /\ Cardinality(a \cup b \cup c) = Cardinality(a \cup b) + Cardinality(c)
  BY <1>1, <1>4, <1>5, Apart
<1>7. /\ IsFiniteSet(a \cup b \cup c \cup d) /\ Cardinality(d) \in Nat
      /\ Cardinality(a \cup b \cup c \cup d) = Cardinality(a \cup b \cup c) + Cardinality(d)
  BY <1>1, <1>4, <1>6, Apart
<1> QED
  BY <1>2, <1>4, <1>5, <1>6, <1>7

\* How many leases are held is how many holders there are.
LEMMA HoldersCount == Cardinality(Holders) = Leases("bet365") + Leases("betano")
<1>1. Holders = HoldersOf("bet365") \cup HoldersOf("betano")
  <2>1. ASSUME NEW x PROVE x \in Holders <=> \E p \in Provider : x \in HoldersOf(p)
    BY DEF Holders, HoldersOf, Flag
  <2> QED
    BY <2>1 DEF Provider
<1>2. HoldersOf("bet365") \cap HoldersOf("betano") = {}
  BY DEF HoldersOf, Flag
<1> QED
  BY <1>1, <1>2, HoldersOfCount, Apart

\* The connection's users are those that hold a lease of it, so that it closes
\* with the last of them and not before.
THEOREM UsersAreHolders == Spec => []LeasesAreCounted
<1>1. Inv => LeasesAreCounted
  BY HoldersCount DEF Inv, LeaseInv, LeasesAreCounted
<1> QED
  BY <1>1, Invariant, PTL

\* What an aborted operation left running never acts on a tab in use.
THEOREM LeftoversStayApart == Spec => []NoLateNavigation
<1>1. Inv => NoLateNavigation
  BY DEF Inv, LeftInv, NoLateNavigation
<1> QED
  BY <1>1, Invariant, PTL

\* Every open target of ours is accounted for, and after close() none is left
\* but those Chrome kept.
THEOREM TabsAreAccountedFor == Spec => []TabsMatchChrome
<1>1. Inv => TabsMatchChrome
  <2> SUFFICES ASSUME Inv PROVE TabsMatchChrome
    OBVIOUS
  <2>1. /\ chrome.open \subseteq Owned \union orphans
        /\ \A p \in Provider :
             tab[p] # None => tab[p].target \in chrome.open \union notices \union overlooked
    BY DEF Inv, PlaceInv
  <2>2. ASSUME closer = "closed" PROVE chrome.open \subseteq orphans
    <3>1. \A p \in Provider : tab[p] = None /\ closing[p] = None /\ job[p].target = 0
      BY <2>2 DEF Inv, CloseInv, JobInv
    <3>2. Owned \subseteq {0} /\ 0 \notin chrome.open
      BY <3>1 DEF Owned, Inv, TargetInv, TypeInv, PlacesTyped
    <3> QED
      BY <2>1, <3>2
  <2> QED
    BY <2>1, <2>2 DEF TabsMatchChrome
<1> QED
  BY <1>1, Invariant, PTL
=============================================================================
