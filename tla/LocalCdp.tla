------------------------------- MODULE LocalCdp -------------------------------
(***************************************************************************)
(* LocalCdp                                                                *)
(*   .../shared/browser/local-cdp.service.ts   runExclusive(), openFeed(), *)
(*                                             warmup(), close()           *)
(*   .../shared/browser/cdp-lease.ts, cdp-connection.ts, chrome-tab.ts     *)
(*   .../modules/bet365/transport/cdp-feed.ts, modules/bet365/*.client.ts  *)
(*   .../modules/betano/transport/betano-browser.ts and its client         *)
(*                                                                         *)
(* Two providers borrow the Chrome the user has open.  Each has one tab of *)
(* its own, used by one job at a time; a feed is the session a collector   *)
(* attaches to that tab.  Tabs and feeds share one connection, closed when *)
(* its last user lets go.  Everything Chrome is asked may be answered,     *)
(* refused or time out; the connection may end, Chrome or the user may     *)
(* close a tab, a job may be aborted at any time, and what it awaited then *)
(* goes on without it.                                                     *)
(*                                                                         *)
(* A tab is the number of its target.  One navigation and its answer stand *)
(* for all those of a job; what is captured, and the status that health()  *)
(* shows, are left out, and so are the browser this program would launch   *)
(* itself and the pages Playwright manages, which only tests use.          *)
(***************************************************************************)
EXTENDS Naturals, Sequences, FiniteSets, SequencesExt

CONSTANTS
  None,
  MaxTabs, MaxConnections, MaxJobs, MaxFaults,
  MaxAll      \* jobs and faults together

ASSUME LocalCdpAssumption ==
  /\ {MaxTabs, MaxConnections, MaxJobs, MaxFaults, MaxAll} \subseteq Nat
  /\ None \notin [target : Nat, gen : Nat] \union
                 [target : Nat, gen : Nat, warmed : BOOLEAN]

VARIABLES
  chrome,     \* open: our targets that exist; made: how many there ever were
  notices,    \* the targets whose detaching Chrome has announced
  conn,       \* the entry of the endpoint: state, users; gen counts entries
  cooling,    \* Date.now() < retryAt
  tab,        \* tab[p]: OwnedTab.tab, or None
  job,        \* job[p]: what runExclusive() does; busy unless "idle"
  closing,    \* closing[p]: the tab Target.closeTarget was sent for
  feed,       \* feed[p]: the feed the collector of p keeps
  line,       \* warmupTail: the warm-ups not over yet
  leftover,   \* what aborted jobs awaited and nobody awaits any more
  closer,     \* close()
  orphans,    \* history: targets Chrome may keep whatever we do
  overlooked, \* history: tabs gone before their listener was there
  spent       \* bounds: jobs, faults

vars == <<chrome, notices, conn, cooling, tab, job, closing, feed, line,
          leftover, closer, orphans, overlooked, spent>>

Provider == {"bet365", "betano"}

Idle == [phase |-> "idle", kind |-> "none", back |-> "action", aborted |-> FALSE,
         target |-> 0, gen |-> 0]

Alive(gen) == conn.state = "open" /\ conn.gen = gen
Reached(x) == Alive(x.gen) /\ x.target \in chrome.open

Fault ==
  /\ spent.faults < MaxFaults /\ spent.jobs + spent.faults < MaxAll
  /\ spent' = [spent EXCEPT !.faults = @ + 1]

\* A command is refused because what it is for is gone, or for a fault.
Refused(x) ==
  \/ ~Reached(x) /\ UNCHANGED spent
  \/ Fault

-----------------------------------------------------------------------------
(* The connection: acquireCdp() and the release it returns. *)

Acquired_Uncounted ==
  IF conn.state = "none"
  THEN [gen |-> conn.gen + 1, state |-> "connecting", users |-> 1]
  ELSE conn

Acquired ==
  IF conn.state = "none"
  THEN [gen |-> conn.gen + 1, state |-> "connecting", users |-> 1]
  ELSE [conn EXCEPT !.users = @ + 1]

Dropped == [conn EXCEPT !.state = "none", !.users = 0]

\* A lease of an entry that is gone has nothing to give back.
Released(gen) ==
  IF conn.gen # gen \/ conn.state = "none" THEN conn
  ELSE IF conn.users = 1 THEN Dropped
  ELSE [conn EXCEPT !.users = @ - 1]

Approve ==
  /\ conn.state = "connecting"
  /\ conn' = [conn EXCEPT !.state = "open"]
  /\ UNCHANGED <<chrome, notices, cooling, tab, job, closing, feed, line,
                 leftover, closer, orphans, overlooked, spent>>

ConnectFails ==
  /\ conn.state = "connecting"
  /\ Fault
  /\ conn' = Dropped
  /\ UNCHANGED <<chrome, notices, cooling, tab, job, closing, feed, line,
                 leftover, closer, orphans, overlooked>>

\* The connection ends: every tab on it is forgotten, not closed.
Disconnect(quits) ==
  /\ conn.state = "open"
  /\ Fault
  /\ conn' = Dropped
  /\ notices' = {}
  /\ chrome' = IF quits THEN [chrome EXCEPT !.open = {}] ELSE chrome
  /\ orphans' = orphans \union chrome.open
  /\ cooling' = (cooling \/ \E p \in Provider : tab[p] # None)
  /\ tab' = [p \in Provider |-> None]
  /\ UNCHANGED <<job, closing, feed, line, leftover, closer, overlooked>>

CoolDown ==
  /\ cooling
  /\ cooling' = FALSE
  /\ UNCHANGED <<chrome, notices, conn, tab, job, closing, feed, line,
                 leftover, closer, orphans, overlooked, spent>>

\* A target closes by itself; the notice of it comes later.
TargetCloses(t) ==
  /\ t \in chrome.open
  /\ Fault
  /\ chrome' = [chrome EXCEPT !.open = @ \ {t}]
  /\ notices' = notices \union (IF conn.state = "open" THEN {t} ELSE {})
  /\ UNCHANGED <<conn, cooling, tab, job, closing, feed, line, leftover, closer,
                 orphans, overlooked>>

\* The listener getTab() leaves behind knows its own tab.
Forgets(p, t) == tab[p] # None /\ tab[p].target = t

Detached(t) ==
  /\ t \in notices
  /\ notices' = notices \ {t}
  /\ tab' = [p \in Provider |-> IF Forgets(p, t) THEN None ELSE tab[p]]
  /\ conn' = IF \E p \in Provider : Forgets(p, t) THEN Released(conn.gen) ELSE conn
  /\ overlooked' = overlooked \union
       {u \in {t} : \E p \in Provider : job[p].phase = "version" /\ job[p].target = u}
  /\ UNCHANGED <<chrome, cooling, job, closing, feed, line, leftover, closer,
                 orphans, spent>>

-----------------------------------------------------------------------------
(* A job: runExclusive() around the collector's action. *)

In(p, phase) == job[p].phase = phase
Goes(p, phase) == job' = [job EXCEPT ![p].phase = phase]

Start(p, kind) ==
  /\ closer = "no"
  /\ In(p, "idle")
  /\ kind = "list" \/ p = "betano"
  /\ spent.jobs < MaxJobs /\ spent.jobs + spent.faults < MaxAll
  /\ spent' = [spent EXCEPT !.jobs = @ + 1]
  /\ job' = [job EXCEPT ![p] = [Idle EXCEPT !.phase = "tab", !.kind = kind]]
  /\ UNCHANGED <<chrome, notices, conn, cooling, tab, closing, feed, line,
                 leftover, closer, orphans, overlooked>>

ClosesTab_Never(aborted) == FALSE

\* A job that was aborted closes its tab before another may use it.
ClosesTab(aborted) == aborted

\* The job rejects: the jobs, tabs and closings after it.
RejectedAs(p, aborted) ==
  LET closes == ClosesTab(aborted) /\ tab[p] # None IN
  /\ job' = [job EXCEPT ![p] = IF closes THEN [Idle EXCEPT !.phase = "closing"] ELSE Idle]
  /\ tab' = IF closes THEN [tab EXCEPT ![p] = None] ELSE tab
  /\ closing' = IF closes THEN [closing EXCEPT ![p] = tab[p]] ELSE closing

Rejected(p) == RejectedAs(p, job[p].aborted)
Rejects(p) == Rejected(p) /\ UNCHANGED <<chrome, notices, feed, closer, overlooked>>

\* What closeTab() does until Chrome answers or does not.
CloseTab(p) ==
  /\ closing[p] # None
  /\ \/ /\ Reached(closing[p])
        /\ chrome' = [chrome EXCEPT !.open = @ \ {closing[p].target}]
        /\ UNCHANGED <<orphans, spent>>
     \/ /\ Refused(closing[p])
        /\ orphans' = orphans \union {closing[p].target}
        /\ UNCHANGED chrome
  /\ conn' = Released(closing[p].gen)
  /\ closing' = [closing EXCEPT ![p] = None]
  /\ job' = IF In(p, "closing") THEN [job EXCEPT ![p] = Idle] ELSE job
  /\ UNCHANGED <<notices, cooling, tab, feed, line, leftover, closer, overlooked>>

\* getTab()
GetTab(p) ==
  /\ In(p, "tab")
  /\ UNCHANGED <<conn, cooling, line, leftover, orphans, spent>>
  /\ IF closer # "no" \/ cooling THEN Rejects(p)
     ELSE /\ Goes(p, IF tab[p] # None THEN job[p].back ELSE "endpoint")
          /\ UNCHANGED <<chrome, notices, tab, closing, feed, closer, overlooked>>

\* The endpoint is read and the connection's lease taken.
Connect(p) ==
  /\ In(p, "endpoint")
  /\ conn.state # "none" \/ conn.gen < MaxConnections
  /\ conn' = Acquired
  /\ job' = [job EXCEPT ![p].phase = "connect", ![p].gen = Acquired.gen]
  /\ UNCHANGED <<chrome, notices, cooling, tab, closing, feed, line, leftover,
                 closer, orphans, overlooked, spent>>

\* Opening the tab failed for good.
OpenFails(p) ==
  /\ cooling' = TRUE
  /\ Rejected(p)
  /\ UNCHANGED <<notices, feed, line, leftover, closer, overlooked>>

NoEndpoint(p) ==
  /\ In(p, "endpoint")
  /\ IF conn.state = "none" /\ conn.gen = MaxConnections THEN UNCHANGED spent ELSE Fault
  /\ OpenFails(p)
  /\ UNCHANGED <<chrome, conn, orphans>>

NotConnected(p) ==
  /\ In(p, "connect")
  /\ conn.state = "none" \/ conn.gen # job[p].gen
  /\ OpenFails(p)
  /\ UNCHANGED <<chrome, conn, orphans, spent>>

\* Target.createTarget, whose answer may be lost.
CreateTarget(p) ==
  /\ In(p, "connect")
  /\ Alive(job[p].gen) /\ chrome.made < MaxTabs
  /\ LET t == chrome.made + 1 IN
     /\ chrome' = [open |-> chrome.open \union {t}, made |-> t]
     /\ \/ /\ job' = [job EXCEPT ![p].phase = "attach", ![p].target = t]
           /\ UNCHANGED <<conn, cooling, tab, closing, orphans, spent>>
        \/ /\ Fault
           /\ orphans' = orphans \union {t}
           /\ conn' = Released(job[p].gen)
           /\ cooling' = TRUE
           /\ Rejected(p)
  /\ UNCHANGED <<notices, feed, line, leftover, closer, overlooked>>

NoTarget(p) ==
  /\ In(p, "connect")
  /\ Alive(job[p].gen)
  /\ IF chrome.made = MaxTabs THEN UNCHANGED spent ELSE Fault
  /\ conn' = Released(job[p].gen)
  /\ OpenFails(p)
  /\ UNCHANGED <<chrome, orphans>>

Attach(p) ==
  /\ In(p, "attach")
  /\ \/ Reached(job[p]) /\ Goes(p, "version") /\ UNCHANGED spent
     \/ Refused(job[p]) /\ Goes(p, "undo")
  /\ UNCHANGED <<chrome, notices, conn, cooling, tab, closing, feed, line,
                 leftover, closer, orphans, overlooked>>

\* The browser's version is that of a headed Chrome here; the question is
\* not about the target.
Version(p) ==
  /\ In(p, "version")
  /\ \/ /\ Alive(job[p].gen)
        /\ tab' = [tab EXCEPT ![p] = [target |-> job[p].target, gen |-> job[p].gen]]
        /\ job' = [job EXCEPT ![p].phase = job[p].back, ![p].gen = 0, ![p].target = 0]
        /\ UNCHANGED spent
     \/ /\ IF Alive(job[p].gen) THEN Fault ELSE UNCHANGED spent
        /\ Goes(p, "undo")
        /\ UNCHANGED tab
  /\ UNCHANGED <<chrome, notices, conn, cooling, closing, feed, line, leftover,
                 closer, orphans, overlooked>>

\* The target that was created is closed again.
Undo(p) ==
  /\ In(p, "undo")
  /\ \/ /\ Reached(job[p])
        /\ chrome' = [chrome EXCEPT !.open = @ \ {job[p].target}]
        /\ UNCHANGED <<orphans, spent>>
     \/ /\ Refused(job[p])
        /\ orphans' = orphans \union {job[p].target}
        /\ UNCHANGED chrome
  /\ conn' = Released(job[p].gen)
  /\ OpenFails(p)

-----------------------------------------------------------------------------
(* The collector's action: its feed, then the page. *)

IsCurrent(p) ==
  feed[p] # None /\ tab[p] # None /\ feed[p].target = tab[p].target

\* Betano's details need the page its listing left; the others open.
Begin(p) ==
  /\ In(p, "action")
  /\ LET opens == p = "bet365" \/ job[p].kind = "list" IN
     IF job[p].aborted \/ (~opens /\ ~IsCurrent(p)) THEN Rejects(p) /\ UNCHANGED line
     ELSE /\ job' = [job EXCEPT ![p].back = "feed",
                       ![p].phase = IF ~IsCurrent(p)
                                    THEN IF feed[p] = None THEN "tab" ELSE "drop"
                                    ELSE IF feed[p].warmed THEN "capture" ELSE "warm"]
          /\ line' = IF IsCurrent(p) /\ ~feed[p].warmed
                     THEN Append(line, feed[p].target) ELSE line
          /\ UNCHANGED <<chrome, notices, tab, closing, feed, closer, overlooked>>
  /\ UNCHANGED <<conn, cooling, leftover, orphans, spent>>

\* ChromeTab.open() with the tab's target: a lease of its own.
OpenFeed(p) ==
  /\ In(p, "feed")
  /\ IF tab[p] = None THEN Rejects(p) /\ UNCHANGED conn
     ELSE /\ conn' = Acquired
          /\ job' = [job EXCEPT ![p].phase = "session", ![p].gen = Acquired.gen,
                                ![p].target = tab[p].target]
          /\ UNCHANGED <<chrome, notices, tab, closing, feed, closer, overlooked>>
  /\ UNCHANGED <<cooling, line, leftover, orphans, spent>>

\* A feed that opened for an aborted job is detached at once.
AttachFeed(p) ==
  /\ In(p, "session")
  /\ Reached(job[p])
  /\ feed' = [feed EXCEPT ![p] = [target |-> job[p].target, gen |-> job[p].gen,
                                  warmed |-> FALSE]]
  /\ job' = [job EXCEPT ![p].gen = 0, ![p].target = 0,
                        ![p].phase = IF job[p].aborted THEN "drop" ELSE "warm"]
  /\ line' = IF job[p].aborted THEN line ELSE Append(line, job[p].target)
  /\ UNCHANGED <<chrome, notices, conn, cooling, tab, closing, leftover, closer,
                 orphans, overlooked, spent>>

NoFeed(p) ==
  /\ In(p, "session")
  /\ Refused(job[p])
  /\ conn' = Released(job[p].gen)
  /\ Rejects(p)
  /\ UNCHANGED <<cooling, line, leftover, orphans>>

\* detach(): answered or not, the lease is given back.
DropFeed(p) ==
  /\ In(p, "drop")
  /\ conn' = Released(feed[p].gen)
  /\ feed' = [feed EXCEPT ![p] = None]
  /\ IF job[p].aborted THEN Rejected(p)
     ELSE Goes(p, "tab") /\ UNCHANGED <<tab, closing>>
  /\ UNCHANGED <<chrome, notices, cooling, line, leftover, closer, orphans,
                 overlooked, spent>>

\* close() of the collector, when no operation is under way.
CloseCollection(p) ==
  /\ In(p, "idle") /\ feed[p] # None
  /\ conn' = Released(feed[p].gen)
  /\ feed' = [feed EXCEPT ![p] = None]
  /\ UNCHANGED <<chrome, notices, cooling, tab, job, closing, line, leftover,
                 closer, orphans, overlooked, spent>>

LeavesLine_Warmed(warmed) == IF warmed THEN Tail(line) ELSE line

\* A warm-up that is over, however it ended, lets the next one begin.
LeavesLine(warmed) == Tail(line)

\* warmup(): the first in line begins, unless everything is to stop.
FirstInLine(p) ==
  /\ In(p, "warm") /\ Head(line) = feed[p].target
  /\ IF closer = "no"
     THEN /\ Goes(p, "warming")
          /\ UNCHANGED <<chrome, notices, tab, closing, feed, line, closer, overlooked>>
     ELSE Rejects(p) /\ line' = LeavesLine(FALSE)
  /\ UNCHANGED <<conn, cooling, leftover, orphans, spent>>

\* It navigates to the first page and waits for what to click.
WarmUp(p) ==
  /\ In(p, "warming")
  /\ \/ /\ Reached(feed[p])
        /\ line' = LeavesLine(TRUE)
        /\ feed' = [feed EXCEPT ![p].warmed = TRUE]
        /\ Goes(p, "capture")
        /\ UNCHANGED <<chrome, notices, tab, closing, closer, overlooked, spent>>
     \/ Refused(feed[p]) /\ Rejects(p) /\ line' = LeavesLine(FALSE)
  /\ UNCHANGED <<conn, cooling, leftover, orphans>>

\* The page is navigated to and the response it fetches is read, which
\* ends the job,
PageAnswers(p) ==
  /\ In(p, "capture")
  /\ Reached(feed[p])
  /\ job' = [job EXCEPT ![p] = Idle]
  /\ UNCHANGED <<chrome, notices, conn, cooling, tab, closing, feed, line,
                 leftover, closer, orphans, overlooked, spent>>

\* or the navigation or the request fails, or nothing comes in time.
NoAnswer(p) ==
  /\ In(p, "capture")
  /\ Refused(feed[p])
  /\ Rejects(p)
  /\ UNCHANGED <<conn, cooling, line, leftover, orphans>>

\* collectionStep() gives up at once what it awaits; every other await is
\* sat out.
Abort(p) ==
  /\ job[p].phase \notin {"idle", "closing"} /\ ~job[p].aborted
  /\ Fault
  /\ IF job[p].phase \in {"warm", "warming", "capture"}
     THEN /\ leftover' = leftover \union
               {[target |-> feed[p].target, gen |-> feed[p].gen,
                 inLine |-> job[p].phase # "capture"]}
          /\ RejectedAs(p, TRUE)
     ELSE /\ job' = [job EXCEPT ![p].aborted = TRUE]
          /\ UNCHANGED <<tab, closing, leftover>>
  /\ UNCHANGED <<chrome, notices, conn, cooling, feed, line, closer, orphans,
                 overlooked>>

\* What nobody awaits warms up when its turn comes, navigates, and ends.
GoesOn(l) ==
  /\ l \in leftover
  /\ IF l.inLine THEN Head(line) = l.target /\ line' = LeavesLine(Reached(l))
     ELSE UNCHANGED line
  /\ leftover' = (leftover \ {l}) \union
                 (IF l.inLine /\ Reached(l) THEN {[l EXCEPT !.inLine = FALSE]} ELSE {})
  /\ UNCHANGED <<chrome, notices, conn, cooling, tab, job, closing, feed, closer,
                 orphans, overlooked, spent>>

-----------------------------------------------------------------------------
(* close() *)

Stop ==
  /\ closer = "no"
  /\ closer' = "drain"
  /\ UNCHANGED <<chrome, notices, conn, cooling, tab, job, closing, feed, line,
                 leftover, orphans, overlooked, spent>>

Drained_Line == line = << >>

\* The jobs have settled and the warm-ups are over.
Drained == line = << >> /\ \A p \in Provider : In(p, "idle")

Drain ==
  /\ closer = "drain" /\ Drained
  /\ closer' = "tabs"
  /\ UNCHANGED <<chrome, notices, conn, cooling, tab, job, closing, feed, line,
                 leftover, orphans, overlooked, spent>>

\* The tabs are closed one after the other.
CloseNext ==
  /\ closer = "tabs" /\ \A p \in Provider : closing[p] = None
  /\ IF \A p \in Provider : tab[p] = None
     THEN closer' = "closed" /\ UNCHANGED <<tab, closing>>
     ELSE /\ closer' = closer
          /\ LET p == IF tab["bet365"] # None THEN "bet365" ELSE "betano" IN
             /\ closing' = [closing EXCEPT ![p] = tab[p]]
             /\ tab' = [tab EXCEPT ![p] = None]
  /\ UNCHANGED <<chrome, notices, conn, cooling, job, feed, line, leftover,
                 orphans, overlooked, spent>>

-----------------------------------------------------------------------------
Init ==
  /\ chrome = [open |-> {}, made |-> 0] /\ notices = {}
  /\ conn = [gen |-> 0, state |-> "none", users |-> 0] /\ cooling = FALSE
  /\ tab = [p \in Provider |-> None] /\ closing = [p \in Provider |-> None]
  /\ job = [p \in Provider |-> Idle] /\ feed = [p \in Provider |-> None]
  /\ line = << >> /\ leftover = {} /\ closer = "no"
  /\ orphans = {} /\ overlooked = {}
  /\ spent = [jobs |-> 0, faults |-> 0]

Opening(p) ==
  \/ GetTab(p) \/ Connect(p) \/ NoEndpoint(p) \/ NotConnected(p)
  \/ CreateTarget(p) \/ NoTarget(p) \/ Attach(p) \/ Version(p) \/ Undo(p)

Working(p) ==
  \/ Begin(p) \/ OpenFeed(p) \/ AttachFeed(p) \/ NoFeed(p) \/ DropFeed(p)
  \/ FirstInLine(p) \/ WarmUp(p) \/ PageAnswers(p) \/ NoAnswer(p)

Connecting == Approve \/ ConnectFails
Closing == Drain \/ CloseNext

Next ==
  \/ \E p \in Provider :
       \/ \E kind \in {"list", "detail"} : Start(p, kind)
       \/ Opening(p) \/ Working(p) \/ CloseTab(p)
       \/ CloseCollection(p) \/ Abort(p)
  \/ \E l \in leftover : GoesOn(l)
  \/ Connecting \/ CoolDown \/ Stop \/ Closing
  \/ \E quits \in BOOLEAN : Disconnect(quits)
  \/ \E t \in 1..MaxTabs : TargetCloses(t) \/ Detached(t)

\* Commands are answered or time out, and so are the approval of the
\* connection, the captures and what nobody awaits.
Fairness ==
  /\ \A p \in Provider : WF_vars(Opening(p) \/ Working(p)) /\ WF_vars(CloseTab(p))
  /\ WF_vars(\E l \in leftover : GoesOn(l))
  /\ WF_vars(Connecting) /\ WF_vars(Closing)

Spec == Init /\ [][Next]_vars /\ Fairness

-----------------------------------------------------------------------------
Holders ==
  {<<"tab", p>> : p \in {p \in Provider : tab[p] # None /\ tab[p].gen = conn.gen}}
  \union {<<"closing", p>> :
            p \in {p \in Provider : closing[p] # None /\ closing[p].gen = conn.gen}}
  \union {<<"feed", p>> :
            p \in {p \in Provider : feed[p] # None /\ feed[p].gen = conn.gen}}
  \union {<<"job", p>> : p \in {p \in Provider : job[p].gen = conn.gen}}

\* The connection's users are the tabs, feeds and attempts that hold a
\* lease of it, so it closes with the last of them and not before.
LeasesAreCounted ==
  conn.state # "none" => conn.users = Cardinality(Holders) /\ conn.users > 0

\* What an aborted operation left running never acts on the tab a later
\* operation uses.
NoLateNavigation ==
  \A l \in leftover, p \in Provider : tab[p] # None => tab[p].target # l.target

Owned ==
  {tab[p].target : p \in {p \in Provider : tab[p] # None}}
  \union {closing[p].target : p \in {p \in Provider : closing[p] # None}}
  \union {job[p].target : p \in Provider}

\* Every target we made that is open is a provider's tab, or being opened
\* or closed for one, and after close() there is none, save those Chrome
\* kept when a command or the connection failed.  A tab that Chrome closed is
\* forgotten as soon as its notice arrives, unless the notice came before
\* there was a listener.
TabsMatchChrome ==
  /\ chrome.open \subseteq Owned \union orphans
  /\ closer = "closed" => chrome.open \subseteq orphans
  /\ \A p \in Provider :
       tab[p] # None => tab[p].target \in chrome.open \union notices \union overlooked

\* Every job ends, whatever it waits for, and then close() does.
WorkEnds ==
  /\ \A p \in Provider : ~In(p, "idle") ~> In(p, "idle")
  /\ closer = "drain" ~> closer = "closed"
=============================================================================
