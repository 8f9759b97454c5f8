-------------------------- MODULE ProviderCollection --------------------------
(***************************************************************************)
(* ProviderCollection                                                      *)
(*   .../modules/collection/collection.service.ts, scheduled-operation.ts  *)
(*                                                                         *)
(* One provider of a collecting process, from the request for a list or a  *)
(* detail to the state that is read: the operation that runs its collector *)
(* under a signal, defers what it captured to one commit point, has the    *)
(* store write it and confirms that it can be read; the transport and the  *)
(* context it leaves behind for the next one; and the three drivers of     *)
(* operations: the agent's scheduler, a cycle of the command line and its  *)
(* loop.  A process may crash and start again, Chrome may drop the tab.    *)
(*                                                                         *)
(* A capture is the moment it was taken.  Every listing is taken to hold   *)
(* the events of its esport.                                               *)
(***************************************************************************)
EXTENDS ProviderCollectors, FiniteSets

CONSTANTS
  Esports,      \* settings.esports, a sequence
  MaxNow,       \* bound: captures in a behaviour
  MaxPages,     \* bound: answers one capture takes
  TTL,          \* settings.ttlMs
  Window        \* ten minutes, for the tabs of one detail

ASSUME CollectionAssumption ==
  /\ Esports \in Seq(Esport) \ {<<>>} /\ ToSet(Esports) = Esport
  /\ {MaxNow, MaxPages, TTL, Window} \subseteq Nat \ {0}

VARIABLES
  provider,    \* which of the five
  mode,        \* who drives it: "agent", "cycle" or "loop"
  remote,      \* persistence is the agent's outbox, otherwise files
  enabled,     \* its switch, and for Chrome the runtime and the platform
  now,         \* the clock, which a capture advances
  up,          \* the process runs
  stopping,    \* it was asked to end
  loaded,      \* the service's refresh() has restored the store
  mem,         \* the store's maps
  disk,        \* its state file; the newest publication in a remote outbox
  journal,     \* the last batch of each key's scope
  handle,      \* the tab: "none", "current" or "lost"
  ctx,         \* the listing each esport's context comes from, or 0
  ready,       \* the scheduler's contextReady
  op,          \* the operation under way
  cycle,       \* collectCycle() and its place in runLoop()
  acked,       \* history: what a successful operation returned
  late         \* history: the captures of operations that did not commit

config == <<provider, mode, remote, enabled>>
store == <<loaded, mem, disk, journal>>
transport == <<handle, ctx>>
vars == <<config, now, up, stopping, store, transport, ready, op, cycle,
          acked, late>>

Never == [k \in Key |-> 0]

NoOp == [kind |-> "none", es |-> <<>>, todo |-> <<>>, rounds |-> <<>>,
         got |-> Never, since |-> Never, dropped |-> FALSE,
         aborted |-> FALSE, committing |-> FALSE]
NoCycle == [on |-> FALSE, games |-> <<>>, ok |-> TRUE, turn |-> 1]

\* providerRuntime(): what the bootstrap refreshes and the agenda schedules.
Active == enabled

Init ==
  /\ provider \in Provider /\ mode \in {"agent", "cycle", "loop"}
  /\ remote \in BOOLEAN /\ enabled \in BOOLEAN
  /\ now = 0 /\ up = FALSE /\ stopping = FALSE
  /\ loaded = FALSE /\ mem = Never /\ disk = Never /\ journal = Never
  /\ handle = "none" /\ ctx = [e \in Esport |-> 0]
  /\ ready = FALSE /\ op = NoOp /\ cycle = NoCycle
  /\ acked = Never /\ late = {}

----------------------------------------------------------------------------
(* The store.                                                              *)

\* What load() finds: the files, or an outbox process's empty checkpoints.
Restored == IF remote THEN Never ELSE disk

Fresh(at) == at > 0 /\ now - at <= TTL

\* The state as the maps had it before this ingest.
Saved_Before(k, t) ==
  IF provider = "bet365" /\ k \in Event THEN [disk EXCEPT ![k] = t] ELSE mem

\* One file per event, or one for the whole state.
Saved(k, t) ==
  IF provider = "bet365" /\ k \in Event THEN [disk EXCEPT ![k] = t]
  ELSE [j \in Key |-> IF j = k THEN t
                      ELSE IF provider = "bet365" /\ j \in Event THEN disk[j]
                      ELSE mem[j]]

\* The store's own order check.
Ignored(k, t) ==
  IF provider = "bet365" THEN mem[k] >= t ELSE mem[k] > t

IngestSteps(k) ==
  CASE provider = "bet365" /\ k \in Esport -> Bet365ListIngest(remote, k)
    [] provider = "bet365" /\ k \in Event -> Bet365DetailIngest(remote, k)
    [] provider = "betano" -> BetanoIngest(remote, k)
    [] provider = "superbet" -> SuperbetIngest(remote, k)
    [] provider = "blaze" -> BlazeIngest(remote, k)
    [] provider = "estrelabet" -> EstrelaBetIngest(remote, k)

----------------------------------------------------------------------------
(* An operation: the steps of its collector between refresh() and the      *)
(* commit point.                                                           *)

Requesting(kind, es, v, n) ==
  CASE provider = "bet365" -> Bet365Request(kind, es, v, n)
    [] provider = "betano" -> BetanoRequest(kind, es, v, n)
    [] provider = "superbet" ->
         SuperbetRequest(kind, es, v, ctx[EsportOf[v]] > 0)
    [] provider = "blaze" -> BlazeRequest(kind, es, v, n)
    [] provider = "estrelabet" -> EstrelaBetRequest(kind, es, v, n)

Idle == op.kind = "none"

Begin(kind, es, v, n) ==
  op' = [NoOp EXCEPT !.kind = kind, !.es = es,
                      !.todo = Requesting(kind, es, v, n)]

At(do) == up /\ op.todo # <<>> /\ Head(op.todo).do = do
Keys == Head(op.todo).keys
TheKey == CHOOSE k \in Keys : TRUE
Went == [op EXCEPT !.todo = Tail(@)]

Captured == {op.got[k] : k \in Key} \ {0}

\* closeCollection(): Chrome's collectors let go of the tab and its contexts.
Close ==
  IF provider \in Chrome
    THEN handle' = "none" /\ ctx' = [e \in Esport |-> 0]
    ELSE UNCHANGED transport

Invalidates_Always(why) == why # "started"

\* Which failures take the transport with them.
Invalidates(why) ==
  why # "started" /\ (op.kind = "list" \/ op.aborted \/ why = "transport")

Fail(why) ==
  /\ op' = NoOp
  /\ late' = IF op.committing THEN late ELSE late \cup Captured
  /\ IF Invalidates(why) THEN Close ELSE UNCHANGED transport
  /\ ready' = (ready /\ (why = "started" \/ (op.kind # "list" /\ ~ op.aborted
                                             /\ why # "transport")))
  /\ cycle' = [cycle EXCEPT !.ok = FALSE, !.games = <<>>]
  /\ UNCHANGED <<config, now, up, stopping, store, acked>>

Refresh ==
  /\ At("refresh")
  /\ loaded' = TRUE
  /\ mem' = IF loaded THEN mem ELSE Restored
  /\ op' = Went
  /\ UNCHANGED <<config, now, up, stopping, disk, journal, transport, ready,
                 cycle, acked, late>>

ReadSwitch ==
  /\ At("enabled") /\ enabled
  /\ op' = Went
  /\ UNCHANGED <<config, now, up, stopping, store, transport, ready, cycle,
                 acked, late>>

HasContext(v) ==
  ctx[EsportOf[v]] > 0 /\ (provider = "betano" => handle = "current")

Need ==
  /\ At("need") /\ HasContext(TheKey)
  /\ op' = Went
  /\ UNCHANGED <<config, now, up, stopping, store, transport, ready, cycle,
                 acked, late>>

OpenedTab_Kept == IF handle = "none" THEN "current" ELSE handle

\* A tab that is not current is closed and another one opened.
OpenedTab == "current"

Open ==
  /\ At("open") /\ enabled /\ ~ op.aborted
  /\ handle' = OpenedTab
  /\ op' = Went
  /\ UNCHANGED <<config, now, up, stopping, store, ctx, ready, cycle, acked,
                 late>>

Capture ==
  /\ At("capture") /\ ~ op.aborted
  /\ provider \in Chrome => handle = "current"
  /\ Keys # {} => now < MaxNow
  /\ now' = IF Keys = {} THEN now ELSE now + 1
  /\ op' = [Went EXCEPT
              !.got = [k \in Key |-> IF k \in Keys THEN now' ELSE @[k]],
              !.since = [k \in Key |-> IF k \in Keys /\ @[k] = 0 THEN now'
                                                                ELSE @[k]]]
  /\ UNCHANGED <<config, up, stopping, store, transport, ready, cycle, acked,
                 late>>

\* normalizeRound(): every tab within ten minutes of the listing.
Bet365InTime(v) == op.got[v] - ctx[EsportOf[v]] <= Window

\* normalizeListingRound(): the leagues within ten minutes of each other, and
\* all those the directory advertised, which a refused round is not.
BetanoInTime(e) == op.got[e] - op.since[e] <= Window

InTime(k) == IF k \in Event THEN Bet365InTime(k) ELSE BetanoInTime(k)

CheckRound ==
  /\ At("round") /\ InTime(TheKey)
  /\ op' = Went
  /\ UNCHANGED <<config, now, up, stopping, store, transport, ready, cycle,
                 acked, late>>

Pushed == [Went EXCEPT !.rounds = Append(@, TheKey)]

\* publishCapture(): nothing is published here, only deferred.
Push ==
  /\ At("push") /\ ~ op.aborted
  /\ op' = Pushed
  /\ UNCHANGED <<config, now, up, stopping, store, transport, ready, cycle,
                 acked, late>>

Remember ==
  /\ At("remember")
  /\ ctx' = [e \in Esport |-> IF e \in Keys THEN op.got[e] ELSE ctx[e]]
  /\ op' = Went
  /\ UNCHANGED <<config, now, up, stopping, store, handle, ready, cycle,
                 acked, late>>

\* Any step may be answered by an error; these are the kinds.
Reasons(s) ==
  CASE s.do \in {"refresh", "open"} -> {"transport"}
    [] s.do = "enabled" -> IF enabled THEN {} ELSE {"transport"}
    [] s.do = "need" -> IF HasContext(TheKey) THEN {} ELSE {"other"}
    [] s.do = "capture" ->
         {"transport", "other"} \cup
         (IF op.kind = "detail" THEN {"started"} ELSE {})
    [] s.do = "commit" ->
         {"other"} \cup (IF op.kind = "detail" THEN {"started"} ELSE {})
    [] s.do \in {"round", "ingest", "outbox", "journal", "file"} -> {"other"}
    [] OTHER -> {}

StepFails ==
  /\ up /\ op.todo # <<>>
  /\ \E why \in Reasons(Head(op.todo)) : Fail(why)

BeforeCommit == ~ Idle /\ ~ op.committing

\* The signal is looked at between the steps, and captures race with it.
GiveUp ==
  /\ up /\ BeforeCommit /\ op.aborted
  /\ Fail("aborted")

----------------------------------------------------------------------------
(* The commit point and the publication.                                   *)

MayCommit_Late == At("commit")

MayCommit == At("commit") /\ ~ op.aborted

Commit ==
  /\ MayCommit
  /\ op' = [op EXCEPT !.committing = TRUE,
              !.todo = [i \in 1..Len(op.rounds) |->
                          Step("ingest", {op.rounds[i]})] \o
                       <<Step("confirm", ToSet(op.rounds))>>]
  /\ UNCHANGED <<config, now, up, stopping, store, transport, ready, cycle,
                 acked, late>>

Ingest ==
  /\ At("ingest")
  /\ op' = IF Ignored(TheKey, op.got[TheKey]) THEN Went
           ELSE [Went EXCEPT !.todo = IngestSteps(TheKey) \o @]
  /\ UNCHANGED <<config, now, up, stopping, store, transport, ready, cycle,
                 acked, late>>

WriteOutbox ==
  /\ At("outbox")
  /\ disk' = [disk EXCEPT ![TheKey] = op.got[TheKey]]
  /\ op' = Went
  /\ UNCHANGED <<config, now, up, stopping, loaded, mem, journal, transport,
                 ready, cycle, acked, late>>

AppendJournal ==
  /\ At("journal")
  /\ journal' = [journal EXCEPT ![TheKey] = op.got[TheKey]]
  /\ op' = Went
  /\ UNCHANGED <<config, now, up, stopping, loaded, mem, disk, transport,
                 ready, cycle, acked, late>>

WriteFile ==
  /\ At("file")
  /\ disk' = Saved(TheKey, op.got[TheKey])
  /\ op' = Went
  /\ UNCHANGED <<config, now, up, stopping, loaded, mem, journal, transport,
                 ready, cycle, acked, late>>

SetMemory ==
  /\ At("memory")
  /\ mem' = [mem EXCEPT ![TheKey] = op.got[TheKey]]
  /\ op' = Went
  /\ UNCHANGED <<config, now, up, stopping, loaded, disk, journal, transport,
                 ready, cycle, acked, late>>

ReadEvents(es) == \A e \in es : Fresh(mem[e])
ReadDetail(v) == ReadEvents({EsportOf[v]}) /\ Fresh(mem[v])

\* It can be read, and is no older than what was published.
Accepted ==
  /\ IF op.kind = "list" THEN ReadEvents(ToSet(op.es))
                         ELSE \A v \in Keys : ReadDetail(v)
  /\ \A k \in Keys : mem[k] >= op.got[k]

Confirm ==
  /\ At("confirm") /\ Accepted
  /\ acked' = [k \in Key |-> IF k \in Keys THEN op.got[k] ELSE acked[k]]
  /\ ready' = (mode = "agent" /\ (ready \/ op.kind = "list"))
  /\ op' = NoOp
  /\ UNCHANGED <<config, now, up, stopping, store, transport, cycle, late>>

NotAccepted == At("confirm") /\ ~ Accepted /\ Fail("other")

OpStep ==
  \/ Refresh \/ ReadSwitch \/ Need \/ Open \/ Capture \/ CheckRound
  \/ Push \/ Remember \/ StepFails \/ GiveUp
  \/ Commit \/ Ingest \/ WriteOutbox \/ AppendJournal \/ WriteFile
  \/ SetMemory \/ Confirm \/ NotAccepted

----------------------------------------------------------------------------
(* The process and the drivers.                                            *)

\* Bootstrap: the active providers are refreshed, one that fails later.
Start ==
  /\ ~ up
  /\ up' = TRUE /\ stopping' = FALSE
  /\ loaded' \in {Active, FALSE}
  /\ mem' = IF loaded' THEN Restored ELSE Never
  /\ UNCHANGED <<config, now, disk, journal, transport, ready, op, cycle,
                 acked, late>>

\* What a process that ends takes with it.
Gone ==
  /\ up' = FALSE /\ stopping' = FALSE
  /\ loaded' = FALSE /\ mem' = Never
  /\ journal' = IF remote THEN Never ELSE journal
  /\ handle' = "none" /\ ctx' = [e \in Esport |-> 0]
  /\ ready' = FALSE /\ op' = NoOp /\ cycle' = NoCycle
  /\ UNCHANGED <<config, now, disk, acked>>

Crash == up /\ Gone /\ UNCHANGED late

\* The scheduler launches one job at a time, a detail only on a ready context.
ScheduleList ==
  /\ up /\ mode = "agent" /\ Active /\ ~ stopping /\ Idle
  /\ \E n \in 1..MaxPages : Begin("list", Esports, CHOOSE v \in Event : TRUE, n)
  /\ UNCHANGED <<config, now, up, stopping, store, transport, ready, cycle,
                 acked, late>>

ScheduleDetail ==
  /\ up /\ mode = "agent" /\ Active /\ ~ stopping /\ Idle /\ ready
  /\ \E v \in Event, n \in 1..MaxPages :
       Begin("detail", <<EsportOf[v]>>, v, n)
  /\ UNCHANGED <<config, now, up, stopping, store, transport, ready, cycle,
                 acked, late>>

\* The timeout of the scheduler, cleared when the operation commits.
Timeout ==
  /\ up /\ mode = "agent" /\ BeforeCommit /\ ~ op.aborted
  /\ op' = [op EXCEPT !.aborted = TRUE]
  /\ late' = late \cup Captured
  /\ UNCHANGED <<config, now, up, stopping, store, transport, ready, cycle,
                 acked>>

Stop ==
  /\ up /\ ~ stopping
  /\ stopping' = TRUE
  /\ op' = IF mode = "agent" /\ BeforeCommit
             THEN [op EXCEPT !.aborted = TRUE] ELSE op
  /\ late' = IF op'.aborted THEN late \cup Captured ELSE late
  /\ UNCHANGED <<config, now, up, store, transport, ready, cycle, acked>>

\* stop() awaits the running job; close() closes every provider.
Exit ==
  /\ up /\ stopping /\ Idle /\ ~ cycle.on
  /\ Gone /\ UNCHANGED late

\* bet365 is polled one esport at a time, the others in rounds.
Batches ==
  IF provider = "bet365" /\ mode = "loop"
    THEN [i \in 1..Len(Esports) |-> <<Esports[i]>>]
    ELSE <<Esports>>

StartCycle ==
  /\ up /\ mode # "agent" /\ ~ stopping /\ Idle /\ ~ cycle.on
  /\ \E details \in BOOLEAN, n \in 1..MaxPages :
       /\ cycle' = [cycle EXCEPT !.on = TRUE, !.ok = TRUE,
                      !.games = IF details THEN Batches[cycle.turn] ELSE <<>>]
       /\ Begin("list", Batches[cycle.turn], CHOOSE v \in Event : TRUE, n)
  /\ UNCHANGED <<config, now, up, stopping, store, transport, ready, acked,
                 late>>

\* The detail selectDetail() picks for the next game, or no such event.
CycleDetail ==
  /\ up /\ cycle.on /\ Idle /\ cycle.games # <<>>
  /\ \/ \E v \in {w \in Event : EsportOf[w] = Head(cycle.games)},
            n \in 1..MaxPages :
          /\ cycle' = [cycle EXCEPT !.games = Tail(@)]
          /\ Begin("detail", <<EsportOf[v]>>, v, n)
     \/ cycle' = [cycle EXCEPT !.games = <<>>, !.ok = FALSE] /\ UNCHANGED op
  /\ UNCHANGED <<config, now, up, stopping, store, transport, ready, acked,
                 late>>

CycleOver_WhenOk == cycle.games = <<>> /\ cycle.ok

CycleOver == cycle.games = <<>>

\* A cycle closes the provider; the loop keeps it until it ends itself.
EndCycle ==
  /\ up /\ cycle.on /\ Idle /\ CycleOver
  /\ cycle' = [cycle EXCEPT !.on = FALSE,
                            !.turn = (cycle.turn % Len(Batches)) + 1]
  /\ stopping' = (stopping \/ mode = "cycle" \/ ~ cycle.ok)
  /\ IF stopping' THEN Close ELSE UNCHANGED transport
  /\ UNCHANGED <<config, now, up, store, ready, op, acked, late>>

\* Chrome closes or discards the tab behind the collector's back.
DropTab ==
  /\ up /\ handle = "current"
  /\ handle' = "lost"
  /\ op' = IF Idle THEN op ELSE [op EXCEPT !.dropped = TRUE]
  /\ UNCHANGED <<config, now, up, stopping, store, ctx, ready, cycle,
                 acked, late>>

Driver ==
  \/ Start \/ Crash \/ ScheduleList \/ ScheduleDetail \/ Timeout \/ Stop
  \/ Exit \/ StartCycle \/ CycleDetail \/ EndCycle \/ DropTab

Next == OpStep \/ Driver

Spec == Init /\ [][Next]_vars

\* Every await ends: a step's timeout is one of its failures.  A cycle and the
\* exit go on by themselves.
FairSpec ==
  /\ Spec
  /\ WF_vars(OpStep) /\ WF_vars(Exit) /\ WF_vars(CycleDetail)
  /\ WF_vars(EndCycle)

----------------------------------------------------------------------------
(* Properties.                                                             *)

\* What an operation returned as published is stored: it is in the state file
\* or the outbox, and after any crash the restored store has it.
AcknowledgedSurvives ==
  \A k \in Key :
    /\ acked[k] <= disk[k]
    /\ loaded /\ ~ remote => acked[k] <= mem[k]

\* "Late/partial results never reach a store" (scheduled-operation.ts:10): of
\* an operation that was aborted or failed before its commit point no capture
\* is ever found in the journal, the files, the outbox or the maps.
LateNeverStored ==
  \A k \in Key : {mem[k], disk[k], journal[k]} \cap late = {}

\* History keeps up with state: whatever is read, or restored after a crash,
\* has its batch in the journal, so the next change is told from it.
JournalBeforeState ==
  \A k \in Key :
    \/ remote /\ provider = "bet365" /\ k \in Esport
    \/ mem[k] <= journal[k] /\ (remote \/ disk[k] <= journal[k])

\* The agenda launches details only where the collector still has the context
\* its listing left for them, through every failure, timeout and replaced tab.
ReadyMeansContext ==
  up /\ ready /\ ~ stopping /\ provider \in Chrome \cup {"superbet"} =>
    \A e \in Esport : ctx[e] > 0

\* A tab that was lost before an operation began is never driven by it: a
\* list replaces it, a Betano detail finds its context gone with it.
LostTabIsNotUsed ==
  At("capture") /\ provider \in Chrome /\ handle # "current" => op.dropped

\* A process that is asked to end does.
StopEnds == stopping ~> ~ up
=============================================================================
