-------------------------- MODULE ExtensionCollector --------------------------
(***************************************************************************)
(* ExtensionCollector: the Chrome extension's service worker               *)
(*   apps/odds-collector-extension/src/background.ts                       *)
(*   apps/odds-collector-extension/src/publisher.ts, outbox.ts             *)
(*                                                                         *)
(* Alarms start a tick, which collects every provider at once when the     *)
(* collector is enabled; popups ask for a preview, a collection that must  *)
(* keep nothing, or switch the collector on and off.  A collector queues   *)
(* what it captured in the IndexedDB outbox and joins the one flush that   *)
(* posts it; while the preview flag is up, queueing and flushing do        *)
(* nothing.  Every await is a point where the other handlers run, and the  *)
(* browser may end the worker at any moment: the outbox and the switch     *)
(* survive, the flags do not.                                              *)
(*                                                                         *)
(* When a provider is due is left out: a tick may collect any of them.     *)
(***************************************************************************)
EXTENDS Naturals, Sequences, SequencesExt

CONSTANTS
  Provider,
  Publication,    \* captures, each queued at most once
  Asker,          \* preview messages that may be in flight together
  Switch,         \* set-enabled messages that may be in flight together
  None,
  MaxOutbox,      \* the outbox refuses one more (1000 in the code)
  MaxRounds,      \* items one flush posts at most (20 in the code)
  MaxFaults       \* bound: failed posts and ended workers

ASSUME ExtensionAssumption ==
  /\ None \notin Publication \cup Asker \cup {"tick"}
  /\ "tick" \notin Asker /\ "answered" \notin Switch
  /\ {MaxOutbox, MaxRounds} \subseteq Nat \ {0} /\ MaxFaults \in Nat

VARIABLES
  enabled,      \* storage: collectorEnabled
  outbox,       \* IndexedDB, by sequence
  tick,         \* where tick() is; it is `ticking` unless "off"
  previewing,
  preview,      \* the publisher's preview flag
  asker,        \* asker[a]: where the handler of a preview message is
  switch,       \* switch[s]: where the handler of a set-enabled message is
  job,          \* job[o][p]: where the collection of p for o is
  detailed,     \* detailed[o]: whose detail o has gone on to
  flushing,     \* the flush under way: its stage, item and round
  maker,        \* history: for whom a queued publication was captured
  stored,       \* what the server stored
  quiet,        \* history: the disables no enable came after, and "answered"
                \* once one of them was answered with ok
  faults

vars == <<enabled, outbox, tick, previewing, preview, asker, switch, job,
          detailed, flushing, maker, stored, quiet, faults>>

Owner == {"tick"} \cup Asker
NoFlush == [stage |-> "no", item |-> None, round |-> 0]
NoJobs == [p \in Provider |-> "no"]
Items(s) == {s[n] : n \in 1..Len(s)}

FreshWorker ==
  /\ tick' = "off" /\ previewing' = FALSE /\ preview' = FALSE
  /\ asker' = [a \in Asker |-> "idle"]
  /\ switch' = [s \in Switch |-> "idle"]
  /\ job' = [o \in Owner |-> NoJobs] /\ detailed' = [o \in Owner |-> {}]
  /\ flushing' = NoFlush

Init ==
  /\ enabled = FALSE /\ outbox = <<>>
  /\ tick = "off" /\ previewing = FALSE /\ preview = FALSE
  /\ asker = [a \in Asker |-> "idle"]
  /\ switch = [s \in Switch |-> "idle"]
  /\ job = [o \in Owner |-> NoJobs] /\ detailed = [o \in Owner |-> {}]
  /\ flushing = NoFlush
  /\ maker = [p \in Publication |-> None]
  /\ stored = {} /\ quiet = {} /\ faults = 0

Fault == faults < MaxFaults /\ faults' = faults + 1

-----------------------------------------------------------------------------
(* publisher.ts: one flush at a time, which its callers join.              *)

StartFlush == IF flushing.stage = "no" THEN [NoFlush EXCEPT !.stage = "looking"]
              ELSE flushing

AfterFlush_KeepsRejected(ok) ==
  IF ok THEN NoFlush ELSE [NoFlush EXCEPT !.stage = "rejected"]

AfterFlush(ok) == NoFlush

\* The promise settles: everyone that awaits it goes on.
EndFlush(ok) ==
  /\ flushing' = AfterFlush(ok)
  /\ tick' = IF tick = "flushing" THEN "collecting" ELSE tick
  /\ job' = [o \in Owner |-> [p \in Provider |->
       IF job[o][p] = "flushing" THEN "done"
       ELSE IF o = "tick" /\ tick = "flushing" THEN "collecting"
       ELSE job[o][p]]]

\* oldest()
Look ==
  /\ flushing.stage = "looking"
  /\ IF outbox = <<>> \/ flushing.round = MaxRounds
     THEN EndFlush(TRUE)
     ELSE /\ flushing' = [flushing EXCEPT !.stage = "posting", !.item = Head(outbox),
                                          !.round = @ + 1]
          /\ UNCHANGED <<tick, job>>
  /\ UNCHANGED <<enabled, outbox, previewing, preview, asker, switch, maker,
                 stored, quiet, faults, detailed>>

\* The server stores it and says so.
PostSucceeds ==
  /\ flushing.stage = "posting"
  /\ stored' = stored \cup {flushing.item}
  /\ flushing' = [flushing EXCEPT !.stage = "removing"]
  /\ UNCHANGED <<enabled, outbox, tick, previewing, preview, asker, switch,
                 job, maker, quiet, faults, detailed>>

OutboxAfterFailure_Removed == Tail(outbox)
OutboxAfterFailure == outbox

\* An error answer, a timeout, a lost connection: it may be stored all the same.
PostFails ==
  /\ flushing.stage = "posting"
  /\ Fault
  /\ stored' \in {stored, stored \cup {flushing.item}}
  /\ outbox' = OutboxAfterFailure
  /\ EndFlush(FALSE)
  /\ UNCHANGED <<enabled, previewing, preview, asker, switch, maker, quiet,
                 detailed>>

\* remove(sequence): a sequence number is one item's alone.
Without(c) == RemoveAt(outbox, CHOOSE n \in 1..Len(outbox) : outbox[n] = c)

RemoveItem ==
  /\ flushing.stage = "removing"
  /\ outbox' = Without(flushing.item)
  /\ flushing' = [flushing EXCEPT !.stage = "looking"]
  /\ UNCHANGED <<enabled, tick, previewing, preview, asker, switch, job, maker,
                 stored, quiet, faults, detailed>>

-----------------------------------------------------------------------------
(* The collection of a provider, for a tick or for a preview.              *)

Unused == {c \in Publication : maker[c] = None}

Full == Len(outbox) >= MaxOutbox

\* queue(): nothing while the flag is up; else one more item, or a full outbox.
Queue(o, p) ==
  /\ job[o][p] = "collecting"
  /\ IF preview
     THEN job' = [job EXCEPT ![o][p] = "queued"] /\ UNCHANGED <<outbox, maker>>
     ELSE IF Full
     THEN job' = [job EXCEPT ![o][p] = "done"] /\ UNCHANGED <<outbox, maker>>
     ELSE /\ Unused # {}
          /\ LET c == CHOOSE c \in Unused : TRUE
             IN maker' = [maker EXCEPT ![c] = o] /\ outbox' = Append(outbox, c)
          /\ job' = [job EXCEPT ![o][p] = "queued"]
  /\ UNCHANGED <<enabled, tick, previewing, preview, asker, switch, flushing,
                 stored, quiet, faults, detailed>>

\* flush(): join the one under way or start it; the flag makes it a no-op.
Flush(o, p) ==
  /\ job[o][p] = "queued"
  /\ IF preview
     THEN job' = [job EXCEPT ![o][p] = "done"] /\ UNCHANGED flushing
     ELSE job' = [job EXCEPT ![o][p] = "flushing"] /\ flushing' = StartFlush
  /\ UNCHANGED <<enabled, outbox, tick, previewing, preview, asker, switch,
                 maker, stored, quiet, faults, detailed>>

\* The capture fails, or there is nothing to collect.
Collected(o, p) ==
  /\ job[o][p] = "collecting"
  /\ job' = [job EXCEPT ![o][p] = "done"]
  /\ UNCHANGED <<enabled, outbox, tick, previewing, preview, asker, switch,
                 flushing, maker, stored, quiet, faults, detailed>>

\* A listing is followed by the detail of at most one event.
GoOnToDetail(o, p) ==
  /\ job[o][p] = "done" /\ p \notin detailed[o]
  /\ job' = [job EXCEPT ![o][p] = "collecting"]
  /\ detailed' = [detailed EXCEPT ![o] = @ \cup {p}]
  /\ UNCHANGED <<enabled, outbox, tick, previewing, preview, asker, switch,
                 flushing, maker, stored, quiet, faults>>

AllDone(o) == \A p \in Provider : job[o][p] = "done"

-----------------------------------------------------------------------------
(* tick()                                                                  *)

MayTick == tick = "off" /\ ~ previewing

\* The alarm, the start of the worker, or a switch: up to the build check.
StartTick ==
  /\ MayTick
  /\ tick' = "checking"
  /\ UNCHANGED <<enabled, outbox, previewing, preview, asker, switch, job,
                 flushing, maker, stored, quiet, faults, detailed>>

\* The build did not change; read collectorEnabled, then flush what is pending.
ReadActivation ==
  /\ tick = "checking"
  /\ IF enabled
     THEN IF preview
          THEN /\ tick' = "collecting"
               /\ job' = [job EXCEPT !["tick"] = [p \in Provider |-> "collecting"]]
               /\ UNCHANGED flushing
          ELSE /\ tick' = "flushing" /\ flushing' = StartFlush
               /\ UNCHANGED job
     ELSE tick' = "off" /\ UNCHANGED <<job, flushing>>
  /\ UNCHANGED <<enabled, outbox, previewing, preview, asker, switch, maker,
                 stored, quiet, faults, detailed>>

\* Every provider settled: the schedule is written.
EndTick ==
  /\ tick = "collecting" /\ AllDone("tick")
  /\ tick' = "off"
  /\ job' = [job EXCEPT !["tick"] = NoJobs]
  /\ detailed' = [detailed EXCEPT !["tick"] = {}]
  /\ UNCHANGED <<enabled, outbox, previewing, preview, asker, switch, flushing,
                 maker, stored, quiet, faults>>

\* The browser ends the worker, or a new build reloads the extension.
EndWorker ==
  /\ Fault
  /\ FreshWorker
  /\ quiet' = quiet \ Switch
  /\ UNCHANGED <<enabled, outbox, maker, stored>>

-----------------------------------------------------------------------------
(* The messages.                                                           *)

\* "preview": refused at once while busy, else collectorEnabled is asked for.
Ask(a) ==
  /\ asker[a] = "idle"
  /\ ~ previewing /\ tick = "off"
  /\ asker' = [asker EXCEPT ![a] = "asking"]
  /\ UNCHANGED <<enabled, outbox, tick, previewing, preview, switch, job,
                 flushing, maker, stored, quiet, faults, detailed>>

\* storage.get reads; refused as "active", or its callback is due.
Read(a) ==
  /\ asker[a] = "asking"
  /\ asker' = [asker EXCEPT ![a] = IF enabled THEN "idle" ELSE "granted"]
  /\ UNCHANGED <<enabled, outbox, tick, previewing, preview, switch, job,
                 flushing, maker, stored, quiet, faults, detailed>>

\* runPreview(): both flags, every provider.
RunPreview(a) ==
  /\ asker[a] = "granted"
  /\ asker' = [asker EXCEPT ![a] = "running"]
  /\ previewing' = TRUE /\ preview' = TRUE
  /\ job' = [job EXCEPT ![a] = [p \in Provider |-> "collecting"]]
  /\ UNCHANGED <<enabled, outbox, tick, switch, flushing, maker, stored, quiet,
                 faults, detailed>>

\* The finally block: both flags, whoever else may be running.
EndPreview(a) ==
  /\ asker[a] = "running" /\ AllDone(a)
  /\ asker' = [asker EXCEPT ![a] = "idle"]
  /\ previewing' = FALSE /\ preview' = FALSE
  /\ job' = [job EXCEPT ![a] = NoJobs]
  /\ detailed' = [detailed EXCEPT ![a] = {}]
  /\ UNCHANGED <<enabled, outbox, tick, switch, flushing, maker, stored, quiet,
                 faults>>

\* "set-enabled" true: refused while previewing, else config() is awaited.
AskEnable(s) ==
  /\ switch[s] = "idle" /\ ~ previewing
  /\ switch' = [switch EXCEPT ![s] = "enabling"]
  /\ UNCHANGED <<enabled, outbox, tick, previewing, preview, asker, job,
                 flushing, maker, stored, quiet, faults, detailed>>

\* Stored; tick() is called and returns at once when it may not run.
Enable(s) ==
  /\ switch[s] = "enabling"
  /\ switch' = [switch EXCEPT ![s] = "idle"]
  /\ enabled' = TRUE /\ quiet' = {}
  /\ tick' = IF MayTick THEN "checking" ELSE tick
  /\ UNCHANGED <<outbox, previewing, preview, asker, job, flushing, maker,
                 stored, faults, detailed>>

\* "set-enabled" false: stored, then a tick under way is waited for.
Disable(s) ==
  /\ switch[s] = "idle" /\ ~ previewing
  /\ switch' = [switch EXCEPT ![s] = "draining"]
  /\ enabled' = FALSE
  /\ quiet' = quiet \cup {s}
  /\ UNCHANGED <<outbox, tick, previewing, preview, asker, job, flushing,
                 maker, stored, faults, detailed>>

Drained_AtOnce == TRUE
Drained == tick = "off"

\* The tabs are closed next; a tick that does not end fails the message.
Drain(s) ==
  /\ switch[s] = "draining"
  /\ switch' = [switch EXCEPT ![s] = IF Drained THEN "closing" ELSE "idle"]
  /\ quiet' = IF Drained THEN quiet ELSE quiet \ {s}
  /\ UNCHANGED <<enabled, outbox, tick, previewing, preview, asker, job,
                 flushing, maker, stored, faults, detailed>>

AnswerDisabled(s) ==
  /\ switch[s] = "closing"
  /\ switch' = [switch EXCEPT ![s] = "idle"]
  /\ quiet' = IF s \in quiet THEN (quiet \ {s}) \cup {"answered"} ELSE quiet
  /\ UNCHANGED <<enabled, outbox, tick, previewing, preview, asker, job,
                 flushing, maker, stored, faults, detailed>>

-----------------------------------------------------------------------------

FlushStep == Look \/ PostSucceeds \/ PostFails \/ RemoveItem
JobStep(o, p) == Queue(o, p) \/ Flush(o, p)
PreviewStep(a) == Ask(a) \/ Read(a) \/ RunPreview(a) \/ EndPreview(a)
SwitchStep(s) ==
  AskEnable(s) \/ Enable(s) \/ Disable(s) \/ Drain(s) \/ AnswerDisabled(s)

Next ==
  \/ FlushStep
  \/ StartTick \/ ReadActivation \/ EndTick \/ EndWorker
  \/ \E o \in Owner, p \in Provider : 
       JobStep(o, p) \/ Collected(o, p) \/ GoOnToDetail(o, p)
  \/ \E a \in Asker : PreviewStep(a)
  \/ \E s \in Switch : SwitchStep(s)

Spec == Init /\ [][Next]_vars

\* The alarm wakes the worker every 30 s; captures and posts have timeouts, and
\* a collection is one listing and at most one detail.
Fairness ==
  /\ WF_vars(StartTick) /\ WF_vars(ReadActivation)
  /\ WF_vars(Look) /\ WF_vars(PostSucceeds) /\ WF_vars(RemoveItem)
  /\ WF_vars(EndTick)
  /\ \A o \in Owner, p \in Provider : WF_vars(JobStep(o, p) \/ Collected(o, p))
  /\ \A a \in Asker : WF_vars(EndPreview(a))

FairSpec == Spec /\ Fairness

-----------------------------------------------------------------------------
(* Properties.                                                             *)

Queued == {c \in Publication : maker[c] # None}

\* README.md:18: an item leaves the outbox only after a successful answer, and a
\* failure keeps the capture: whatever was queued is pending or stored, whenever
\* the worker is ended.
NothingIsLost == Queued \subseteq Items(outbox) \cup stored

\* README.md:31: "Testar sem enviar ... nao grava na outbox nem chama o Railway".
\* What a preview captures is never queued, so never posted either.
PreviewKeepsNothing == \A c \in Publication : maker[c] \notin Asker

\* Once a disable was answered with ok, and until the next enable, no tick
\* collects or posts, though alarms go on and ticks were under way.
QuietWhenDisabled ==
  "answered" \in quiet =>
    /\ tick \in {"off", "checking"}
    /\ flushing.stage = "no"
    /\ job["tick"] = NoJobs

\* While the collector stays enabled what is pending is stored in the end,
\* behind failed posts and ended workers, and whatever previews come between.
PendingIsStored ==
  \A c \in Publication :
    c \in Items(outbox) ~> c \in stored \/ ~ enabled
=============================================================================
