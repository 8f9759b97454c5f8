---------------------- MODULE ExtensionCollectorProofs ----------------------
(***************************************************************************)
(* For any providers, captures and messages: what the extension queued is  *)
(* never lost; and, as long as no two popups ask for a preview at once, a  *)
(* preview keeps nothing and a collector that answered a disable is quiet. *)
(*                                                                         *)
(* The argument.  The item a flush works on is the oldest of the outbox    *)
(* until it is removed, and by then it is stored (FlushInv); no capture is *)
(* there twice (OutboxInv).  A tick has jobs only while it collects, and a *)
(* flush is always somebody's (TickInv); of a lone preview the flag is up  *)
(* while it runs, so it is never the preview's (PreviewInv).  Hence, when  *)
(* a disable finds no tick, it finds no flush either, and the switch it    *)
(* stored keeps the next tick from starting one (QuietInv).                *)
(***************************************************************************)
EXTENDS ExtensionCollector, SequenceTheorems, TLAPS

JobStage == {"no", "collecting", "queued", "flushing", "done"}

TypeInv ==
  /\ tick \in {"off", "checking", "flushing", "collecting"}
  /\ asker \in [Asker -> {"idle", "asking", "granted", "running"}]
  /\ switch \in [Switch -> {"idle", "enabling", "draining", "closing"}]
  /\ job \in [Owner -> [Provider -> JobStage]]
  /\ detailed \in [Owner -> SUBSET Provider]
  /\ DOMAIN flushing = {"stage", "item", "round"}
  /\ flushing.stage \in {"no", "looking", "posting", "removing"}
  /\ maker \in [Publication -> Owner \cup {None}]
  /\ quiet \subseteq Switch \cup {"answered"}

OutboxInv ==
  /\ outbox \in Seq(Publication)
  /\ \A m, n \in 1..Len(outbox) : outbox[m] = outbox[n] => m = n
  /\ \A n \in 1..Len(outbox) : maker[outbox[n]] # None

FlushInv ==
  /\ flushing.stage \in {"posting", "removing"} =>
       outbox # <<>> /\ flushing.item = Head(outbox)
  /\ flushing.stage = "removing" => flushing.item \in stored

QueueInv == TypeInv /\ OutboxInv /\ FlushInv /\ NothingIsLost

-----------------------------------------------------------------------------
(* The outbox.                                                             *)

\* What follows the head.
LEMMA Behind ==
  ASSUME NEW S, NEW s \in Seq(S), s # <<>>
  PROVE /\ Len(s) \in Nat \ {0} /\ Head(s) = s[1]
        /\ Tail(s) \in Seq(S) /\ Len(Tail(s)) = Len(s) - 1
        /\ \A i \in 1..(Len(s) - 1) : Tail(s)[i] = s[i + 1]
  BY HeadTailProperties, EmptySeq

\* The oldest item is removed alone.
LEMMA RemoveHead ==
  ASSUME OutboxInv, outbox # <<>>
  PROVE Without(Head(outbox)) = Tail(outbox)
<1>1. outbox \in Seq(Publication) /\ Len(outbox) \in Nat \ {0} /\ Head(outbox) = outbox[1]
  BY Behind DEF OutboxInv
<1>2. (CHOOSE n \in 1..Len(outbox) : outbox[n] = Head(outbox)) = 1
  BY <1>1 DEF OutboxInv
<1>3. SubSeq(outbox, 1, 0) = <<>>
  BY SubSeqEmpty
<1>4. SubSeq(outbox, 2, Len(outbox)) = Tail(outbox) /\ Tail(outbox) \in Seq(Publication)
  BY <1>1, TailIsSubSeq, Behind
<1>5. Without(Head(outbox)) = RemoveAt(outbox, 1)
  BY <1>2, Zenon DEF Without
<1>6. RemoveAt(outbox, 1) = SubSeq(outbox, 1, 0) \o SubSeq(outbox, 2, Len(outbox))
  BY DEF RemoveAt
<1> QED
  BY <1>3, <1>4, <1>5, <1>6, ConcatEmptySeq

\* A new capture joins behind what is there.
LEMMA QueueLast ==
  ASSUME OutboxInv, NEW c \in Publication, maker[c] = None
  PROVE /\ Append(outbox, c) \in Seq(Publication)
        /\ Items(Append(outbox, c)) = Items(outbox) \cup {c}
        /\ \A m, n \in 1..Len(Append(outbox, c)) :
             Append(outbox, c)[m] = Append(outbox, c)[n] => m = n
        /\ outbox # <<>> =>
             Append(outbox, c) # <<>> /\ Head(Append(outbox, c)) = Head(outbox)
<1> DEFINE s == Append(outbox, c)
<1>1. /\ s \in Seq(Publication) /\ Len(outbox) \in Nat /\ Len(s) = Len(outbox) + 1
      /\ \A n \in 1..Len(outbox) : s[n] = outbox[n]
      /\ s[Len(outbox) + 1] = c
  BY AppendProperties, LenProperties DEF OutboxInv
<1>2. \A n \in 1..Len(outbox) : outbox[n] # c
  BY DEF OutboxInv
<1>3. \A m, n \in 1..Len(s) : s[m] = s[n] => m = n
  BY <1>1, <1>2 DEF OutboxInv
<1>4. Items(s) = Items(outbox) \cup {c}
  <2>1. \A n \in 1..Len(s) : s[n] \in Items(outbox) \cup {c}
    BY <1>1 DEF Items
  <2>2. \A n \in 1..Len(outbox) : outbox[n] \in Items(s)
    BY <1>1 DEF Items
  <2>3. c \in Items(s)
    BY <1>1 DEF Items
  <2> QED
    BY <2>1, <2>2, <2>3 DEF Items
<1>5. outbox # <<>> => s # <<>> /\ Head(s) = Head(outbox)
  BY HeadTailAppend, AppendProperties DEF OutboxInv
<1> QED
  BY <1>1, <1>3, <1>4, <1>5

-----------------------------------------------------------------------------
(* Types.                                                                  *)

LEMMA EndFlushTypes ==
  ASSUME TypeInv, NEW ok \in BOOLEAN, EndFlush(ok)
  PROVE /\ DOMAIN flushing' = {"stage", "item", "round"} /\ flushing'.stage = "no"
        /\ tick' \in {"off", "checking", "flushing", "collecting"}
        /\ job' \in [Owner -> [Provider -> JobStage]]
  BY DEF EndFlush, AfterFlush, NoFlush, TypeInv, JobStage

LEMMA FlushTypes ==
  ASSUME TypeInv, FlushStep
  PROVE TypeInv'
<1>1. CASE Look
  <2>1. CASE EndFlush(TRUE)
    BY <1>1, <2>1, EndFlushTypes DEF Look, TypeInv
  <2>2. CASE ~ EndFlush(TRUE)
    BY <1>1, <2>2 DEF Look, TypeInv
  <2> QED
    BY <2>1, <2>2
<1>2. CASE PostSucceeds
  BY <1>2 DEF PostSucceeds, TypeInv
<1>3. CASE PostFails
  BY <1>3, EndFlushTypes DEF PostFails, TypeInv
<1>4. CASE RemoveItem
  BY <1>4 DEF RemoveItem, TypeInv
<1> QED
  BY <1>1, <1>2, <1>3, <1>4 DEF FlushStep

LEMMA TickTypes ==
  ASSUME TypeInv, StartTick \/ ReadActivation \/ EndTick \/ EndWorker
  PROVE TypeInv'
<1>0. NoJobs \in [Provider -> JobStage]
  BY DEF NoJobs, JobStage
<1>1. CASE StartTick
  BY <1>1 DEF StartTick, TypeInv
<1>2. CASE ReadActivation
  <2>1. [p \in Provider |-> "collecting"] \in [Provider -> JobStage]
    BY DEF JobStage
  <2> QED
    BY <1>2, <2>1 DEF ReadActivation, StartFlush, NoFlush, TypeInv
<1>3. CASE EndTick
  BY <1>0, <1>3 DEF EndTick, TypeInv
<1>4. CASE EndWorker
  BY <1>0, <1>4 DEF EndWorker, FreshWorker, NoFlush, TypeInv
<1> QED
  BY <1>1, <1>2, <1>3, <1>4

LEMMA JobTypes ==
  ASSUME TypeInv, NEW o \in Owner, NEW p \in Provider,
         JobStep(o, p) \/ Collected(o, p) \/ GoOnToDetail(o, p)
  PROVE TypeInv'
<1>1. ASSUME NEW s \in JobStage, job' = [job EXCEPT ![o][p] = s]
      PROVE job' \in [Owner -> [Provider -> JobStage]]
  BY <1>1 DEF TypeInv
<1>2. CASE Queue(o, p)
  <2>1. \A c : [maker EXCEPT ![c] = o] \in [Publication -> Owner \cup {None}]
    BY DEF TypeInv
  <2>2. job' \in [Owner -> [Provider -> JobStage]]
    <3>1. \E s \in {"queued", "done"} : job' = [job EXCEPT ![o][p] = s]
      BY <1>2 DEF Queue
    <3> QED
      BY <1>1, <3>1 DEF JobStage
  <2>3. maker' \in [Publication -> Owner \cup {None}]
    <3>1. maker' = maker \/ \E c : maker' = [maker EXCEPT ![c] = o]
      BY <1>2 DEF Queue
    <3> QED
      BY <2>1, <3>1 DEF TypeInv
  <2> QED
    BY <1>2, <2>2, <2>3 DEF Queue, TypeInv
<1>3. CASE Flush(o, p)
  BY <1>1, <1>3 DEF Flush, StartFlush, NoFlush, JobStage, TypeInv
<1>4. CASE Collected(o, p)
  BY <1>1, <1>4 DEF Collected, JobStage, TypeInv
<1>5. CASE GoOnToDetail(o, p)
  BY <1>1, <1>5 DEF GoOnToDetail, JobStage, TypeInv
<1> QED
  BY <1>2, <1>3, <1>4, <1>5 DEF JobStep

LEMMA MessageTypes ==
  ASSUME TypeInv,
         (\E a \in Asker : PreviewStep(a)) \/ (\E s \in Switch : SwitchStep(s))
  PROVE TypeInv'
<1>1. ASSUME NEW a \in Asker, PreviewStep(a) PROVE TypeInv'
  <2>0. /\ a \in Owner /\ NoJobs \in [Provider -> JobStage]
        /\ [p \in Provider |-> "collecting"] \in [Provider -> JobStage]
    BY DEF Owner, NoJobs, JobStage
  <2>1. CASE Ask(a)
    BY <2>1 DEF Ask, TypeInv
  <2>2. CASE Read(a)
    BY <2>2 DEF Read, TypeInv
  <2>3. CASE RunPreview(a)
    BY <2>0, <2>3 DEF RunPreview, TypeInv
  <2>4. CASE EndPreview(a)
    BY <2>0, <2>4 DEF EndPreview, TypeInv
  <2> QED
    BY <1>1, <2>1, <2>2, <2>3, <2>4 DEF PreviewStep
<1>2. ASSUME NEW s \in Switch, SwitchStep(s) PROVE TypeInv'
  <2>1. CASE AskEnable(s)
    BY <2>1 DEF AskEnable, TypeInv
  <2>2. CASE Enable(s)
    BY <2>2 DEF Enable, TypeInv
  <2>3. CASE Disable(s)
    BY <2>3 DEF Disable, TypeInv
  <2>4. CASE Drain(s)
    BY <2>4 DEF Drain, TypeInv
  <2>5. CASE AnswerDisabled(s)
    BY <2>5 DEF AnswerDisabled, TypeInv
  <2> QED
    BY <1>2, <2>1, <2>2, <2>3, <2>4, <2>5 DEF SwitchStep
<1> QED
  BY <1>1, <1>2

LEMMA TypeStep == TypeInv /\ [Next]_vars => TypeInv'
<1> SUFFICES ASSUME TypeInv, [Next]_vars PROVE TypeInv'
  OBVIOUS
<1>1. CASE UNCHANGED vars
  BY <1>1 DEF vars, TypeInv
<1>2. CASE Next
  BY <1>2, FlushTypes, TickTypes, JobTypes, MessageTypes DEF Next
<1> QED
  BY <1>1, <1>2

-----------------------------------------------------------------------------
(* Nothing is lost.                                                        *)

\* Most steps neither queue, nor store, nor move a flush on with an item.
LEMMA QueueUntouched ==
  ASSUME QueueInv, outbox' = outbox, maker' = maker, stored' = stored,
         flushing' = flushing \/ flushing'.stage \in {"no", "looking"}
  PROVE OutboxInv' /\ FlushInv' /\ NothingIsLost'
<1>1. OutboxInv'
  BY DEF QueueInv, OutboxInv
<1>2. FlushInv'
  BY DEF QueueInv, FlushInv
<1>3. NothingIsLost'
  BY DEF QueueInv, NothingIsLost, Queued, Items
<1> QED
  BY <1>1, <1>2, <1>3

LEMMA LookKeeps ==
  ASSUME QueueInv, Look
  PROVE OutboxInv' /\ FlushInv' /\ NothingIsLost'
<1>0. outbox' = outbox /\ maker' = maker /\ stored' = stored
  BY DEF Look
<1>1. CASE outbox = <<>> \/ flushing.round = MaxRounds
  <2>1. flushing'.stage = "no"
    BY <1>1 DEF Look, EndFlush, AfterFlush, NoFlush
  <2> QED
    BY <1>0, <2>1, QueueUntouched
<1>2. CASE ~ (outbox = <<>> \/ flushing.round = MaxRounds)
  <2>1. /\ flushing' = [flushing EXCEPT !.stage = "posting", !.item = Head(outbox),
                                        !.round = @ + 1]
        /\ DOMAIN flushing = {"stage", "item", "round"}
    BY <1>2 DEF Look, QueueInv, TypeInv
  <2>2. flushing'.stage = "posting" /\ flushing'.item = Head(outbox)
    BY <2>1
  <2>3. FlushInv'
    BY <1>0, <1>2, <2>2 DEF FlushInv
  <2> QED
    BY <1>0, <2>3 DEF QueueInv, OutboxInv, NothingIsLost, Queued, Items
<1> QED
  BY <1>1, <1>2

LEMMA PostKeeps ==
  ASSUME QueueInv, PostSucceeds \/ PostFails
  PROVE OutboxInv' /\ FlushInv' /\ NothingIsLost'
<1>1. outbox' = outbox /\ maker' = maker /\ stored \subseteq stored'
  BY DEF PostSucceeds, PostFails, OutboxAfterFailure
<1>2. OutboxInv' /\ NothingIsLost'
  BY <1>1 DEF QueueInv, OutboxInv, NothingIsLost, Queued, Items
<1>3. CASE PostSucceeds
  <2>1. /\ flushing'.stage = "removing" /\ flushing'.item = flushing.item
        /\ flushing.item \in stored'
    BY <1>3 DEF PostSucceeds, QueueInv, TypeInv
  <2> QED
    BY <1>1, <1>2, <1>3, <2>1 DEF PostSucceeds, QueueInv, FlushInv
<1>4. CASE PostFails
  BY <1>2, <1>4 DEF PostFails, EndFlush, AfterFlush, NoFlush, FlushInv
<1> QED
  BY <1>3, <1>4

LEMMA RemoveKeeps ==
  ASSUME QueueInv, RemoveItem
  PROVE OutboxInv' /\ FlushInv' /\ NothingIsLost'
<1>1. /\ outbox # <<>> /\ flushing.item = Head(outbox) /\ flushing.item \in stored
      /\ outbox' = Without(flushing.item) /\ maker' = maker /\ stored' = stored
      /\ flushing'.stage = "looking"
  BY DEF RemoveItem, QueueInv, FlushInv, TypeInv
<1>2. outbox' = Tail(outbox)
  BY <1>1, RemoveHead DEF QueueInv
<1>3. /\ Len(outbox) \in Nat \ {0} /\ Head(outbox) = outbox[1]
      /\ outbox' \in Seq(Publication) /\ Len(outbox') = Len(outbox) - 1
      /\ \A n \in 1..(Len(outbox) - 1) : outbox'[n] = outbox[n + 1]
  BY <1>1, <1>2, Behind DEF QueueInv, OutboxInv
<1>4. OutboxInv'
  <2>1. \A m, n \in 1..Len(outbox) : outbox[m] = outbox[n] => m = n
    BY DEF QueueInv, OutboxInv
  <2>2. \A n \in 1..Len(outbox) : maker[outbox[n]] # None
    BY DEF QueueInv, OutboxInv
  <2>3. \A n \in 1..Len(outbox') : n \in Nat /\ n + 1 \in 1..Len(outbox)
                                  /\ outbox'[n] = outbox[n + 1]
    BY <1>3
  <2>4. \A m, n \in 1..Len(outbox') : outbox'[m] = outbox'[n] => m = n
    BY <2>1, <2>3
  <2>5. \A n \in 1..Len(outbox') : maker'[outbox'[n]] # None
    BY <1>1, <2>2, <2>3
  <2> QED
    BY <1>3, <2>4, <2>5 DEF OutboxInv
<1>5. Items(outbox) \subseteq Items(outbox') \cup {Head(outbox)}
  <2>1. ASSUME NEW n \in 1..Len(outbox) PROVE outbox[n] \in Items(outbox') \cup {Head(outbox)}
    <3>1. CASE n = 1
      BY <1>3, <3>1
    <3>2. CASE n # 1
      <4>1. n - 1 \in 1..(Len(outbox) - 1) /\ (n - 1) + 1 = n
        BY <1>3, <3>2
      <4> QED
        BY <1>3, <4>1 DEF Items
    <3> QED
      BY <3>1, <3>2
  <2> QED
    BY <2>1 DEF Items
<1>6. NothingIsLost'
  BY <1>1, <1>5 DEF QueueInv, NothingIsLost, Queued
<1>7. FlushInv'
  BY <1>1 DEF FlushInv
<1> QED
  BY <1>4, <1>6, <1>7

LEMMA QueueKeeps ==
  ASSUME QueueInv, NEW o \in Owner, NEW p \in Provider, Queue(o, p)
  PROVE OutboxInv' /\ FlushInv' /\ NothingIsLost'
<1>0. stored' = stored /\ flushing' = flushing
  BY DEF Queue
<1>1. CASE outbox' = outbox /\ maker' = maker
  BY <1>0, <1>1, QueueUntouched
<1>2. CASE ~ (outbox' = outbox /\ maker' = maker)
  <2>1. PICK c \in Unused :
          maker' = [maker EXCEPT ![c] = o] /\ outbox' = Append(outbox, c)
    BY <1>2, Zenon DEF Queue
  <2>2. c \in Publication /\ maker[c] = None /\ o # None
    BY ExtensionAssumption DEF Unused, Owner
  <2>3. /\ maker'[c] = o
        /\ \A d \in Publication : d # c => maker'[d] = maker[d]
    BY <2>1, <2>2 DEF QueueInv, TypeInv
  <2>4. /\ outbox' \in Seq(Publication)
        /\ Items(outbox') = Items(outbox) \cup {c}
        /\ \A m, n \in 1..Len(outbox') : outbox'[m] = outbox'[n] => m = n
        /\ outbox # <<>> => outbox' # <<>> /\ Head(outbox') = Head(outbox)
    BY <2>1, <2>2, QueueLast DEF QueueInv
  <2>5. OutboxInv'
    <3>1. \A n \in 1..Len(outbox') : outbox'[n] \in Items(outbox) \cup {c}
      BY <2>4 DEF Items
    <3>2. \A d \in Items(outbox) \cup {c} : maker'[d] # None
      BY <2>2, <2>3, ElementOfSeq DEF QueueInv, OutboxInv, Items
    <3> QED
      BY <2>4, <3>1, <3>2 DEF OutboxInv
  <2>6. FlushInv'
    BY <1>0, <2>4 DEF QueueInv, FlushInv
  <2>7. NothingIsLost'
    BY <1>0, <2>3, <2>4 DEF QueueInv, NothingIsLost, Queued
  <2> QED
    BY <2>5, <2>6, <2>7
<1> QED
  BY <1>1, <1>2

LEMMA QueueStep == QueueInv /\ [Next]_vars => QueueInv'
<1> SUFFICES ASSUME QueueInv, [Next]_vars PROVE QueueInv'
  OBVIOUS
<1>0. TypeInv'
  BY TypeStep DEF QueueInv
<1>1. CASE FlushStep
  BY <1>0, <1>1, LookKeeps, PostKeeps, RemoveKeeps DEF FlushStep, QueueInv
<1>2. ASSUME NEW o \in Owner, NEW p \in Provider, Queue(o, p) PROVE QueueInv'
  BY <1>0, <1>2, QueueKeeps DEF QueueInv
<1>3. ASSUME NEW o \in Owner, NEW p \in Provider,
             Flush(o, p) \/ Collected(o, p) \/ GoOnToDetail(o, p)
      PROVE QueueInv'
  <2>1. /\ outbox' = outbox /\ maker' = maker /\ stored' = stored
        /\ flushing' = flushing \/ flushing'.stage \in {"no", "looking"}
    BY <1>3 DEF Flush, Collected, GoOnToDetail, StartFlush, NoFlush
  <2> QED
    BY <1>0, <2>1, QueueUntouched DEF QueueInv
<1>4. CASE StartTick \/ ReadActivation \/ EndTick \/ EndWorker
  <2>1. /\ outbox' = outbox /\ maker' = maker /\ stored' = stored
        /\ flushing' = flushing \/ flushing'.stage \in {"no", "looking"}
    BY <1>4 DEF StartTick, ReadActivation, EndTick, EndWorker, FreshWorker, StartFlush,
                NoFlush
  <2> QED
    BY <1>0, <2>1, QueueUntouched DEF QueueInv
<1>5. CASE (\E a \in Asker : PreviewStep(a)) \/ (\E s \in Switch : SwitchStep(s))
  <2>1. outbox' = outbox /\ maker' = maker /\ stored' = stored /\ flushing' = flushing
    BY <1>5 DEF PreviewStep, Ask, Read, RunPreview, EndPreview, SwitchStep, AskEnable,
                Enable, Disable, Drain, AnswerDisabled
  <2> QED
    BY <1>0, <2>1, QueueUntouched DEF QueueInv
<1>6. CASE UNCHANGED vars
  BY <1>0, <1>6, QueueUntouched DEF vars, QueueInv
<1> QED
  BY <1>1, <1>2, <1>3, <1>4, <1>5, <1>6 DEF Next, JobStep

LEMMA QueueInit == Init => QueueInv
<1> SUFFICES ASSUME Init PROVE QueueInv
  OBVIOUS
<1>1. TypeInv
  BY DEF Init, TypeInv, NoJobs, NoFlush, JobStage
<1>2. OutboxInv /\ FlushInv
  BY EmptySeq DEF Init, OutboxInv, FlushInv, NoFlush
<1>3. NothingIsLost
  BY DEF Init, NothingIsLost, Queued
<1> QED
  BY <1>1, <1>2, <1>3 DEF QueueInv

\* publisher.ts and outbox.ts: whatever was queued is pending or stored, through
\* failed posts, posts that were stored without an answer, and ended workers,
\* for any number of providers and popups and any size of the outbox.
THEOREM QueuedSurvives == Spec => []NothingIsLost
<1>1. Spec => []QueueInv
  BY QueueInit, QueueStep, PTL DEF Spec
<1>2. QueueInv => NothingIsLost
  BY DEF QueueInv
<1> QED
  BY <1>1, <1>2, PTL

-----------------------------------------------------------------------------
(* With one popup at a time.                                               *)

OnePopup == \A a, b \in Asker : a = b

\* A tick has jobs only while it collects; a flush is the tick's or one of its jobs'.
TickInv ==
  /\ tick # "collecting" => job["tick"] = NoJobs
  /\ flushing.stage # "no" =>
       tick = "flushing" \/ \E p \in Provider : job["tick"][p] = "flushing"

\* The flag is up while the preview runs, so its jobs never flush.
PreviewInv ==
  /\ preview = (\E a \in Asker : asker[a] = "running")
  /\ \A a \in Asker : asker[a] # "running" => job[a] = NoJobs
  /\ \A a \in Asker, p \in Provider : job[a][p] # "flushing"

\* A disable that found no tick, and was not overtaken by an enable.
Quieted == "answered" \in quiet \/ \E s \in Switch : s \in quiet /\ switch[s] = "closing"

QuietInv ==
  /\ quiet # {} => ~ enabled
  /\ Quieted => tick \in {"off", "checking"}

WorkerInv == TypeInv /\ TickInv /\ PreviewInv /\ QuietInv /\ PreviewKeepsNothing

\* Where nothing of the previews changes, and no job starts to flush.
LEMMA PreviewUntouched ==
  ASSUME WorkerInv, preview' = preview, asker' = asker,
         \A a \in Asker : job'[a] = job[a]
  PROVE PreviewInv'
  BY DEF WorkerInv, PreviewInv, NoJobs

LEMMA EndFlushKeeps ==
  ASSUME WorkerInv, NEW ok \in BOOLEAN, EndFlush(ok),
         UNCHANGED <<enabled, preview, asker, switch, quiet>>
  PROVE TickInv' /\ PreviewInv' /\ QuietInv'
<1>1. /\ flushing' = NoFlush
      /\ tick' = IF tick = "flushing" THEN "collecting" ELSE tick
      /\ \A o \in Owner, p \in Provider :
           job'[o][p] = IF job[o][p] = "flushing" THEN "done"
                        ELSE IF o = "tick" /\ tick = "flushing" THEN "collecting"
                        ELSE job[o][p]
      /\ job' \in [Owner -> [Provider -> JobStage]]
  BY EndFlushTypes DEF EndFlush, AfterFlush, WorkerInv
<1>2. TickInv'
  <2>1. ASSUME tick' # "collecting" PROVE job'["tick"] = NoJobs
    <3>1. job["tick"] = NoJobs /\ tick # "flushing"
      BY <1>1, <2>1 DEF WorkerInv, TickInv
    <3>2. "tick" \in Owner /\ \A p \in Provider : job'["tick"][p] = "no"
      BY <1>1, <3>1 DEF Owner, NoJobs
    <3> QED
      BY <1>1, <3>2 DEF NoJobs
  <2> QED
    BY <1>1, <2>1 DEF TickInv, NoFlush
<1>3. PreviewInv'
  <2>1. ASSUME NEW a \in Asker PROVE job'[a] = job[a]
    <3>1. a \in Owner /\ a # "tick"
      BY ExtensionAssumption DEF Owner
    <3>2. \A p \in Provider : job'[a][p] = job[a][p]
      BY <1>1, <3>1 DEF WorkerInv, PreviewInv
    <3> QED
      BY <1>1, <3>1, <3>2 DEF WorkerInv, TypeInv
  <2> QED
    BY <2>1, PreviewUntouched
<1>4. QuietInv'
  BY <1>1 DEF WorkerInv, QuietInv, Quieted
<1> QED
  BY <1>2, <1>3, <1>4

LEMMA FlushQuiet ==
  ASSUME WorkerInv, FlushStep
  PROVE TickInv' /\ PreviewInv' /\ QuietInv'
<1>1. UNCHANGED <<enabled, preview, asker, switch, quiet>> /\ flushing.stage # "no"
  BY DEF FlushStep, Look, PostSucceeds, PostFails, RemoveItem
<1>2. CASE \E ok \in BOOLEAN : EndFlush(ok)
  BY <1>1, <1>2, EndFlushKeeps
<1>3. CASE ~ \E ok \in BOOLEAN : EndFlush(ok)
  <2>1. UNCHANGED <<tick, job>>
    BY <1>3 DEF FlushStep, Look, PostSucceeds, PostFails, RemoveItem
  <2>2. TickInv'
    BY <1>1, <2>1 DEF WorkerInv, TickInv
  <2>3. PreviewInv' /\ QuietInv'
    BY <1>1, <2>1, PreviewUntouched DEF WorkerInv, QuietInv, Quieted
  <2> QED
    BY <2>2, <2>3
<1> QED
  BY <1>2, <1>3

LEMMA TickQuiet ==
  ASSUME WorkerInv, StartTick \/ ReadActivation \/ EndTick \/ EndWorker
  PROVE TickInv' /\ PreviewInv' /\ QuietInv'
<1>0. /\ "tick" \in Owner /\ \A a \in Asker : a \in Owner /\ a # "tick"
      /\ \A j : [job EXCEPT !["tick"] = j]["tick"] = j
      /\ \A j : \A a \in Asker : [job EXCEPT !["tick"] = j][a] = job[a]
  BY ExtensionAssumption DEF Owner, WorkerInv, TypeInv
<1>1. CASE StartTick
  <2>1. TickInv' /\ QuietInv'
    BY <1>1 DEF StartTick, MayTick, WorkerInv, TickInv, QuietInv, Quieted
  <2>2. PreviewInv'
    BY <1>1, PreviewUntouched DEF StartTick
  <2> QED
    BY <2>1, <2>2
<1>2. CASE ReadActivation
  <2>1. \A a \in Asker : job'[a] = job[a]
    <3>1. job' = job \/ \E j : job' = [job EXCEPT !["tick"] = j]
      BY <1>2, Zenon DEF ReadActivation
    <3>2. ASSUME NEW j, job' = [job EXCEPT !["tick"] = j], NEW a \in Asker
          PROVE job'[a] = job[a]
      BY <1>0, <3>2
    <3> QED
      BY <3>1, <3>2
  <2>2. PreviewInv'
    BY <1>2, <2>1, PreviewUntouched DEF ReadActivation
  <2>3. flushing.stage = "no" /\ job["tick"] = NoJobs
    BY <1>2 DEF ReadActivation, WorkerInv, TickInv, NoJobs
  <2>4. TickInv'
    BY <1>2, <2>3 DEF ReadActivation, TickInv
  <2>5. QuietInv'
    BY <1>2 DEF ReadActivation, WorkerInv, QuietInv, Quieted
  <2> QED
    BY <2>2, <2>4, <2>5
<1>3. CASE EndTick
  <2>1. \A a \in Asker : job'[a] = job[a]
    BY <1>0, <1>3 DEF EndTick
  <2>2. PreviewInv'
    BY <1>3, <2>1, PreviewUntouched DEF EndTick
  <2>3. flushing.stage = "no"
    BY <1>3 DEF EndTick, AllDone, WorkerInv, TickInv
  <2>4. TickInv'
    BY <1>0, <1>3, <2>3 DEF EndTick, TickInv
  <2>5. QuietInv'
    BY <1>3 DEF EndTick, WorkerInv, QuietInv, Quieted
  <2> QED
    BY <2>2, <2>4, <2>5
<1>4. CASE EndWorker
  <2>1. /\ tick' = "off" /\ preview' = FALSE /\ flushing'.stage = "no"
        /\ \A a \in Asker : asker'[a] = "idle" /\ job'[a] = NoJobs
        /\ job'["tick"] = NoJobs
        /\ enabled' = enabled /\ quiet' \subseteq quiet
    BY <1>0, <1>4 DEF EndWorker, FreshWorker, NoFlush
  <2>2. TickInv'
    BY <2>1 DEF TickInv
  <2>3. PreviewInv'
    BY <2>1 DEF PreviewInv, NoJobs
  <2>4. QuietInv'
    BY <2>1 DEF WorkerInv, QuietInv
  <2> QED
    BY <2>2, <2>3, <2>4
<1> QED
  BY <1>1, <1>2, <1>3, <1>4

LEMMA JobQuiet ==
  ASSUME WorkerInv, NEW o \in Owner, NEW p \in Provider,
         JobStep(o, p) \/ Collected(o, p) \/ GoOnToDetail(o, p)
  PROVE TickInv' /\ PreviewInv' /\ QuietInv'
<1>0. /\ UNCHANGED <<enabled, tick, preview, asker, switch, quiet>>
      /\ job[o][p] \in {"collecting", "queued", "done"}
      /\ \E s \in JobStage : job' = [job EXCEPT ![o][p] = s]
  BY DEF JobStep, Queue, Flush, Collected, GoOnToDetail, JobStage
<1>1. PICK s \in JobStage : job' = [job EXCEPT ![o][p] = s]
  BY <1>0
<1>2. /\ job'[o][p] = s
      /\ \A q \in Owner, r \in Provider : q # o \/ r # p => job'[q][r] = job[q][r]
      /\ \A q \in Owner : q # o => job'[q] = job[q]
  BY <1>1 DEF WorkerInv, TypeInv
<1>3. job[o] # NoJobs /\ job[o][p] # "flushing"
  BY <1>0 DEF NoJobs
<1>4. CASE Flush(o, p) /\ ~ preview
  <2>1. o = "tick"
    BY <1>3, <1>4 DEF WorkerInv, PreviewInv, Owner
  <2>2. tick = "collecting" /\ job'["tick"][p] = "flushing"
    BY <1>3, <1>4, <2>1 DEF Flush, WorkerInv, TypeInv, TickInv
  <2>3. TickInv'
    BY <1>0, <2>2 DEF TickInv
  <2>4. PreviewInv'
    BY <1>0, <1>2, <2>1, ExtensionAssumption, PreviewUntouched DEF Owner
  <2> QED
    BY <1>0, <2>3, <2>4 DEF WorkerInv, QuietInv, Quieted
<1>5. CASE ~ (Flush(o, p) /\ ~ preview)
  <2>0. flushing' = flushing /\ s # "flushing"
    BY <1>0, <1>2, <1>5 DEF JobStep, Queue, Flush, Collected, GoOnToDetail, WorkerInv, TypeInv
  <2>1. TickInv'
    <3>1. o = "tick" => tick = "collecting"
      BY <1>3 DEF WorkerInv, TickInv
    <3>2. "tick" \in Owner
      BY DEF Owner
    <3>3. \A r \in Provider : job["tick"][r] = "flushing" => job'["tick"][r] = "flushing"
      BY <1>2, <1>3, <3>2
    <3> QED
      BY <1>0, <1>2, <2>0, <3>1, <3>2, <3>3 DEF WorkerInv, TickInv
  <2>2. PreviewInv'
    <3>1. \A a \in Asker : a \in Owner
      BY DEF Owner
    <3>2. \A a \in Asker : asker'[a] # "running" => job'[a] = NoJobs
      BY <1>0, <1>2, <1>3, <3>1 DEF WorkerInv, PreviewInv
    <3>3. \A a \in Asker, r \in Provider : job'[a][r] # "flushing"
      BY <1>2, <2>0, <3>1 DEF WorkerInv, PreviewInv
    <3> QED
      BY <1>0, <3>2, <3>3 DEF WorkerInv, PreviewInv
  <2> QED
    BY <1>0, <2>1, <2>2 DEF WorkerInv, QuietInv, Quieted
<1> QED
  BY <1>4, <1>5

LEMMA PreviewQuiet ==
  ASSUME OnePopup, WorkerInv, NEW a \in Asker, PreviewStep(a)
  PROVE TickInv' /\ PreviewInv' /\ QuietInv'
<1>0. /\ \A b \in Asker : b = a
      /\ a \in Owner /\ a # "tick" /\ "tick" \in Owner
  BY ExtensionAssumption DEF OnePopup, Owner
<1>1. UNCHANGED <<enabled, tick, flushing, switch, quiet>> /\ job'["tick"] = job["tick"]
  BY <1>0 DEF PreviewStep, Ask, Read, RunPreview, EndPreview, WorkerInv, TypeInv
<1>2. TickInv' /\ QuietInv'
  BY <1>1 DEF WorkerInv, TickInv, QuietInv, Quieted
<1>3. PreviewInv'
  <2>1. CASE Ask(a) \/ Read(a)
    <3>1. /\ preview' = preview /\ job' = job
          /\ asker[a] # "running" /\ asker'[a] # "running"
      BY <2>1 DEF Ask, Read, WorkerInv, TypeInv
    <3> QED
      BY <1>0, <3>1 DEF WorkerInv, PreviewInv
  <2>2. CASE RunPreview(a)
    <3>1. /\ preview' = TRUE /\ asker'[a] = "running"
          /\ \A p \in Provider : job'[a][p] = "collecting"
      BY <1>0, <2>2 DEF RunPreview, WorkerInv, TypeInv
    <3> QED
      BY <1>0, <3>1 DEF PreviewInv
  <2>3. CASE EndPreview(a)
    <3>1. preview' = FALSE /\ asker'[a] = "idle" /\ job'[a] = NoJobs
      BY <1>0, <2>3 DEF EndPreview, WorkerInv, TypeInv
    <3> QED
      BY <1>0, <3>1 DEF PreviewInv, NoJobs
  <2> QED
    BY <2>1, <2>2, <2>3 DEF PreviewStep
<1> QED
  BY <1>2, <1>3

LEMMA SwitchQuiet ==
  ASSUME WorkerInv, NEW s \in Switch, SwitchStep(s)
  PROVE TickInv' /\ PreviewInv' /\ QuietInv'
<1>1. /\ UNCHANGED <<flushing, preview, asker, job>>
      /\ tick' = tick \/ (tick = "off" /\ tick' = "checking")
  BY DEF SwitchStep, AskEnable, Enable, MayTick, Disable, Drain, AnswerDisabled
<1>2. TickInv'
  BY <1>1 DEF WorkerInv, TickInv
<1>3. PreviewInv'
  BY <1>1, PreviewUntouched
<1>4. QuietInv'
  <2>1. CASE AskEnable(s)
    BY <2>1 DEF AskEnable, WorkerInv, TypeInv, QuietInv, Quieted
  <2>2. CASE Enable(s)
    BY <2>2 DEF Enable, QuietInv, Quieted
  <2>3. CASE Disable(s)
    BY <2>3, ExtensionAssumption DEF Disable, WorkerInv, TypeInv, QuietInv, Quieted
  <2>4. CASE Drain(s)
    BY <2>4 DEF Drain, Drained, WorkerInv, TypeInv, QuietInv, Quieted
  <2>5. CASE AnswerDisabled(s)
    BY <2>5 DEF AnswerDisabled, WorkerInv, TypeInv, QuietInv, Quieted
  <2> QED
    BY <2>1, <2>2, <2>3, <2>4, <2>5 DEF SwitchStep
<1> QED
  BY <1>2, <1>3, <1>4

\* Who queues is a job; the preview's finds the flag up.
LEMMA PreviewQueuesNothing ==
  ASSUME WorkerInv, [Next]_vars
  PROVE PreviewKeepsNothing'
<1>1. CASE maker' = maker
  BY <1>1 DEF WorkerInv, PreviewKeepsNothing
<1>2. CASE maker' # maker
  <2>1. PICK o \in Owner, p \in Provider : Queue(o, p)
    BY <1>2 DEF vars, Next, FlushStep, Look, PostSucceeds, PostFails, RemoveItem, StartTick,
                ReadActivation, EndTick, EndWorker, JobStep, Flush, Collected, GoOnToDetail,
                PreviewStep, Ask, Read, RunPreview, EndPreview, SwitchStep, AskEnable,
                Enable, Disable, Drain, AnswerDisabled
  <2>2. ~ preview /\ job[o] # NoJobs
    BY <1>2, <2>1 DEF Queue, NoJobs
  <2>3. o = "tick"
    BY <2>2 DEF WorkerInv, PreviewInv, Owner
  <2>4. \E c \in Publication : maker' = [maker EXCEPT ![c] = "tick"]
    BY <1>2, <2>1, <2>3, Zenon DEF Queue, Unused
  <2> QED
    BY <2>4, ExtensionAssumption DEF WorkerInv, TypeInv, PreviewKeepsNothing
<1> QED
  BY <1>1, <1>2

LEMMA WorkerStep ==
  ASSUME OnePopup
  PROVE WorkerInv /\ [Next]_vars => WorkerInv'
<1> SUFFICES ASSUME WorkerInv, [Next]_vars PROVE WorkerInv'
  OBVIOUS
<1>1. TypeInv' /\ PreviewKeepsNothing'
  BY TypeStep, PreviewQueuesNothing DEF WorkerInv
<1>2. TickInv' /\ PreviewInv' /\ QuietInv'
  <2>1. CASE UNCHANGED vars
    BY <2>1 DEF vars, WorkerInv, TickInv, PreviewInv, QuietInv, Quieted
  <2>2. CASE Next
    BY <2>2, FlushQuiet, TickQuiet, JobQuiet, PreviewQuiet, SwitchQuiet DEF Next
  <2> QED
    BY <2>1, <2>2
<1> QED
  BY <1>1, <1>2 DEF WorkerInv

LEMMA WorkerInit == Init => WorkerInv
<1> SUFFICES ASSUME Init PROVE WorkerInv
  OBVIOUS
<1>1. TypeInv
  BY QueueInit DEF QueueInv
<1>2. TickInv /\ PreviewInv /\ QuietInv
  BY ExtensionAssumption DEF Init, Owner, NoFlush, NoJobs, TickInv, PreviewInv, QuietInv, Quieted
<1>3. PreviewKeepsNothing
  BY ExtensionAssumption DEF Init, PreviewKeepsNothing
<1> QED
  BY <1>1, <1>2, <1>3 DEF WorkerInv

\* background.ts: once a disable was answered with ok, no tick collects and no
\* flush posts until the next enable, for any number of switches in flight and
\* wherever the worker is ended, if popups do not ask for previews together.
THEOREM DisabledIsQuiet ==
  ASSUME OnePopup
  PROVE Spec => []QuietWhenDisabled
<1>0. WorkerInv /\ [Next]_vars => WorkerInv'
  BY WorkerStep
<1>1. Spec => []WorkerInv
  BY <1>0, WorkerInit, PTL DEF Spec
<1>2. WorkerInv => QuietWhenDisabled
  BY DEF WorkerInv, QuietInv, Quieted, TickInv, NoJobs, QuietWhenDisabled
<1> QED
  BY <1>1, <1>2, PTL

\* README.md:31 of the extension, under the condition the code needs for it: as
\* long as no two popups ask for previews together, a preview keeps nothing.
THEOREM LonePreviewKeepsNothing ==
  ASSUME OnePopup
  PROVE Spec => []PreviewKeepsNothing
<1>0. WorkerInv /\ [Next]_vars => WorkerInv'
  BY WorkerStep
<1>1. Spec => []WorkerInv
  BY <1>0, WorkerInit, PTL DEF Spec
<1>2. WorkerInv => PreviewKeepsNothing
  BY DEF WorkerInv
<1> QED
  BY <1>1, <1>2, PTL
=============================================================================
