----------------------------- MODULE AgentOutbox -----------------------------
(***************************************************************************)
(* AgentOutbox                                                             *)
(*   .../modules/runtime/remote-persistence.ts                             *)
(*                                                                         *)
(* The collector agent's persistence is a directory of pending             *)
(* publications.  commit() adds one durably; tick() reads the directory    *)
(* and posts its files in the order they were accepted, removing each      *)
(* after a 2xx answer and giving up at the first failure until a rest is   *)
(* over.  Both scan the directory first, which drops the files past the    *)
(* retention age, and both run on one promise queue, so that no file is    *)
(* added while a delivery is under way.  Files survive a crash; what the   *)
(* process remembers does not.                                             *)
(*                                                                         *)
(* The module gives the agent's steps; AgentDelivery connects them to the  *)
(* server.  File names start with the clock, taken to advance from one     *)
(* commit to the next, so a scan drops a prefix of the outbox.             *)
(***************************************************************************)
EXTENDS Naturals, Sequences, SequencesExt

CONSTANTS
  Publication, None,
  MaxFiles        \* the outbox refuses one more (1000 in the code)

ASSUME OutboxAssumption == None \notin Publication /\ MaxFiles \in Nat \ {0}

VARIABLES
  running,     \* the agent process is up
  stopped,     \* onModuleDestroy was called
  outbox,      \* the files, oldest first
  sending,     \* a tick's delivery is under way
  batch,       \* the files it read and has not delivered yet
  posting,     \* the publication whose answer it awaits, or None
  resting,     \* Date.now() < nextAttempt
  offered,     \* history: the publications commit() was called with
  expired      \* history: the files dropped by retention

agentVars == <<running, stopped, outbox, sending, batch, posting, resting,
               offered, expired>>

AgentInit ==
  /\ running = TRUE /\ stopped = FALSE
  /\ outbox = <<>> /\ batch = <<>>
  /\ sending = FALSE /\ posting = None /\ resting = FALSE
  /\ offered = {} /\ expired = {}

Items(s) == {s[n] : n \in 1..Len(s)}

\* pending(): the n oldest files are past maxAgeMs and are unlinked.
Kept(n) == SubSeq(outbox, n + 1, Len(outbox))
Dropped(n) == Items(SubSeq(outbox, 1, n))

HasRoom(n) == Len(Kept(n)) < MaxFiles

\* commit() by the collectors, as its turn on the queue comes: the file is
\* written, synced and renamed, or refused when the outbox is full.
Accept(p, n) ==
  /\ running /\ ~ sending
  /\ p \notin offered
  /\ offered' = offered \cup {p}
  /\ expired' = expired \cup Dropped(n)
  /\ outbox' = IF HasRoom(n) THEN Append(Kept(n), p) ELSE Kept(n)
  /\ UNCHANGED <<running, stopped, sending, batch, posting, resting>>

\* tick(): read the directory.
Tick(n) ==
  /\ running /\ ~ stopped /\ ~ sending /\ ~ resting
  /\ sending' = TRUE
  /\ outbox' = Kept(n) /\ batch' = Kept(n)
  /\ expired' = expired \cup Dropped(n)
  /\ UNCHANGED <<running, stopped, posting, resting, offered>>

\* Post the next file, unless the agent is stopping.
Post ==
  /\ running /\ sending /\ ~ stopped
  /\ posting = None /\ batch # <<>>
  /\ posting' = Head(batch)
  /\ UNCHANGED <<running, stopped, outbox, sending, batch, resting, offered, expired>>

Unlinked(p) == RemoveAt(outbox, CHOOSE n \in 1..Len(outbox) : outbox[n] = p)

\* A 2xx answer: unlink the file and go on.
Delivered ==
  /\ running /\ posting # None
  /\ outbox' = Unlinked(posting)
  /\ batch' = Tail(batch)
  /\ posting' = None
  /\ UNCHANGED <<running, stopped, sending, resting, offered, expired>>

AfterFailure_GoesOn ==
  /\ batch' = Tail(batch)
  /\ UNCHANGED <<sending, resting>>

\* The loop is left: the files behind wait for the next tick.
AfterFailure ==
  /\ batch' = <<>>
  /\ sending' = FALSE
  /\ resting' = TRUE

\* Another answer, a timeout, no connection: the file stays.
DeliveryFails ==
  /\ running /\ posting # None
  /\ AfterFailure
  /\ posting' = None
  /\ UNCHANGED <<running, stopped, outbox, offered, expired>>

\* The loop ends, after its last file or because the agent is stopping.
DeliveryEnds ==
  /\ running /\ sending /\ posting = None
  /\ batch = <<>> \/ stopped
  /\ sending' = FALSE /\ batch' = <<>>
  /\ UNCHANGED <<running, stopped, outbox, posting, resting, offered, expired>>

RestEnds ==
  /\ resting
  /\ resting' = FALSE
  /\ UNCHANGED <<running, stopped, outbox, sending, batch, posting, offered, expired>>

Stop ==
  /\ running /\ ~ stopped
  /\ stopped' = TRUE
  /\ UNCHANGED <<running, outbox, sending, batch, posting, resting, offered, expired>>

\* The process ends: onModuleDestroy waits for the delivery; a crash does not.
Exit ==
  /\ running
  /\ running' = FALSE
  /\ stopped' = FALSE
  /\ sending' = FALSE /\ batch' = <<>> /\ posting' = None
  /\ resting' = FALSE
  /\ UNCHANGED <<outbox, offered, expired>>

AgentRestart ==
  /\ ~ running
  /\ running' = TRUE
  /\ UNCHANGED <<stopped, outbox, sending, batch, posting, resting, offered, expired>>
=============================================================================
