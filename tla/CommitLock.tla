----------------------------- MODULE CommitLock -----------------------------
(***************************************************************************)
(* What IngestionCommitService promises the collectors of one provider:    *)
(* "owns the in-process generation check and the provider commit critical  *)
(* section".  At most one commit() of a provider publishes at a time, and  *)
(* the runs that get to publish do so in the order in which they began.    *)
(*                                                                         *)
(* Nothing is said here of promises, tails or generations: that is the     *)
(* detailed specification, IngestionCommit, which implements this one.     *)
(***************************************************************************)
EXTENDS Naturals

CONSTANTS
  Provider,   \* the betting sites
  Call,       \* the commit() calls
  SiteOf,     \* SiteOf[c]: the provider call c publishes for
  None        \* no call

VARIABLES
  waiting,    \* the calls that asked for their provider's critical section
  owner,      \* owner[p]: the call inside p's critical section, or None
  newest,     \* newest[p]: begin number of the last run admitted for p
  written     \* written[p]: begin number of the run that wrote p last

vars == <<waiting, owner, newest, written>>

Init ==
  /\ waiting = {}
  /\ owner = [p \in Provider |-> None]
  /\ newest = [p \in Provider |-> 0]
  /\ written = [p \in Provider |-> 0]

Inside(c) == owner[SiteOf[c]] = c

Ask(c) ==
  /\ c \notin waiting /\ ~ Inside(c)
  /\ waiting' = waiting \cup {c}
  /\ UNCHANGED <<owner, newest, written>>

\* A call that waits enters if its run began no earlier than any run admitted
\* before it.  The begin number itself is left open, so it is described, not
\* enumerated.
Acquire(c) ==
  LET p == SiteOf[c] IN
  /\ c \in waiting /\ owner[p] = None
  /\ waiting' = waiting \ {c}
  /\ owner' = [owner EXCEPT ![p] = c]
  /\ newest' = [newest EXCEPT ![p] = newest'[p]]
  /\ newest'[p] >= newest[p]
  /\ UNCHANGED written

\* A call that waits is turned away.
Refuse(c) ==
  /\ c \in waiting
  /\ waiting' = waiting \ {c}
  /\ UNCHANGED <<owner, newest, written>>

\* The owner publishes one item.
Write(p) ==
  /\ owner[p] # None
  /\ written' = [written EXCEPT ![p] = newest[p]]
  /\ UNCHANGED <<waiting, owner, newest>>

\* The owner leaves, with everything published or after a failure.
Release(p) ==
  /\ owner[p] # None
  /\ owner' = [owner EXCEPT ![p] = None]
  /\ UNCHANGED <<waiting, newest, written>>

Next ==
  \/ \E c \in Call : Ask(c) \/ Acquire(c) \/ Refuse(c)
  \/ \E p \in Provider : Write(p) \/ Release(p)

\* The safety half is what IngestionCommitProofs proves of the detailed module.
Safety == Init /\ [][Next]_vars

\* Every call that asks settles: its turn comes or it is turned away, and once
\* inside it leaves.
Settles(c) == (c \in waiting \/ Inside(c)) ~> ~ (c \in waiting \/ Inside(c))

Spec == Safety /\ \A c \in Call : Settles(c)
=============================================================================
