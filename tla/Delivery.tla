------------------------------- MODULE Delivery -------------------------------
(***************************************************************************)
(* What the agent's outbox and the server's ingestion promise together:    *)
(* publications are stored once each, in the order they were accepted;     *)
(* only the oldest may be given up for their age, and one given up is      *)
(* stored at most late, never twice.                                       *)
(***************************************************************************)
EXTENDS Naturals, Sequences

CONSTANT Publication

VARIABLES
  waiting,     \* accepted, not stored yet, oldest first
  stored,
  lost         \* given up before they were stored

vars == <<waiting, stored, lost>>

Init == waiting = <<>> /\ stored = {} /\ lost = {}

Elements(s) == {s[n] : n \in 1..Len(s)}

\* The n oldest are given up.
Retain(n) == SubSeq(waiting, n + 1, Len(waiting))
GiveUp(n) == lost' = lost \cup Elements(SubSeq(waiting, 1, n))

Accept(p) ==
  /\ p \notin Elements(waiting) \cup stored \cup lost
  /\ \E n \in 0..Len(waiting) :
       /\ GiveUp(n)
       /\ waiting' = Append(Retain(n), p)
  /\ UNCHANGED stored

Expire ==
  /\ \E n \in 1..Len(waiting) : GiveUp(n) /\ waiting' = Retain(n)
  /\ UNCHANGED stored

Store ==
  /\ waiting # <<>>
  /\ stored' = stored \cup {Head(waiting)}
  /\ waiting' = Tail(waiting)
  /\ UNCHANGED lost

StoreLate(p) ==
  /\ p \in lost
  /\ lost' = lost \ {p}
  /\ stored' = stored \cup {p}
  /\ UNCHANGED waiting

Next ==
  \/ \E p \in Publication : Accept(p) \/ StoreLate(p)
  \/ Expire \/ Store

Spec == Init /\ [][Next]_vars
=============================================================================
