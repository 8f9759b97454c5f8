------------------------ MODULE AgentDeliveryProofs ------------------------
(***************************************************************************)
(* For any publications, requests, faults and sizes, the agent and the     *)
(* server together implement Delivery: what the outbox accepts is stored   *)
(* once, in the order of acceptance, and only retention gives it up.       *)
(*                                                                         *)
(* The argument.  No file is in the outbox twice, and only the oldest may  *)
(* be stored already, by a post whose answer the agent did not get         *)
(* (OutboxInv).  A delivery works off the outbox as it is, and posts its   *)
(* head (SendingInv); so a request that has not reached its transaction    *)
(* carries the head, or something the outbox no longer has (RequestInv),   *)
(* and an answer is about the file that is posted (SlotInv).  The          *)
(* transaction then stores the oldest file that is not stored, or one that *)
(* was given up, or repeats.                                               *)
(*                                                                         *)
(* The last part is about what the lists leave in the rows of the events.  *)
(***************************************************************************)
EXTENDS AgentDelivery, SequenceTheorems, TLAPS

Field == {"stage", "pub", "notice", "read"}

Shape ==
  /\ DOMAIN request = Request
  /\ \A q \in Request : DOMAIN request[q] = Field

OutboxInv ==
  /\ outbox \in Seq(Publication)
  /\ \A m, n \in 1..Len(outbox) : outbox[m] = outbox[n] => m = n
  /\ \A n \in 1..Len(outbox) : outbox[n] \in offered \ expired
  /\ \A n \in 2..Len(outbox) : outbox[n] \notin receipts
  /\ offered \subseteq Publication
  /\ receipts \subseteq offered /\ expired \subseteq offered

SendingInv ==
  /\ sending => batch = outbox
  /\ posting # None => sending /\ batch # <<>> /\ posting = Head(batch)

SlotInv ==
  slot # None =>
    /\ slot \in Request /\ posting # None
    /\ request[slot].stage \in {"sent", "committed", "reloading"} =>
         request[slot].pub = posting
    /\ request[slot].stage = "accepted" => posting \in receipts

RequestInv ==
  \A q \in Request :
    /\ request[q].stage = "sent" =>
         /\ request[q].pub \in Items(outbox) \cup expired \cup receipts
         /\ \A n \in 2..Len(outbox) : outbox[n] # request[q].pub
    /\ request[q].stage \in {"committed", "reloading"} => request[q].pub \in receipts

IInv == Shape /\ OutboxInv /\ SendingInv /\ SlotInv /\ RequestInv

-----------------------------------------------------------------------------
(* The sequences.                                                          *)

\* A sequence without its first n elements.
LEMMA Rest ==
  ASSUME NEW S, NEW s \in Seq(S), NEW n \in 0..Len(s)
  PROVE /\ SubSeq(s, n + 1, Len(s)) \in Seq(S)
        /\ Len(SubSeq(s, n + 1, Len(s))) = Len(s) - n
        /\ \A i \in 1..(Len(s) - n) : SubSeq(s, n + 1, Len(s))[i] = s[n + i]
        /\ Items(SubSeq(s, 1, n)) = {s[i] : i \in 1..n}
<1>1. Len(s) \in Nat /\ \A i \in 1..Len(s) : s[i] \in S
  BY LenProperties, ElementOfSeq
<1>2. /\ SubSeq(s, n + 1, Len(s)) \in Seq(S)
      /\ Len(SubSeq(s, n + 1, Len(s))) = Len(s) - n
      /\ \A i \in 1..(Len(s) - n) : SubSeq(s, n + 1, Len(s))[i] = s[n + i]
  BY <1>1, SubSeqProperties
<1>3. /\ Len(SubSeq(s, 1, n)) = n
      /\ \A i \in 1..n : SubSeq(s, 1, n)[i] = s[i]
  BY <1>1, SubSeqProperties
<1> QED
  BY <1>2, <1>3 DEF Items

\* What follows the head.
LEMMA Behind ==
  ASSUME NEW S, NEW s \in Seq(S), s # <<>>
  PROVE /\ Len(s) \in Nat \ {0} /\ Head(s) = s[1]
        /\ Tail(s) \in Seq(S) /\ Len(Tail(s)) = Len(s) - 1
        /\ \A i \in 1..(Len(s) - 1) : Tail(s)[i] = s[i + 1]
  BY HeadTailProperties, EmptySeq

\* A file with a name of its own is unlinked alone: the head leaves the tail.
LEMMA UnlinkHead ==
  ASSUME OutboxInv, outbox # <<>>
  PROVE Unlinked(Head(outbox)) = Tail(outbox)
<1>1. outbox \in Seq(Publication) /\ Len(outbox) \in Nat \ {0} /\ Head(outbox) = outbox[1]
  BY Behind DEF OutboxInv
<1>2. (CHOOSE n \in 1..Len(outbox) : outbox[n] = Head(outbox)) = 1
  BY <1>1 DEF OutboxInv
<1>3. SubSeq(outbox, 1, 0) = <<>>
  BY SubSeqEmpty
<1>4. SubSeq(outbox, 2, Len(outbox)) = Tail(outbox) /\ Tail(outbox) \in Seq(Publication)
  BY <1>1, TailIsSubSeq, Behind
<1>5. Unlinked(Head(outbox)) = RemoveAt(outbox, 1)
  BY <1>2, Zenon DEF Unlinked
<1>6. RemoveAt(outbox, 1) = SubSeq(outbox, 1, 0) \o SubSeq(outbox, 2, Len(outbox))
  BY DEF RemoveAt
<1> QED
  BY <1>3, <1>4, <1>5, <1>6, ConcatEmptySeq

-----------------------------------------------------------------------------
(* What waits, as a function of the outbox and the receipts.               *)

Waiting(s, R) == IF s # <<>> /\ Head(s) \in R THEN Tail(s) ELSE s

\* An outbox that only its head may be stored of, no file twice.
Orderly(s, R) ==
  /\ \A m, n \in 1..Len(s) : s[m] = s[n] => m = n
  /\ \A n \in 2..Len(s) : s[n] \notin R

\* The stored head is one more than what waits.
LEMMA WaitingFacts ==
  ASSUME NEW S, NEW s \in Seq(S), NEW R, Orderly(s, R)
  PROVE \E d \in {0, 1} :
          /\ d <= Len(s) /\ (d = 1 => s[1] \in R)
          /\ Waiting(s, R) \in Seq(S) /\ Len(Waiting(s, R)) = Len(s) - d
          /\ \A i \in 1..(Len(s) - d) : Waiting(s, R)[i] = s[i + d] /\ s[i + d] \notin R
<1>0. Len(s) \in Nat
  BY LenProperties
<1>1. CASE s # <<>> /\ Head(s) \in R
  BY <1>0, <1>1, Behind DEF Waiting, Orderly
<1>2. CASE s = <<>>
  BY <1>0, <1>2, EmptySeq DEF Waiting
<1>3. CASE s # <<>> /\ Head(s) \notin R
  BY <1>0, <1>3, Behind DEF Waiting, Orderly
<1> QED
  BY <1>1, <1>2, <1>3

\* Dropping the n oldest files of s gives up the m oldest that wait.
GivesUp(s, R, E, n, m) ==
  /\ Waiting(SubSeq(s, n + 1, Len(s)), R)
       = SubSeq(Waiting(s, R), m + 1, Len(Waiting(s, R)))
  /\ (E \cup Items(SubSeq(s, 1, n))) \ R
       = (E \ R) \cup Items(SubSeq(Waiting(s, R), 1, m))

LEMMA WaitingRest ==
  ASSUME NEW S, NEW s \in Seq(S), NEW R, NEW E, NEW n \in 0..Len(s), Orderly(s, R)
  PROVE \E m \in 0..Len(Waiting(s, R)) : GivesUp(s, R, E, n, m)
<1> DEFINE w == Waiting(s, R)
           k == SubSeq(s, n + 1, Len(s))
<1>0. Len(s) \in Nat /\ w \in Seq(S) /\ Len(w) \in Nat
  BY LenProperties, WaitingFacts
<1>1. PICK d \in {0, 1} :
        /\ d <= Len(s) /\ (d = 1 => s[1] \in R)
        /\ w \in Seq(S) /\ Len(w) = Len(s) - d
        /\ \A i \in 1..(Len(s) - d) : w[i] = s[i + d] /\ s[i + d] \notin R
  BY WaitingFacts
<1>2. /\ k \in Seq(S) /\ Len(k) = Len(s) - n
      /\ \A i \in 1..(Len(s) - n) : k[i] = s[n + i]
      /\ Items(SubSeq(s, 1, n)) = {s[i] : i \in 1..n}
  BY Rest
<1>3. Orderly(k, R)
  BY <1>0, <1>2 DEF Orderly
<1>4. PICK c \in {0, 1} :
        /\ c <= Len(k) /\ (c = 1 => k[1] \in R)
        /\ Waiting(k, R) \in Seq(S) /\ Len(Waiting(k, R)) = Len(k) - c
        /\ \A i \in 1..(Len(k) - c) : Waiting(k, R)[i] = k[i + c] /\ k[i + c] \notin R
  BY <1>2, <1>3, WaitingFacts
<1> DEFINE m == IF n = 0 THEN 0 ELSE n - d
<1>5. m \in 0..Len(w)
  BY <1>0, <1>1
<1>6. /\ SubSeq(w, m + 1, Len(w)) \in Seq(S)
      /\ Len(SubSeq(w, m + 1, Len(w))) = Len(w) - m
      /\ \A i \in 1..(Len(w) - m) : SubSeq(w, m + 1, Len(w))[i] = w[m + i]
      /\ Items(SubSeq(w, 1, m)) = {w[i] : i \in 1..m}
  <2>1. w \in Seq(S) /\ m \in 0..Len(w)
    BY <1>1, <1>5
  <2> HIDE DEF w, m
  <2> QED
    BY ONLY <2>1, Rest
<1>7. CASE n = 0
  <2>1. /\ k = s /\ m = 0
    <3>1. Len(k) = Len(s) /\ \A i \in 1..Len(s) : k[i] = s[i]
      BY <1>0, <1>2, <1>7
    <3> QED
      BY <3>1, <1>2, <1>7, SeqEqual
  <2>2. SubSeq(w, m + 1, Len(w)) = w
    BY <2>1, <1>0, SubSeqFull
  <2>3. Items(SubSeq(s, 1, n)) = {} /\ Items(SubSeq(w, 1, m)) = {}
    BY <2>1, <1>2, <1>6, <1>7
  <2>4. GivesUp(s, R, E, n, m)
    BY <2>1, <2>2, <2>3 DEF GivesUp
  <2> QED
    BY <2>4, <1>5
<1>8. CASE n > 0
  <2>1. c = 0
    BY <1>0, <1>1, <1>2, <1>4, <1>8 DEF Orderly
  <2>2. Waiting(k, R) = SubSeq(w, m + 1, Len(w))
    <3>1. Len(Waiting(k, R)) = Len(w) - m
      <4>1. Len(Waiting(k, R)) = Len(s) - n
        BY <1>0, <1>2, <1>4, <2>1
      <4> QED
        BY <4>1, <1>0, <1>1, <1>8
    <3>2. \A i \in 1..(Len(w) - m) : Waiting(k, R)[i] = s[n + i]
      BY <1>0, <1>1, <1>2, <1>4, <1>8, <2>1
    <3>3. ASSUME NEW i \in 1..(Len(w) - m) PROVE w[m + i] = s[n + i]
      <4>1. m + i \in 1..(Len(s) - d) /\ (m + i) + d = n + i
        BY <1>0, <1>1, <1>5, <1>8
      <4> QED
        BY <4>1, <1>1
    <3>4. \A i \in 1..Len(Waiting(k, R)) : Waiting(k, R)[i] = SubSeq(w, m + 1, Len(w))[i]
      <4> HIDE DEF w, k, m
      <4> QED
        BY <3>1, <3>2, <3>3, <1>6
    <3>5. Len(Waiting(k, R)) = Len(SubSeq(w, m + 1, Len(w)))
      BY <3>1, <1>6
    <3> HIDE DEF w, k, m
    <3> QED
      BY <3>4, <3>5, <1>4, <1>6, SeqEqual
  <2>3. {s[i] : i \in 1..n} \ R = {w[i] : i \in 1..m}
    <3>1. ASSUME NEW i \in 1..n, s[i] \notin R PROVE s[i] \in {w[j] : j \in 1..m}
      <4>1. i - d \in 1..m
        BY <3>1, <1>0, <1>1, <1>8
      <4>2. i - d \in 1..(Len(s) - d) /\ (i - d) + d = i
        BY <4>1, <1>0, <1>1, <1>8
      <4>3. w[i - d] = s[i]
        BY <4>2, <1>1
      <4> QED
        BY <4>1, <4>3
    <3>2. ASSUME NEW i \in 1..m PROVE w[i] \in {s[j] : j \in 1..n} /\ w[i] \notin R
      <4>1. i + d \in 1..n /\ i \in 1..(Len(s) - d)
        BY <1>0, <1>1, <1>8
      <4>2. w[i] = s[i + d] /\ w[i] \notin R
        BY <4>1, <1>1
      <4> QED
        BY <4>1, <4>2
    <3> HIDE DEF w, m
    <3> QED
      BY <3>1, <3>2
  <2>4. GivesUp(s, R, E, n, m)
    BY <2>2, <2>3, <1>2, <1>6 DEF GivesUp
  <2> QED
    BY <2>4, <1>5
<1> QED
  BY <1>7, <1>8

\* A new publication waits last.
LEMMA WaitingAppend ==
  ASSUME NEW S, NEW s \in Seq(S), NEW R, NEW p \in S, p \notin R
  PROVE Waiting(Append(s, p), R) = Append(Waiting(s, R), p)
<1>1. CASE s = <<>>
  <2>1. Head(Append(s, p)) = p
    BY <1>1, HeadTailAppend
  <2> QED
    BY <2>1, <1>1 DEF Waiting
<1>2. CASE s # <<>>
  <2>1. /\ Append(s, p) # <<>>
        /\ Head(Append(s, p)) = Head(s) /\ Tail(Append(s, p)) = Append(Tail(s), p)
    BY <1>2, HeadTailAppend, AppendProperties
  <2> QED
    BY <2>1, <1>2 DEF Waiting
<1> QED
  BY <1>1, <1>2

-----------------------------------------------------------------------------
(* What the server does to requests and receipts.                          *)

Pending == {"sent", "committed", "reloading"}

\* Request q alone moves, and only as far as a turn of the server takes it.
Moves(q) ==
  /\ Shape'
  /\ \A r \in Request \ {q} : request'[r] = request[r]
  /\ request'[q].stage # "sent"
  /\ request'[q].stage \in Pending => request'[q].pub = request[q].pub
  /\ \/ /\ receipts' = receipts
        /\ request'[q].stage \in Pending \cup {"accepted"} =>
             request[q].stage \in {"committed", "reloading"}
     \/ /\ request[q].stage = "sent"
        /\ receipts' = receipts \cup {request[q].pub}
        /\ request'[q].stage \in {"committed", "failed"}

LEMMA FailsMoves ==
  ASSUME Shape, NEW q \in Request, Server!Fails(q)
  PROVE /\ Shape'
        /\ \A r \in Request \ {q} : request'[r] = request[r]
        /\ request'[q].stage = "failed"
  BY DEF Shape, Field, Server!Fails, Server!Blank

LEMMA HandleMoves ==
  ASSUME Shape, NEW q \in Request, Server!Handle(q)
  PROVE Moves(q)
<1> DEFINE Set(r, s, n) == [request EXCEPT ![r].stage = s, ![r].notice = n]
<1>1. CASE Server!Transaction(q)
  <2>1. CASE Server!Fails(q) /\ receipts' = receipts
    BY <2>1, FailsMoves DEF Moves, Pending
  <2>2. CASE Server!Fails(q) /\ receipts' = receipts \cup {request[q].pub}
    BY <2>2, <1>1, FailsMoves DEF Moves, Pending, Server!Transaction
  <2>3. ASSUME NEW n, request' = [request EXCEPT ![q].stage = "committed", ![q].notice = n],
               receipts' = receipts \cup {request[q].pub}
        PROVE Moves(q)
    <3>1. request'[q] = [[request[q] EXCEPT !.stage = "committed"] EXCEPT !.notice = n]
      BY <2>3 DEF Shape
    <3>2. /\ request'[q].stage = "committed" /\ request'[q].pub = request[q].pub
          /\ DOMAIN request'[q] = Field
      BY <3>1 DEF Shape, Field
    <3> QED
      BY <1>1, <2>3, <3>2 DEF Moves, Pending, Shape, Server!Transaction
  <2> QED
    BY <1>1, <2>1, <2>2, <2>3 DEF Server!Transaction, Server!storeVars
<1>2. CASE Server!TransactionFails(q)
  BY <1>2, FailsMoves DEF Moves, Pending, Server!TransactionFails, Server!storeVars
<1>3. CASE Server!Refresh(q)
  BY <1>3 DEF Moves, Pending, Shape, Field, Server!Refresh, Server!storeVars
<1>4. ASSUME NEW part \in Server!Part, Server!Read(q, part)
      PROVE Moves(q)
  BY <1>4 DEF Moves, Pending, Shape, Field, Server!Read, Server!MyTurn, Server!storeVars
<1>5. CASE Server!Reloaded(q)
  BY <1>5 DEF Moves, Pending, Shape, Field, Server!Reloaded, Server!MyTurn, Server!Blank,
              Server!storeVars
<1>6. CASE Server!ReloadFails(q)
  BY <1>6, FailsMoves DEF Moves, Pending, Server!ReloadFails, Server!storeVars
<1> QED
  BY <1>1, <1>2, <1>3, <1>4, <1>5, <1>6 DEF Server!Handle

\* A crash fails what was pending and leaves the rest.
LEMMA CrashMoves ==
  ASSUME Shape, Server!Crash
  PROVE /\ Shape' /\ receipts' = receipts
        /\ \A q \in Request : request'[q].stage \notin Pending
        /\ \A q \in Request : request'[q].stage = "accepted" => request[q].stage = "accepted"
  BY DEF Shape, Field, Pending, Server!Crash, Server!Blank, Server!Answered, Server!storeVars

LEMMA SendMoves ==
  ASSUME Shape, NEW q \in Request, NEW p, Server!Send(q, p)
  PROVE /\ Shape' /\ receipts' = receipts
        /\ \A r \in Request \ {q} : request'[r] = request[r]
        /\ request'[q].stage = "sent" /\ request'[q].pub = p
  BY DEF Shape, Field, Server!Send, Server!Blank, Server!storeVars

-----------------------------------------------------------------------------
(* The invariant.                                                          *)

LEMMA InvInit == Init => IInv
<1> SUFFICES ASSUME Init PROVE IInv
  OBVIOUS
<1>1. Shape
  BY DEF Init, Server!Init, Server!Idle, Server!Blank, Shape, Field
<1>2. \A q \in Request : request[q].stage = "idle"
  BY DEF Init, Server!Init, Server!Idle, Server!Blank
<1>3. OutboxInv
  <2>1. outbox = <<>> /\ receipts = {} /\ offered = {} /\ expired = {}
    BY DEF Init, AgentInit, Server!Init
  <2> QED
    BY <2>1, EmptySeq DEF OutboxInv
<1> QED
  BY <1>1, <1>2, <1>3 DEF Init, AgentInit, IInv, SendingInv, SlotInv, RequestInv

\* A scan of the directory drops a prefix, and what was dropped has expired.
LEMMA ScanStep ==
  ASSUME OutboxInv, RequestInv, NEW n \in 0..Len(outbox)
  PROVE LET k == Kept(n) IN
        /\ k \in Seq(Publication)
        /\ \A i, j \in 1..Len(k) : k[i] = k[j] => i = j
        /\ \A i \in 1..Len(k) : k[i] \in offered \ (expired \cup Dropped(n))
        /\ \A i \in 2..Len(k) : k[i] \notin receipts
        /\ expired \cup Dropped(n) \subseteq offered
        /\ \A q \in Request : request[q].stage = "sent" =>
             /\ request[q].pub \in Items(k) \cup (expired \cup Dropped(n)) \cup receipts
             /\ \A i \in 2..Len(k) : k[i] # request[q].pub
<1> DEFINE k == Kept(n)
<1>0. outbox \in Seq(Publication) /\ Len(outbox) \in Nat
  BY LenProperties DEF OutboxInv
<1>1. /\ k \in Seq(Publication) /\ Len(k) = Len(outbox) - n
      /\ \A i \in 1..(Len(outbox) - n) : k[i] = outbox[n + i]
      /\ Dropped(n) = {outbox[i] : i \in 1..n}
  BY <1>0, Rest DEF Kept, Dropped
<1> HIDE DEF k
<1>2. \A i \in 1..Len(k) : n + i \in 1..Len(outbox) /\ k[i] = outbox[n + i]
  BY <1>0, <1>1
<1>3. \A i, j \in 1..Len(k) : k[i] = k[j] => i = j
  <2> SUFFICES ASSUME NEW i \in 1..Len(k), NEW j \in 1..Len(k), k[i] = k[j] PROVE i = j
    OBVIOUS
  <2>1. outbox[n + i] = outbox[n + j] /\ n + i \in 1..Len(outbox) /\ n + j \in 1..Len(outbox)
    BY <1>2
  <2>2. n + i = n + j
    BY <2>1 DEF OutboxInv
  <2> QED
    BY <1>0, <1>1, <2>2
<1>4. \A i \in 1..Len(k) : k[i] \in offered \ (expired \cup Dropped(n))
  <2> SUFFICES ASSUME NEW i \in 1..Len(k)
               PROVE k[i] \in offered \ (expired \cup Dropped(n))
    OBVIOUS
  <2>1. n + i \in 1..Len(outbox) /\ k[i] = outbox[n + i]
    BY <1>2
  <2>2. \A d \in 1..n : d \in 1..Len(outbox) /\ d # n + i
    BY <1>0, <1>1
  <2>3. outbox[n + i] \in offered \ expired /\ \A d \in 1..n : outbox[d] # outbox[n + i]
    BY <2>1, <2>2 DEF OutboxInv
  <2> QED
    BY <1>1, <2>1, <2>3
<1>5. \A i \in 2..Len(k) : i \in 1..Len(k) /\ n + i \in 2..Len(outbox)
  BY <1>0, <1>1
<1>6. \A i \in 2..Len(k) : k[i] \notin receipts
  BY <1>2, <1>5 DEF OutboxInv
<1>7. expired \cup Dropped(n) \subseteq offered
  BY <1>0, <1>1 DEF OutboxInv
<1>8. Items(outbox) \subseteq Items(k) \cup Dropped(n)
  <2>1. ASSUME NEW i \in 1..Len(outbox), i \notin 1..n
        PROVE i - n \in 1..Len(k) /\ k[i - n] = outbox[i]
    BY <2>1, <1>0, <1>1
  <2> QED
    BY <2>1, <1>1 DEF Items
<1>9. ASSUME NEW q \in Request, request[q].stage = "sent"
      PROVE /\ request[q].pub \in Items(k) \cup (expired \cup Dropped(n)) \cup receipts
            /\ \A i \in 2..Len(k) : k[i] # request[q].pub
  BY <1>9, <1>2, <1>5, <1>8 DEF RequestInv
<1> QED
  BY <1>1, <1>3, <1>4, <1>6, <1>7, <1>9 DEF k

LEMMA OfferStep ==
  ASSUME IInv, NEW p \in Publication, Offer(p)
  PROVE IInv'
<1>1. PICK n \in 0..Len(outbox) : Accept(p, n)
  BY DEF Offer, Ages
<1> DEFINE k == Kept(n)
           x == expired \cup Dropped(n)
<1>2. /\ k \in Seq(Publication)
      /\ \A i, j \in 1..Len(k) : k[i] = k[j] => i = j
      /\ \A i \in 1..Len(k) : k[i] \in offered \ x
      /\ \A i \in 2..Len(k) : k[i] \notin receipts
      /\ x \subseteq offered
      /\ \A q \in Request : request[q].stage = "sent" =>
           /\ request[q].pub \in Items(k) \cup x \cup receipts
           /\ \A i \in 2..Len(k) : k[i] # request[q].pub
  BY ScanStep DEF IInv
<1>3. /\ UNCHANGED <<request, receipts, slot, posting, sending, batch>>
      /\ ~ sending /\ p \notin offered
      /\ offered' = offered \cup {p} /\ expired' = x
      /\ outbox' = Append(k, p) \/ outbox' = k
  BY <1>1 DEF Accept, Offer, serverVars
<1> HIDE DEF k, x
<1>4. CASE outbox' = k
  BY <1>2, <1>3, <1>4 DEF IInv, Shape, OutboxInv, SendingInv, SlotInv, RequestInv
<1>5. CASE outbox' = Append(k, p)
  <2>1. /\ outbox' \in Seq(Publication) /\ Len(outbox') = Len(k) + 1 /\ Len(k) \in Nat
        /\ \A i \in 1..Len(k) : outbox'[i] = k[i]
        /\ outbox'[Len(k) + 1] = p
    BY <1>2, <1>5, AppendProperties, LenProperties
  <2>2. Items(k) \subseteq Items(outbox')
    BY <2>1 DEF Items
  <2>3. Items(k) \subseteq offered
    BY <1>2 DEF Items
  <2>4. p \notin receipts /\ offered' \subseteq Publication
        /\ receipts' \subseteq offered' /\ expired' \subseteq offered'
    BY <1>2, <1>3 DEF IInv, OutboxInv
  <2>5. \A i \in 1..Len(outbox') : i \in 1..Len(k) \/ i = Len(k) + 1
    BY <2>1
  <2>6. OutboxInv'
    <3>1. ASSUME NEW i \in 1..Len(outbox'), NEW j \in 1..Len(outbox'), outbox'[i] = outbox'[j]
          PROVE i = j
      BY <3>1, <2>1, <2>5, <1>2, <1>3
    <3>2. ASSUME NEW i \in 1..Len(outbox') PROVE outbox'[i] \in offered' \ expired'
      BY <2>1, <2>5, <1>2, <1>3
    <3>3. ASSUME NEW i \in 2..Len(outbox') PROVE outbox'[i] \notin receipts'
      <4>1. i \in 2..Len(k) \/ i = Len(k) + 1
        BY <2>1
      <4> QED
        BY <4>1, <2>1, <2>4, <1>2, <1>3
    <3> QED
      BY <3>1, <3>2, <3>3, <2>1, <2>4 DEF OutboxInv
  <2>7. RequestInv'
    <3>1. ASSUME NEW q \in Request, request[q].stage = "sent", NEW i \in 2..Len(outbox')
          PROVE outbox'[i] # request[q].pub
      <4>1. i \in 2..Len(k) \/ i = Len(k) + 1
        BY <2>1
      <4>2. request[q].pub # p
        BY <3>1, <1>2, <1>3, <2>3 DEF IInv, OutboxInv
      <4> QED
        BY <4>1, <4>2, <2>1, <3>1, <1>2
    <3> QED
      BY <3>1, <2>2, <1>2, <1>3 DEF IInv, RequestInv
  <2> QED
    BY <2>6, <2>7, <1>3 DEF IInv, Shape, SendingInv, SlotInv
<1> QED
  BY <1>3, <1>4, <1>5

LEMMA StartStep ==
  ASSUME IInv, StartDelivery
  PROVE IInv'
<1>1. PICK n \in 0..Len(outbox) : Tick(n)
  BY DEF StartDelivery, Ages
<1>2. /\ UNCHANGED <<request, receipts, slot, posting, offered>>
      /\ ~ sending /\ outbox' = Kept(n) /\ batch' = Kept(n)
      /\ expired' = expired \cup Dropped(n)
  BY <1>1 DEF Tick, StartDelivery, serverVars
<1>3. OutboxInv' /\ RequestInv'
  BY <1>2, ScanStep DEF IInv, OutboxInv, RequestInv
<1> QED
  BY <1>2, <1>3 DEF IInv, Shape, SendingInv, SlotInv

\* While a delivery is under way the file it posts is the oldest one.
LEMMA HeadIsOldest ==
  ASSUME IInv, sending, batch # <<>>
  PROVE /\ outbox # <<>> /\ Head(batch) = outbox[1]
        /\ outbox \in Seq(Publication) /\ Len(outbox) \in Nat \ {0}
        /\ outbox[1] \in Publication
        /\ \A n \in 2..Len(outbox) : outbox[n] # outbox[1]
<1>1. batch = outbox /\ outbox \in Seq(Publication)
  BY DEF IInv, SendingInv, OutboxInv
<1>2. Len(outbox) \in Nat \ {0} /\ Head(batch) = outbox[1] /\ outbox[1] \in Publication
  BY <1>1, Behind, ElementOfSeq
<1> QED
  BY <1>1, <1>2 DEF IInv, OutboxInv

LEMMA ConnectStep ==
  ASSUME IInv, Connect
  PROVE IInv'
<1>1. PICK q \in Request : Server!Send(q, Head(batch)) /\ slot' = q
  BY DEF Connect
<1>2. /\ sending /\ batch # <<>> /\ posting' = Head(batch)
      /\ UNCHANGED <<outbox, sending, batch, offered, expired>>
  BY DEF Connect, Post
<1>3. /\ Shape' /\ receipts' = receipts
      /\ \A r \in Request \ {q} : request'[r] = request[r]
      /\ request'[q].stage = "sent" /\ request'[q].pub = Head(batch)
  BY <1>1, SendMoves DEF IInv
<1>4. /\ Head(batch) = outbox[1] /\ Len(outbox) \in Nat \ {0} /\ outbox[1] # None
      /\ \A n \in 2..Len(outbox) : outbox[n] # outbox[1]
  BY <1>2, HeadIsOldest, OutboxAssumption
<1>5. outbox[1] \in Items(outbox)
  BY <1>4 DEF Items
<1>6. RequestInv'
  BY <1>2, <1>3, <1>4, <1>5 DEF IInv, RequestInv
<1>7. SlotInv'
  BY <1>1, <1>2, <1>3, <1>4 DEF SlotInv
<1> QED
  BY <1>2, <1>3, <1>6, <1>7 DEF IInv, OutboxInv, SendingInv

LEMMA AnswerStep ==
  ASSUME IInv, AnswerArrives
  PROVE IInv'
<1>1. /\ sending /\ batch = outbox /\ outbox # <<>>
      /\ posting = Head(outbox) /\ posting \in receipts
      /\ outbox' = Unlinked(posting) /\ batch' = Tail(batch) /\ posting' = None
      /\ slot' = None
      /\ UNCHANGED <<request, receipts, sending, offered, expired>>
  BY DEF AnswerArrives, Delivered, IInv, SendingInv, SlotInv, serverVars
<1>2. outbox' = Tail(outbox)
  BY <1>1, UnlinkHead DEF IInv
<1>3. /\ outbox' \in Seq(Publication) /\ Len(outbox) \in Nat \ {0}
      /\ Len(outbox') = Len(outbox) - 1
      /\ \A i \in 1..Len(outbox') : i + 1 \in 2..Len(outbox) /\ outbox'[i] = outbox[i + 1]
      /\ outbox[1] \in receipts
  BY <1>1, <1>2, Behind DEF IInv, OutboxInv
<1>4. OutboxInv'
  <2>1. \A i \in 1..Len(outbox') : outbox'[i] \in offered \ expired /\ outbox'[i] \notin receipts
    BY <1>3 DEF IInv, OutboxInv
  <2>2. ASSUME NEW i \in 1..Len(outbox'), NEW j \in 1..Len(outbox'), outbox'[i] = outbox'[j]
        PROVE i = j
    <3>1. i + 1 = j + 1
      BY <2>2, <1>3 DEF IInv, OutboxInv
    <3> QED
      BY <3>1, <1>3
  <2>3. \A i \in 2..Len(outbox') : i \in 1..Len(outbox')
    BY <1>3
  <2> QED
    BY <1>1, <1>3, <2>1, <2>2, <2>3 DEF IInv, OutboxInv
<1>5. RequestInv'
  <2>1. Items(outbox) \subseteq Items(outbox') \cup receipts
    <3>1. ASSUME NEW i \in 1..Len(outbox), i # 1
          PROVE i - 1 \in 1..Len(outbox') /\ outbox'[i - 1] = outbox[i]
      BY <3>1, <1>3
    <3> QED
      BY <3>1, <1>3 DEF Items
  <2>2. \A i \in 2..Len(outbox') : i + 1 \in 2..Len(outbox) /\ outbox'[i] = outbox[i + 1]
    BY <1>3
  <2> QED
    BY <1>1, <2>1, <2>2 DEF IInv, RequestInv
<1> QED
  BY <1>1, <1>2, <1>4, <1>5 DEF IInv, Shape, SendingInv, SlotInv

\* A turn of the agent that leaves outbox and server alone: it posts what nobody
\* receives, or a delivery ends.
QuietTurn ==
  /\ UNCHANGED <<request, receipts, outbox, offered, expired>>
  /\ \/ UNCHANGED <<sending, batch, posting, slot>>
     \/ /\ sending /\ batch # <<>> /\ posting' = Head(batch) /\ slot' = None
        /\ UNCHANGED <<sending, batch>>
     \/ sending' = FALSE /\ posting' = None /\ slot' = None

LEMMA AgentIsQuiet ==
  ASSUME IInv,
         \/ Refused \/ FailureArrives \/ TimesOut \/ EndDelivery \/ Rested
         \/ StopAgent \/ AgentExits \/ AgentReturns
  PROVE QuietTurn
<1>1. CASE Refused
  BY <1>1 DEF QuietTurn, Refused, Post, serverVars
<1>2. CASE FailureArrives \/ TimesOut
  BY <1>2 DEF QuietTurn, FailureArrives, TimesOut, DeliveryFails, AfterFailure, serverVars
<1>3. CASE EndDelivery
  BY <1>3 DEF QuietTurn, EndDelivery, DeliveryEnds, IInv, SlotInv, serverVars
<1>4. CASE Rested \/ StopAgent \/ AgentReturns
  BY <1>4 DEF QuietTurn, Rested, RestEnds, StopAgent, Stop, AgentReturns, AgentRestart,
              serverVars
<1>5. CASE AgentExits
  BY <1>5 DEF QuietTurn, AgentExits, Exit, serverVars
<1> QED
  BY <1>1, <1>2, <1>3, <1>4, <1>5

LEMMA QuietStep ==
  ASSUME IInv, QuietTurn
  PROVE IInv'
<1>1. Shape' /\ OutboxInv' /\ RequestInv'
  BY DEF QuietTurn, IInv, Shape, OutboxInv, RequestInv
<1>2. SendingInv' /\ SlotInv'
  BY DEF QuietTurn, IInv, SendingInv, SlotInv
<1> QED
  BY <1>1, <1>2 DEF IInv

LEMMA HandleStep ==
  ASSUME IInv, NEW q \in Request, ServerHandles(q)
  PROVE IInv'
<1>1. Moves(q) /\ UNCHANGED <<agentVars, slot>>
  BY HandleMoves DEF ServerHandles, IInv
<1>2. Shape' /\ SendingInv'
  BY <1>1 DEF Moves, IInv, SendingInv, agentVars
<1>3. /\ receipts \subseteq receipts'
      /\ request[q].stage = "sent" /\ receipts' # receipts =>
           receipts' = receipts \cup {request[q].pub}
      /\ request[q].stage # "sent" => receipts' = receipts
  BY <1>1 DEF Moves
<1>4. OutboxInv'
  <2>1. \A n \in 2..Len(outbox) : outbox[n] \notin receipts'
    BY <1>3 DEF IInv, OutboxInv, RequestInv
  <2>2. receipts' \subseteq offered
    <3>1. Items(outbox) \subseteq offered
      BY DEF IInv, OutboxInv, Items
    <3> QED
      BY <3>1, <1>3 DEF IInv, OutboxInv, RequestInv
  <2> QED
    BY <1>1, <2>1, <2>2 DEF IInv, OutboxInv, agentVars
<1>5. RequestInv'
  <2>1. ASSUME NEW r \in Request, request'[r].stage = "sent"
        PROVE /\ request'[r].pub \in Items(outbox') \cup expired' \cup receipts'
              /\ \A n \in 2..Len(outbox') : outbox'[n] # request'[r].pub
    BY <2>1, <1>1, <1>3 DEF Moves, IInv, RequestInv, agentVars
  <2>2. ASSUME NEW r \in Request, request'[r].stage \in {"committed", "reloading"}
        PROVE request'[r].pub \in receipts'
    BY <2>2, <1>1, <1>3 DEF Moves, Pending, IInv, RequestInv
  <2> QED
    BY <2>1, <2>2 DEF RequestInv
<1>6. SlotInv'
  <2>1. CASE slot = None
    BY <1>1, <2>1 DEF SlotInv
  <2>2. CASE slot # None /\ slot # q
    BY <1>1, <1>3, <2>2 DEF Moves, IInv, SlotInv, agentVars
  <2>3. CASE slot # None /\ slot = q
    BY <1>1, <1>3, <2>3 DEF Moves, Pending, IInv, SlotInv, RequestInv, agentVars
  <2> QED
    BY <2>1, <2>2, <2>3
<1> QED
  BY <1>2, <1>4, <1>5, <1>6 DEF IInv

LEMMA ServerProcessStep ==
  ASSUME IInv, ServerCrashes \/ ServerReturns
  PROVE IInv'
<1>1. CASE ServerCrashes
  <2>1. /\ Shape' /\ receipts' = receipts /\ UNCHANGED <<agentVars, slot>>
        /\ \A q \in Request : request'[q].stage \notin Pending
        /\ \A q \in Request : request'[q].stage = "accepted" => request[q].stage = "accepted"
    BY <1>1, CrashMoves DEF ServerCrashes, IInv
  <2> QED
    BY <2>1 DEF Pending, IInv, OutboxInv, SendingInv, SlotInv, RequestInv, agentVars
<1>2. CASE ServerReturns
  <2>1. UNCHANGED <<request, receipts, agentVars, slot>>
    BY <1>2 DEF ServerReturns, Server!Restart, Server!storeVars
  <2> QED
    BY <2>1 DEF IInv, Shape, OutboxInv, SendingInv, SlotInv, RequestInv, agentVars
<1> QED
  BY <1>1, <1>2

LEMMA InvStep == IInv /\ [Next]_vars => IInv'
<1> SUFFICES ASSUME IInv, [Next]_vars PROVE IInv'
  OBVIOUS
<1>1. CASE UNCHANGED vars
  BY <1>1 DEF vars, agentVars, serverVars, IInv, Shape, OutboxInv, SendingInv, SlotInv,
              RequestInv
<1>2. ASSUME NEW p \in Publication, Offer(p) PROVE IInv'
  BY <1>2, OfferStep
<1>3. CASE StartDelivery
  BY <1>3, StartStep
<1>4. CASE Connect
  BY <1>4, ConnectStep
<1>5. CASE AnswerArrives
  BY <1>5, AnswerStep
<1>6. CASE \/ Refused \/ FailureArrives \/ TimesOut \/ EndDelivery \/ Rested
           \/ StopAgent \/ AgentExits \/ AgentReturns
  BY <1>6, AgentIsQuiet, QuietStep
<1>7. ASSUME NEW q \in Request, ServerHandles(q) PROVE IInv'
  BY <1>7, HandleStep
<1>8. CASE ServerCrashes \/ ServerReturns
  BY <1>8, ServerProcessStep
<1> QED
  BY <1>1, <1>2, <1>3, <1>4, <1>5, <1>6, <1>7, <1>8 DEF Next, AgentStep

\* At most the oldest file of the outbox is stored, no file is there twice, and
\* what the server still works on is no file behind the oldest.
THEOREM Invariant == Spec => []IInv
  BY InvInit, InvStep, PTL DEF Spec

-----------------------------------------------------------------------------
(* The pair implements Delivery.                                           *)

LEMMA UnstoredIsWaiting == Unstored = Waiting(outbox, receipts)
  BY DEF Unstored, Waiting

LEMMA OutboxIsOrderly ==
  ASSUME IInv
  PROVE Orderly(outbox, receipts) /\ outbox \in Seq(Publication)
  BY DEF IInv, OutboxInv, Orderly

\* A scan gives up the oldest of what waits.
LEMMA ScanGivesUp ==
  ASSUME IInv, NEW n \in 0..Len(outbox)
  PROVE \E m \in 0..Len(Unstored) :
          /\ Waiting(Kept(n), receipts) = Promise!Retain(m)
          /\ (expired \cup Dropped(n)) \ receipts
               = (expired \ receipts) \cup Promise!Elements(SubSeq(Unstored, 1, m))
<1>1. PICK m \in 0..Len(Waiting(outbox, receipts)) : GivesUp(outbox, receipts, expired, n, m)
  BY OutboxIsOrderly, WaitingRest
<1>2. \A i : /\ Promise!Retain(i) = SubSeq(Unstored, i + 1, Len(Unstored))
             /\ Promise!Elements(SubSeq(Unstored, 1, i)) = Items(SubSeq(Unstored, 1, i))
  BY DEF Promise!Retain, Promise!Elements, Items
<1> QED
  BY <1>1, <1>2, UnstoredIsWaiting DEF GivesUp, Kept, Dropped

\* What was given up without a new file is an expiry, or nothing at all.
LEMMA GivenUpIsExpire ==
  ASSUME IInv, NEW n \in 0..Len(outbox), outbox' = Kept(n), receipts' = receipts,
         expired' = expired \cup Dropped(n)
  PROVE [Promise!Next]_(Promise!vars)
<1>1. PICK m \in 0..Len(Unstored) :
        /\ Waiting(Kept(n), receipts) = Promise!Retain(m)
        /\ (expired \cup Dropped(n)) \ receipts
             = (expired \ receipts) \cup Promise!Elements(SubSeq(Unstored, 1, m))
  BY ScanGivesUp
<1>2. Unstored' = Promise!Retain(m) /\ Promise!GiveUp(m)
  BY <1>1 DEF Unstored, Waiting, Promise!GiveUp
<1>3. Unstored \in Seq(Publication) /\ Len(Unstored) \in Nat
  BY OutboxIsOrderly, UnstoredIsWaiting, WaitingFacts, LenProperties
<1>4. CASE m = 0
  <2>1. Promise!Retain(0) = Unstored
    BY <1>3, SubSeqFull DEF Promise!Retain
  <2>2. Promise!Elements(SubSeq(Unstored, 1, 0)) = {}
    BY <1>3, SubSeqEmpty, EmptySeq DEF Promise!Elements
  <2> QED
    BY <1>2, <1>4, <2>1, <2>2 DEF Promise!vars, Promise!GiveUp
<1>5. CASE m # 0
  <2>1. m \in 1..Len(Unstored)
    BY <1>3, <1>5
  <2> QED
    BY <1>2, <2>1 DEF Promise!Next, Promise!Expire
<1> QED
  BY <1>4, <1>5

LEMMA OfferImplements ==
  ASSUME IInv, NEW p \in Publication, Offer(p)
  PROVE [Promise!Next]_(Promise!vars)
<1>1. PICK n \in 0..Len(outbox) : Accept(p, n)
  BY DEF Offer, Ages
<1>2. /\ receipts' = receipts /\ p \notin offered
      /\ expired' = expired \cup Dropped(n)
      /\ outbox' = Append(Kept(n), p) \/ outbox' = Kept(n)
  BY <1>1 DEF Accept, Offer, serverVars
<1>3. CASE outbox' = Kept(n)
  BY <1>2, <1>3, GivenUpIsExpire
<1>4. CASE outbox' = Append(Kept(n), p)
  <2>1. PICK m \in 0..Len(Unstored) :
          /\ Waiting(Kept(n), receipts) = Promise!Retain(m)
          /\ (expired \cup Dropped(n)) \ receipts
               = (expired \ receipts) \cup Promise!Elements(SubSeq(Unstored, 1, m))
    BY ScanGivesUp
  <2>2. Kept(n) \in Seq(Publication)
    BY ScanStep DEF IInv
  <2>3. p \notin receipts /\ p \notin expired
    BY <1>2 DEF IInv, OutboxInv
  <2>4. Unstored' = Append(Promise!Retain(m), p)
    <3>1. Unstored' = Waiting(Append(Kept(n), p), receipts)
      BY <1>2, <1>4 DEF Unstored, Waiting
    <3> QED
      BY <3>1, <2>1, <2>2, <2>3, WaitingAppend
  <2>5. p \notin Promise!Elements(Unstored)
    <3>1. PICK d \in {0, 1} :
            /\ d <= Len(outbox) /\ Len(Unstored) = Len(outbox) - d
            /\ \A i \in 1..(Len(outbox) - d) : Unstored[i] = outbox[i + d]
      BY OutboxIsOrderly, UnstoredIsWaiting, WaitingFacts
    <3>2. Len(outbox) \in Nat
      BY OutboxIsOrderly, LenProperties
    <3>3. \A i \in 1..Len(Unstored) : i + d \in 1..Len(outbox) /\ Unstored[i] = outbox[i + d]
      BY <3>1, <3>2
    <3> QED
      BY <3>3, <1>2 DEF Promise!Elements, IInv, OutboxInv
  <2> QED
    BY <1>2, <2>1, <2>3, <2>4, <2>5 DEF Promise!Next, Promise!Accept, Promise!GiveUp
<1> QED
  BY <1>2, <1>3, <1>4

\* The answer to a stored file: it no longer waited.
LEMMA AnswerImplements ==
  ASSUME IInv, AnswerArrives
  PROVE UNCHANGED Promise!vars
<1>1. /\ outbox # <<>> /\ Head(outbox) \in receipts /\ outbox' = Tail(outbox)
      /\ receipts' = receipts /\ expired' = expired
  BY UnlinkHead DEF AnswerArrives, Delivered, IInv, SendingInv, SlotInv, serverVars
<1>2. outbox' # <<>> => Head(outbox') \notin receipts
  <2>1. outbox \in Seq(Publication) /\ Tail(outbox) \in Seq(Publication)
    BY <1>1, OutboxIsOrderly, Behind
  <2>2. Tail(outbox) # <<>> => Head(Tail(outbox)) = outbox[2] /\ 2 \in 2..Len(outbox)
    BY <1>1, <2>1, Behind
  <2> QED
    BY <1>1, <2>2 DEF IInv, OutboxInv
<1> QED
  BY <1>1, <1>2 DEF Unstored, Promise!vars

\* The transaction stores the oldest of what waits, or something late, or repeats.
LEMMA HandleImplements ==
  ASSUME IInv, NEW q \in Request, ServerHandles(q)
  PROVE [Promise!Next]_(Promise!vars)
<1>1. UNCHANGED <<outbox, expired>> /\ Moves(q)
  BY HandleMoves DEF ServerHandles, agentVars, IInv
<1>2. CASE receipts' = receipts
  BY <1>1, <1>2 DEF Promise!vars, Unstored
<1>3. CASE receipts' # receipts
  <2> DEFINE p == request[q].pub
  <2>1. /\ receipts' = receipts \cup {p} /\ p \notin receipts
        /\ p \in Items(outbox) \cup expired
        /\ \A n \in 2..Len(outbox) : outbox[n] # p
    BY <1>1, <1>3 DEF Moves, IInv, RequestInv
  <2>2. outbox \in Seq(Publication)
    BY OutboxIsOrderly
  <2>3. CASE p \in Items(outbox)
    <3>1. outbox # <<>> /\ Head(outbox) = p
      <4>1. PICK n \in 1..Len(outbox) : outbox[n] = p
        BY <2>3 DEF Items
      <4>2. n = 1 /\ outbox # <<>>
        BY <4>1, <2>1, <2>2, LenProperties, EmptySeq
      <4> QED
        BY <4>1, <4>2, <2>2, Behind
    <3>2. Unstored = outbox /\ Unstored' = Tail(outbox)
      BY <3>1, <1>1, <2>1 DEF Unstored
    <3>3. p \notin expired
      BY <2>3 DEF Items, IInv, OutboxInv
    <3> QED
      BY <1>1, <2>1, <3>1, <3>2, <3>3 DEF Promise!Next, Promise!Store
  <2>4. CASE p \notin Items(outbox)
    <3>1. outbox # <<>> => Head(outbox) # p
      BY <2>2, <2>4, Behind DEF Items
    <3>2. Unstored' = Unstored
      BY <3>1, <1>1, <2>1 DEF Unstored
    <3>3. p \in expired \ receipts /\ p \in Publication
      BY <2>1, <2>4 DEF IInv, OutboxInv
    <3> QED
      BY <1>1, <2>1, <3>2, <3>3 DEF Promise!Next, Promise!StoreLate
  <2> QED
    BY <2>3, <2>4
<1> QED
  BY <1>2, <1>3

LEMMA NextImplements == IInv /\ [Next]_vars => [Promise!Next]_(Promise!vars)
<1> SUFFICES ASSUME IInv, [Next]_vars PROVE [Promise!Next]_(Promise!vars)
  OBVIOUS
<1>0. ASSUME UNCHANGED <<outbox, receipts, expired>> PROVE UNCHANGED Promise!vars
  BY <1>0 DEF Promise!vars, Unstored
<1>1. CASE UNCHANGED vars
  BY <1>0, <1>1 DEF vars, agentVars, serverVars
<1>2. ASSUME NEW p \in Publication, Offer(p) PROVE [Promise!Next]_(Promise!vars)
  BY <1>2, OfferImplements
<1>3. CASE StartDelivery
  <2>1. PICK n \in 0..Len(outbox) : Tick(n)
    BY <1>3 DEF StartDelivery, Ages
  <2> QED
    BY <1>3, <2>1, GivenUpIsExpire DEF StartDelivery, Tick, serverVars
<1>4. CASE Connect
  BY <1>0, <1>4, SendMoves DEF Connect, Post, IInv
<1>5. CASE AnswerArrives
  BY <1>5, AnswerImplements
<1>6. CASE \/ Refused \/ FailureArrives \/ TimesOut \/ EndDelivery \/ Rested
           \/ StopAgent \/ AgentExits \/ AgentReturns
  BY <1>0, <1>6, AgentIsQuiet DEF QuietTurn
<1>7. ASSUME NEW q \in Request, ServerHandles(q) PROVE [Promise!Next]_(Promise!vars)
  BY <1>7, HandleImplements
<1>8. CASE ServerCrashes \/ ServerReturns
  BY <1>0, <1>8 DEF ServerCrashes, ServerReturns, Server!Crash, Server!Restart,
                    Server!storeVars, agentVars
<1> QED
  BY <1>1, <1>2, <1>3, <1>4, <1>5, <1>6, <1>7, <1>8 DEF Next, AgentStep

\* docs/RUNTIMES.md: the agent and the server implement Delivery.  Every accepted
\* publication is stored once, in the order of acceptance, through retries,
\* timeouts, orphaned requests, crashes and restarts of either side; only
\* retention gives up publications, the oldest first.
THEOREM ImplementsDelivery == Spec => DeliverySpec
<1>1. Init => Promise!Init
  BY DEF Init, AgentInit, Server!Init, Promise!Init, Unstored
<1>2. Spec => Promise!Init /\ [][Promise!Next]_(Promise!vars)
  BY <1>1, NextImplements, Invariant, PTL DEF Spec
<1> QED
  BY <1>2 DEF DeliverySpec, Promise!Spec

\* The server of the composition is ServerIngestion: what is proved of the one in
\* ServerIngestionProofs holds of the other, whatever the agent posts.
THEOREM ImplementsServer == Spec => Server!Spec
<1>1. Init => Server!Init
  BY DEF Init
<1>2. IInv /\ [Next]_vars => [Server!Next]_(Server!vars)
  <2> SUFFICES ASSUME IInv, [Next]_vars PROVE [Server!Next]_(Server!vars)
    OBVIOUS
  <2>0. ASSUME UNCHANGED serverVars PROVE UNCHANGED Server!vars
    BY <2>0 DEF serverVars, Server!vars, Server!storeVars, Server!historyVars
  <2>1. CASE UNCHANGED vars
    BY <2>0, <2>1 DEF vars
  <2>2. ASSUME NEW p \in Publication, Offer(p) PROVE UNCHANGED serverVars
    BY <2>2 DEF Offer
  <2>3. CASE \/ StartDelivery \/ Refused \/ AnswerArrives \/ FailureArrives \/ TimesOut
             \/ EndDelivery \/ Rested \/ StopAgent \/ AgentExits \/ AgentReturns
    BY <2>0, <2>3 DEF StartDelivery, Refused, AnswerArrives, FailureArrives, TimesOut,
                      EndDelivery, Rested, StopAgent, AgentExits, AgentReturns
  <2>4. CASE Connect
    <3>1. PICK q \in Request : Server!Send(q, Head(batch))
      BY <2>4 DEF Connect
    <3>2. Head(batch) \in Publication
      BY <2>4, HeadIsOldest DEF Connect, Post
    <3> QED
      BY <3>1, <3>2 DEF Server!Next
  <2>5. ASSUME NEW q \in Request, ServerHandles(q) PROVE Server!Next
    BY <2>5 DEF ServerHandles, Server!Next
  <2>6. CASE ServerCrashes \/ ServerReturns
    BY <2>6 DEF ServerCrashes, ServerReturns, Server!Next
  <2> QED
    BY <2>0, <2>1, <2>2, <2>3, <2>4, <2>5, <2>6 DEF Next, AgentStep
<1> QED
  BY <1>1, <1>2, Invariant, PTL DEF Spec, Server!Spec
-----------------------------------------------------------------------------
(* The lists.  What is offered later precedes nothing offered before       *)
(* (ClosedInv), so the files of the outbox stand in the order of           *)
(* observation (OrderInv), and the one that is stored next precedes        *)
(* nothing that is stored (AheadInv), unless retention dropped a file      *)
(* which an orphaned request stores afterwards.  So a list that is stored  *)
(* finds no event seen later than itself (SeenInv), and clears every event *)
(* of the list before it that it does not have itself.                     *)

ClosedInv == \A p \in offered : InOrder(p)

OrderInv ==
  \A m, n \in 1..Len(outbox) : m < n => ~ Precedes(outbox[n], outbox[m])

AheadInv ==
  expired = {} =>
    \A n \in 1..Len(outbox) : outbox[n] \notin receipts =>
      \A r \in receipts : ~ Precedes(outbox[n], r)

ScopesInv ==
  /\ DOMAIN scopes = Scope
  /\ \A s \in Scope :
       scopes[s] # None => scopes[s] \in receipts /\ ScopeOf[scopes[s]] = s

SeenInv ==
  /\ rows \in [Event -> [seen : Nat, listed : BOOLEAN]]
  /\ \A e \in Event : rows[e].seen # 0 =>
       \E r \in receipts : e \in EventsIn[r] /\ At[r] = rows[e].seen

ListsInv ==
  ClosedInv /\ OrderInv /\ AheadInv /\ ScopesInv /\ SeenInv /\ ListedMatchesLatestList

LEMMA ListsInit == Init => ListsInv
<1> SUFFICES ASSUME Init PROVE ListsInv
  OBVIOUS
<1>1. /\ outbox = <<>> /\ Len(outbox) = 0 /\ offered = {} /\ receipts = {}
      /\ scopes = [s \in Scope |-> None]
      /\ rows = [e \in Event |-> [seen |-> 0, listed |-> FALSE]]
  BY EmptySeq DEF Init, AgentInit, Server!Init
<1>2. ListScope \subseteq Scope
  BY DeliveryAssumption DEF Server!IngestionAssumption
<1> QED
  BY <1>1, <1>2 DEF ListsInv, ClosedInv, OrderInv, AheadInv, ScopesInv, SeenInv,
                    ListedMatchesLatestList

\* The files left when the d oldest leave.
Leaves(d) ==
  /\ Len(outbox') = Len(outbox) - d
  /\ \A i \in 1..Len(outbox') : outbox'[i] = outbox[i + d]

LEMMA LeavesStep ==
  ASSUME IInv, ListsInv, NEW d \in 0..Len(outbox), Leaves(d),
         UNCHANGED <<receipts, offered, scopes, rows>>, expired \subseteq expired'
  PROVE ListsInv'
<1>1. Len(outbox) \in Nat
  BY LenProperties DEF IInv, OutboxInv
<1>2. \A i \in 1..Len(outbox') : i + d \in 1..Len(outbox) /\ outbox'[i] = outbox[i + d]
  BY <1>1 DEF Leaves
<1>3. ClosedInv' /\ ScopesInv' /\ SeenInv'
  BY DEF ListsInv, ClosedInv, InOrder, ScopesInv, SeenInv
<1>4. ListedMatchesLatestList'
  BY DEF ListsInv, ListedMatchesLatestList
<1>5. OrderInv'
  <2> SUFFICES ASSUME NEW m \in 1..Len(outbox'), NEW n \in 1..Len(outbox'), m < n
               PROVE ~ Precedes(outbox'[n], outbox'[m])
    BY DEF OrderInv, Precedes
  <2>1. m + d < n + d
    BY <1>1 DEF Leaves
  <2> QED
    BY <2>1, <1>2 DEF ListsInv, OrderInv
<1>6. AheadInv'
  BY <1>2 DEF ListsInv, AheadInv, Precedes
<1> QED
  BY <1>3, <1>4, <1>5, <1>6 DEF ListsInv

\* A scan.
LEMMA KeptLeaves ==
  ASSUME IInv, NEW n \in 0..Len(outbox)
  PROVE /\ Len(outbox) \in Nat
        /\ Kept(n) \in Seq(Publication) /\ Len(Kept(n)) = Len(outbox) - n
        /\ \A i \in 1..Len(Kept(n)) :
             n + i = i + n /\ i + n \in 1..Len(outbox) /\ Kept(n)[i] = outbox[i + n]
<1>1. outbox \in Seq(Publication) /\ Len(outbox) \in Nat
  BY LenProperties DEF IInv, OutboxInv
<1>2. /\ Kept(n) \in Seq(Publication) /\ Len(Kept(n)) = Len(outbox) - n
      /\ \A i \in 1..(Len(outbox) - n) : Kept(n)[i] = outbox[n + i]
  BY <1>1, Rest DEF Kept
<1>3. \A i \in 1..Len(Kept(n)) : n + i = i + n /\ i + n \in 1..Len(outbox)
  BY <1>1, <1>2
<1> QED
  BY <1>1, <1>2, <1>3

LEMMA OfferKeepsLists ==
  ASSUME IInv, ListsInv, NEW p \in Publication, Offer(p)
  PROVE ListsInv'
<1>1. PICK n \in 0..Len(outbox) : Accept(p, n)
  BY DEF Offer, Ages
<1> DEFINE k == Kept(n)
<1>2. /\ Len(outbox) \in Nat /\ Len(k) \in Nat
      /\ k \in Seq(Publication) /\ Len(k) = Len(outbox) - n
      /\ \A i \in 1..Len(k) : i + n \in 1..Len(outbox) /\ k[i] = outbox[i + n]
  BY KeptLeaves
<1>3. /\ UNCHANGED <<receipts, scopes, rows>>
      /\ p \notin offered /\ offered' = offered \cup {p}
      /\ expired \subseteq expired'
      /\ outbox' = Append(k, p) \/ outbox' = k
      /\ InOrder(p)
  BY <1>1 DEF Accept, Offer, serverVars
<1> HIDE DEF k
<1>4. /\ Len(outbox') \in {Len(k), Len(k) + 1}
      /\ \A i \in 1..Len(k) : outbox'[i] = k[i]
      /\ Len(outbox') = Len(k) + 1 => outbox'[Len(k) + 1] = p
  BY <1>2, <1>3, AppendProperties
<1>5. ASSUME NEW i \in 1..Len(outbox')
      PROVE \/ i + n \in 1..Len(outbox) /\ outbox'[i] = outbox[i + n]
            \/ i = Len(outbox') /\ outbox'[i] = p
  <2>1. i \in 1..Len(k) \/ (i = Len(k) + 1 /\ Len(outbox') = Len(k) + 1)
    BY <1>2, <1>4
  <2>2. CASE i \in 1..Len(k)
    BY <2>2, <1>2, <1>4
  <2>3. CASE i = Len(k) + 1 /\ Len(outbox') = Len(k) + 1
    BY <2>3, <1>4
  <2> QED
    BY <2>1, <2>2, <2>3
<1>6. \A r \in offered : ~ Precedes(p, r)
  BY <1>3 DEF ListsInv, ClosedInv, InOrder
<1>7. ClosedInv'
  BY <1>3 DEF ListsInv, ClosedInv, InOrder, Precedes
<1>8. \A i \in 1..Len(outbox) : outbox[i] \in offered
  BY DEF IInv, OutboxInv
<1>9. OrderInv'
  <2> SUFFICES ASSUME NEW i \in 1..Len(outbox'), NEW j \in 1..Len(outbox'), i < j
               PROVE ~ Precedes(outbox'[j], outbox'[i])
    BY DEF OrderInv, Precedes
  <2>1. i + n \in 1..Len(outbox) /\ outbox'[i] = outbox[i + n]
    BY <1>2, <1>4, <1>5
  <2>2. CASE outbox'[j] = p
    BY <2>1, <2>2, <1>6, <1>8
  <2>3. CASE j + n \in 1..Len(outbox) /\ outbox'[j] = outbox[j + n]
    <3>1. i + n < j + n
      BY <1>2, <1>4
    <3> QED
      BY <3>1, <2>1, <2>3 DEF ListsInv, OrderInv
  <2> QED
    BY <2>2, <2>3, <1>5
<1>10. AheadInv'
  <2>1. receipts \subseteq offered
    BY DEF IInv, OutboxInv
  <2> QED
    BY <2>1, <1>3, <1>5, <1>6 DEF ListsInv, AheadInv, Precedes
<1>11. ScopesInv' /\ SeenInv' /\ ListedMatchesLatestList'
  BY <1>3 DEF ListsInv, ScopesInv, SeenInv, ListedMatchesLatestList
<1> QED
  BY <1>7, <1>9, <1>10, <1>11 DEF ListsInv

\* A turn of the server writes nothing, or what its request carries and nobody
\* wrote before.
LEMMA StoreMoves ==
  ASSUME NEW q \in Request, Server!Handle(q)
  PROVE \/ UNCHANGED <<scopes, rows>>
        \/ /\ request[q].stage = "sent" /\ request[q].pub \notin receipts
           /\ receipts' = receipts \cup {request[q].pub}
           /\ Server!Write(request[q].pub)
<1>1. CASE Server!Transaction(q)
  BY <1>1 DEF Server!Transaction, Server!Repeated, Server!storeVars
<1>2. CASE ~ Server!Transaction(q)
  BY <1>2 DEF Server!Handle, Server!TransactionFails, Server!Refresh, Server!Read,
              Server!Reloaded, Server!ReloadFails, Server!storeVars
<1> QED
  BY <1>1, <1>2

\* What a publication does to a row.
LEMMA WriteRows ==
  ASSUME NEW p \in Publication, Server!Write(p), ScopesInv, SeenInv
  PROVE /\ DOMAIN scopes' = Scope /\ ScopeOf[p] \in Scope
        /\ \A s \in Scope : scopes'[s] = IF s = ScopeOf[p] THEN p ELSE scopes[s]
        /\ rows' \in [Event -> [seen : Nat, listed : BOOLEAN]]
        /\ \A e \in Event :
             /\ rows'[e].seen \in {rows[e].seen, IF e \in EventsIn[p] THEN At[p] ELSE rows[e].seen}
             /\ rows'[e].listed =
                  IF e \in EventsIn[p] THEN ScopeOf[p] \in ListScope \/ rows[e].listed
                  ELSE ~ (ScopeOf[p] \in ListScope /\ e \in Server!Missing(p)) /\ rows[e].listed
<1>1. ScopeOf[p] \in Scope /\ At[p] \in Nat
  BY DeliveryAssumption DEF Server!IngestionAssumption
<1>2. \A s \in Scope : scopes'[s] = IF s = ScopeOf[p] THEN p ELSE scopes[s]
  BY <1>1 DEF Server!Write, ScopesInv
<1>3. ASSUME NEW e \in Event
      PROVE /\ rows'[e] \in [seen : Nat, listed : BOOLEAN]
            /\ rows'[e].seen \in {rows[e].seen, IF e \in EventsIn[p] THEN At[p] ELSE rows[e].seen}
            /\ rows'[e].listed =
                 IF e \in EventsIn[p] THEN ScopeOf[p] \in ListScope \/ rows[e].listed
                 ELSE ~ (ScopeOf[p] \in ListScope /\ e \in Server!Missing(p)) /\ rows[e].listed
  <2>0. rows[e] \in [seen : Nat, listed : BOOLEAN]
    BY DEF SeenInv
  <2>1. CASE e \in EventsIn[p]
    <3>1. rows'[e] = [seen |-> Server!Seen(e, p),
                      listed |-> ScopeOf[p] \in ListScope \/ rows[e].listed]
      BY <2>1 DEF Server!Write
    <3> QED
      BY <3>1, <2>0, <2>1, <1>1 DEF Server!Seen
  <2>2. CASE e \notin EventsIn[p] /\ ScopeOf[p] \in ListScope /\ e \in Server!Missing(p)
    <3>1. rows'[e] = [rows[e] EXCEPT !.listed = FALSE]
      BY <2>2 DEF Server!Write
    <3> QED
      BY <3>1, <2>0, <2>2
  <2>3. CASE e \notin EventsIn[p] /\ ~ (ScopeOf[p] \in ListScope /\ e \in Server!Missing(p))
    <3>1. rows'[e] = rows[e]
      BY <2>3 DEF Server!Write
    <3> QED
      BY <3>1, <2>0, <2>3
  <2> QED
    BY <2>1, <2>2, <2>3
<1>4. rows' \in [Event -> [seen : Nat, listed : BOOLEAN]]
  <2>1. rows' = [e \in Event |-> rows'[e]]
    BY DEF Server!Write
  <2> QED
    BY <2>1, <1>3
<1>5. DOMAIN scopes' = Scope
  BY DEF Server!Write, ScopesInv
<1> QED
  BY <1>1, <1>2, <1>3, <1>4, <1>5

\* A list that precedes nothing stored makes the rows what it lists.
LEMMA WriteLists ==
  ASSUME IInv, ListsInv, expired = {}, NEW p \in Publication, Server!Write(p),
         \A r \in receipts : ~ Precedes(p, r),
         NEW e \in Event
  PROVE rows'[e].listed <=>
          \E s \in ListScope : scopes'[s] # None /\ e \in EventsIn[scopes'[s]]
<1>1. /\ ListScope \subseteq Scope /\ ScopeOf[p] \in Scope /\ p # None
      /\ \A r \in Publication : At[r] \in Nat \ {0}
      /\ receipts \subseteq Publication
  BY DeliveryAssumption DEF Server!IngestionAssumption, IInv, OutboxInv
<1>2. /\ \A s \in Scope : scopes'[s] = IF s = ScopeOf[p] THEN p ELSE scopes[s]
      /\ rows'[e].listed =
           IF e \in EventsIn[p] THEN ScopeOf[p] \in ListScope \/ rows[e].listed
           ELSE ~ (ScopeOf[p] \in ListScope /\ e \in Server!Missing(p)) /\ rows[e].listed
  BY WriteRows DEF ListsInv
<1>3. rows[e].listed <=>
        \E s \in ListScope : scopes[s] # None /\ e \in EventsIn[scopes[s]]
  BY DEF ListsInv, ListedMatchesLatestList
<1>4. CASE ScopeOf[p] \notin ListScope
  <2>1. \A s \in ListScope : scopes'[s] = scopes[s]
    BY <1>1, <1>2, <1>4
  <2> QED
    BY <2>1, <1>2, <1>3, <1>4
<1>5. CASE ScopeOf[p] \in ListScope /\ e \in EventsIn[p]
  BY <1>1, <1>2, <1>5
<1>6. CASE ScopeOf[p] \in ListScope /\ e \notin EventsIn[p]
  <2> DEFINE before == scopes[ScopeOf[p]]
  <2>1. CASE before # None /\ e \in EventsIn[before]
    <3>1. before \in Publication /\ ScopeOf[before] = ScopeOf[p]
      BY <2>1, <1>1 DEF ListsInv, ScopesInv
    <3>2. rows[e].seen <= At[p]
      <4>1. CASE rows[e].seen = 0
        BY <4>1, <1>1
      <4>2. CASE rows[e].seen # 0
        <5>1. PICK r \in receipts : e \in EventsIn[r] /\ At[r] = rows[e].seen
          BY <4>2 DEF ListsInv, SeenInv
        <5>2. ScopeOf[r] = ScopeOf[p] \/ ScopeOf[r] \notin ListScope
          BY <5>1, <3>1, <2>1, <1>1, <1>6, DeliveryAssumption
        <5>3. ~ (At[p] < At[r])
          BY <5>1, <5>2, <1>6 DEF Precedes
        <5> QED
          BY <5>1, <5>3, <1>1
      <4> QED
        BY <4>1, <4>2
    <3>3. e \in Server!Missing(p)
      BY <2>1, <3>2, <1>6 DEF Server!Missing
    <3>4. ASSUME NEW s \in ListScope, scopes'[s] # None, e \in EventsIn[scopes'[s]]
          PROVE FALSE
      <4>1. s # ScopeOf[p] /\ scopes[s] # None /\ e \in EventsIn[scopes[s]]
        BY <3>4, <1>1, <1>2, <1>6
      <4>2. scopes[s] \in Publication /\ ScopeOf[scopes[s]] = s
        BY <4>1, <1>1 DEF ListsInv, ScopesInv
      <4> QED
        BY <4>1, <4>2, <3>1, <2>1, <1>6, DeliveryAssumption
    <3> QED
      BY <3>3, <3>4, <1>2, <1>6
  <2>2. CASE before = None \/ e \notin EventsIn[before]
    <3>1. e \notin Server!Missing(p)
      BY <2>2 DEF Server!Missing
    <3>2. \A s \in ListScope : (scopes'[s] # None /\ e \in EventsIn[scopes'[s]])
                                 <=> (scopes[s] # None /\ e \in EventsIn[scopes[s]])
      BY <2>2, <1>1, <1>2, <1>6
    <3> QED
      BY <3>1, <3>2, <1>2, <1>3, <1>6
  <2> QED
    BY <2>1, <2>2
<1> QED
  BY <1>4, <1>5, <1>6

LEMMA HandleKeepsLists ==
  ASSUME IInv, ListsInv, NEW q \in Request, ServerHandles(q)
  PROVE ListsInv'
<1> DEFINE p == request[q].pub
<1>1. Moves(q) /\ UNCHANGED <<outbox, offered, expired>>
  BY HandleMoves DEF ServerHandles, IInv, agentVars
<1>2. CASE receipts' = receipts /\ UNCHANGED <<scopes, rows>>
  <2>1. Leaves(0) /\ 0 \in 0..Len(outbox)
    BY <1>1, LenProperties DEF Leaves, IInv, OutboxInv
  <2> QED
    BY <2>1, <1>1, <1>2, LeavesStep
<1>3. CASE receipts' # receipts
  <2>1. /\ request[q].stage = "sent" /\ p \notin receipts /\ receipts' = receipts \cup {p}
        /\ p \in Items(outbox) \cup expired \cup receipts
        /\ \A n \in 2..Len(outbox) : outbox[n] # p
    BY <1>1, <1>3 DEF Moves, IInv, RequestInv
  <2>2. p \in Publication
    BY <2>1 DEF IInv, OutboxInv, Items
  <2>3. expired = {} => outbox[1] = p /\ 1 \in 1..Len(outbox)
    <3>1. Len(outbox) \in Nat
      BY LenProperties DEF IInv, OutboxInv
    <3> QED
      BY <3>1, <2>1 DEF Items
  <2>4. expired = {} => \A r \in receipts : ~ Precedes(p, r)
    BY <2>1, <2>3 DEF ListsInv, AheadInv
  <2>5. ClosedInv' /\ OrderInv'
    BY <1>1 DEF ListsInv, ClosedInv, InOrder, OrderInv, Precedes
  <2>6. AheadInv'
    <3> SUFFICES ASSUME expired = {}, NEW n \in 1..Len(outbox), outbox[n] \notin receipts',
                        NEW r \in receipts'
                 PROVE ~ Precedes(outbox[n], r)
      BY <1>1 DEF AheadInv, Precedes
    <3>1. CASE r \in receipts
      BY <3>1, <2>1 DEF ListsInv, AheadInv
    <3>2. CASE r = p
      <4>1. Len(outbox) \in Nat /\ n # 1
        BY <2>1, <2>3, LenProperties DEF IInv, OutboxInv
      <4>2. 1 < n
        BY <4>1
      <4> QED
        BY <4>2, <3>2, <2>3 DEF ListsInv, OrderInv
    <3> QED
      BY <3>1, <3>2, <2>1
  <2>7. CASE UNCHANGED <<scopes, rows>>
    <3>1. ScopesInv' /\ SeenInv' /\ ListedMatchesLatestList'
      BY <2>1, <2>7, <1>1 DEF ListsInv, ScopesInv, SeenInv, ListedMatchesLatestList
    <3> QED
      BY <3>1, <2>5, <2>6 DEF ListsInv
  <2>8. CASE Server!Write(p)
    <3>1. /\ DOMAIN scopes' = Scope /\ ScopeOf[p] \in Scope
          /\ \A s \in Scope : scopes'[s] = IF s = ScopeOf[p] THEN p ELSE scopes[s]
          /\ rows' \in [Event -> [seen : Nat, listed : BOOLEAN]]
          /\ \A e \in Event :
               rows'[e].seen \in {rows[e].seen, IF e \in EventsIn[p] THEN At[p] ELSE rows[e].seen}
      BY <2>2, <2>8, WriteRows DEF ListsInv
    <3>2. ScopesInv'
      BY <3>1, <2>1 DEF ListsInv, ScopesInv
    <3>3. SeenInv'
      BY <3>1, <2>1 DEF ListsInv, SeenInv
    <3>4. ListedMatchesLatestList'
      BY <2>2, <2>4, <2>8, <1>1, WriteLists DEF ListedMatchesLatestList
    <3> QED
      BY <3>2, <3>3, <3>4, <2>5, <2>6 DEF ListsInv
  <2> QED
    BY <2>7, <2>8, <1>3, StoreMoves DEF ServerHandles
<1> QED
  BY <1>2, <1>3, StoreMoves DEF ServerHandles

LEMMA ListsStep == IInv /\ ListsInv /\ [Next]_vars => ListsInv'
<1> SUFFICES ASSUME IInv, ListsInv, [Next]_vars PROVE ListsInv'
  OBVIOUS
<1>0. ASSUME UNCHANGED <<outbox, receipts, offered, scopes, rows, expired>> PROVE ListsInv'
  <2>1. Leaves(0) /\ 0 \in 0..Len(outbox)
    BY <1>0, LenProperties DEF Leaves, IInv, OutboxInv
  <2> QED
    BY <2>1, <1>0, LeavesStep
<1>1. CASE UNCHANGED vars
  BY <1>0, <1>1 DEF vars, agentVars, serverVars
<1>2. ASSUME NEW p \in Publication, Offer(p) PROVE ListsInv'
  BY <1>2, OfferKeepsLists
<1>3. CASE StartDelivery
  <2>1. PICK n \in 0..Len(outbox) : Tick(n)
    BY <1>3 DEF StartDelivery, Ages
  <2>2. /\ outbox' = Kept(n) /\ expired \subseteq expired'
        /\ UNCHANGED <<receipts, offered, scopes, rows>>
    BY <1>3, <2>1 DEF StartDelivery, Tick, serverVars
  <2>3. Leaves(n)
    BY <2>2, KeptLeaves DEF Leaves
  <2> QED
    BY <2>2, <2>3, LeavesStep
<1>4. CASE Connect
  BY <1>0, <1>4 DEF Connect, Post, Server!Send, Server!storeVars
<1>5. CASE AnswerArrives
  <2>1. /\ outbox # <<>> /\ outbox' = Tail(outbox)
        /\ UNCHANGED <<receipts, offered, scopes, rows, expired>>
    BY <1>5, UnlinkHead DEF AnswerArrives, Delivered, IInv, SendingInv, SlotInv, serverVars
  <2>2. Leaves(1) /\ 1 \in 0..Len(outbox)
    BY <2>1, Behind DEF Leaves, IInv, OutboxInv
  <2> QED
    BY <2>1, <2>2, LeavesStep
<1>6. CASE \/ Refused \/ FailureArrives \/ TimesOut \/ EndDelivery \/ Rested
           \/ StopAgent \/ AgentExits \/ AgentReturns
  <2>1. UNCHANGED serverVars
    BY <1>6 DEF Refused, FailureArrives, TimesOut, EndDelivery, Rested, StopAgent,
                AgentExits, AgentReturns
  <2> QED
    BY <2>1, <1>0, <1>6, AgentIsQuiet DEF QuietTurn, serverVars
<1>7. ASSUME NEW q \in Request, ServerHandles(q) PROVE ListsInv'
  BY <1>7, HandleKeepsLists
<1>8. CASE ServerCrashes \/ ServerReturns
  BY <1>0, <1>8 DEF ServerCrashes, ServerReturns, Server!Crash, Server!Restart,
                    Server!storeVars, agentVars
<1> QED
  BY <1>1, <1>2, <1>3, <1>4, <1>5, <1>6, <1>7, <1>8 DEF Next, AgentStep

\* As long as retention dropped nothing, an event is listed exactly when the last
\* stored list of some scope has it, whatever details, repeats and orphaned
\* requests do to the rows in between.
THEOREM ListedAsLastSeen == Spec => []ListedMatchesLatestList
<1>1. ListsInv => ListedMatchesLatestList
  BY DEF ListsInv
<1> QED
  BY <1>1, Invariant, ListsInit, ListsStep, PTL DEF Spec
=============================================================================
