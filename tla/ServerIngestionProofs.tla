------------------------ MODULE ServerIngestionProofs ------------------------
(***************************************************************************)
(* For any publications, scopes, journals and requests, ServerIngestion    *)
(* keeps its history in order, announces a change once, answers a run for  *)
(* one content and shows what it answered.                                 *)
(*                                                                         *)
(* The argument.  A receipt is never ahead of the scope it is about, and a *)
(* history never ahead of the latest scope that feeds it (StoreInv): the   *)
(* transaction therefore only moves forward.  Requests wait for a reload   *)
(* in a queue without repetitions whose head alone reads (QueueInv), so    *)
(* what is shown, what the head has read and what is stored stand in that  *)
(* order of time, scope by scope (ReadInv), and what the head read         *)
(* includes its own publication.  A notice is owed by at most one request  *)
(* (NoticeInv).                                                            *)
(***************************************************************************)
EXTENDS ServerIngestion, FiniteSetTheorems, WellFoundedInduction, TLAPS

StoreInv ==
  /\ published \subseteq receipts
  /\ \A p, r \in receipts : RunOf[p] = RunOf[r] => p = r
  /\ \A p \in receipts : At[p] <= Time(scopes[ScopeOf[p]])
  /\ \A j \in Journal : \A n \in 1..Len(journal[j]) :
       \E s \in Scope : JournalOf[s] = j /\ At[journal[j][n]] <= Time(scopes[s])

QueueInv ==
  /\ up \/ \A q \in Request : request[q].stage \in Answered
  /\ \A m, n \in 1..Len(tail) : tail[m] = tail[n] => m = n
  /\ \A q \in Request :
       request[q].stage = "reloading" <=> \E n \in 1..Len(tail) : tail[n] = q
  /\ \A q \in Request : \A part \in Part :
       request[q].read[part] # None => request[q].stage = "reloading" /\ tail[1] = q

NotAhead(part, a, b) == \A s \in Selected(part) : Time(a[s]) <= Time(b[s])

ReadInv ==
  /\ \A part \in Part : NotAhead(part, projection[part], scopes)
  /\ \A q \in Request : \A part \in Part :
       request[q].read[part] # None =>
         /\ NotAhead(part, projection[part], request[q].read[part])
         /\ NotAhead(part, request[q].read[part], scopes)

\* The baselines are asked for last.
LastInv ==
  \A q \in Request :
    request[q].read["baselines"] # None =>
      request[q].read["lists"] # None /\ request[q].read["details"] # None

\* A committed publication has its receipt, and was there to be read.
CommittedInv ==
  \A q \in Request :
    request[q].stage \in {"committed", "reloading"} =>
      /\ request[q].pub \in receipts
      /\ \A part \in Part :
           request[q].read[part] # None /\ ScopeOf[request[q].pub] \in Selected(part) =>
             At[request[q].pub] <= Time(request[q].read[part][ScopeOf[request[q].pub]])

ShownInv ==
  /\ acknowledged \subseteq receipts
  /\ \A p \in Publication :
       up /\ (p \in acknowledged \/ announced[p] > 0) =>
         \A part \in Part : ScopeOf[p] \in Selected(part) =>
           At[p] <= Time(projection[part][ScopeOf[p]])

NoticeInv ==
  /\ \A p \in Publication :
       announced[p] <= 1 /\ (announced[p] = 1 => p \in published)
  /\ \A q \in Request : request[q].notice =>
       /\ request[q].stage \in {"committed", "reloading"}
       /\ request[q].pub \in published
       /\ announced[request[q].pub] = 0
  /\ \A q, r \in Request :
       request[q].notice /\ request[r].notice /\ request[q].pub = request[r].pub => q = r

IInv ==
  /\ TypeOK /\ StoreInv /\ QueueInv /\ LastInv /\ ReadInv /\ CommittedInv /\ 
     ShownInv /\ NoticeInv /\ JournalInOrder

-----------------------------------------------------------------------------

LEMMA TimeType ==
  ASSUME NEW p \in Publication \cup {None}
  PROVE Time(p) \in Nat /\ (p # None => Time(p) = At[p] /\ Time(p) > 0)
  BY IngestionAssumption DEF Time

LEMMA PubTime ==
  ASSUME NEW p \in Publication
  PROVE Time(p) = At[p] /\ At[p] \in Nat /\ At[p] > 0 /\ ScopeOf[p] \in Scope
        /\ JournalFor(p) \in Journal
  BY IngestionAssumption DEF Time, JournalFor

\* A nonempty finite set of publications has a latest one.
LEMMA LatestExists ==
  ASSUME NEW S \in SUBSET Publication, IsFiniteSet(S), S # {}
  PROVE \E p \in S : \A r \in S : At[r] <= At[p]
<1> DEFINE Covering == {T \in SUBSET S : T # {} /\ \A b \in S : \E t \in T : At[b] <= At[t]}
<1>1. \A p \in S : At[p] \in Nat
  BY PubTime
<1>2. S \in Covering
  BY <1>1
<1>3. Covering \subseteq FiniteSubsetsOf(S)
  BY FS_Subset DEF FiniteSubsetsOf
<1>4. PICK T \in Covering : \A U \in Covering : ~ (<<U, T>> \in StrictSubsetOrdering(S))
  <2>1. IsWellFoundedOn(StrictSubsetOrdering(S), FiniteSubsetsOf(S))
    BY FS_StrictSubsetOrderingWellFounded
  <2> HIDE DEF Covering
  <2> QED
    BY <2>1, <1>2, <1>3, WFMin
<1>5. PICK t \in T : TRUE
  BY <1>4
<1>6. CASE \A u \in T : At[u] <= At[t]
  <2>1. ASSUME NEW r \in S PROVE At[r] <= At[t]
    <3>1. PICK u \in T : At[r] <= At[u]
      BY <1>4
    <3> QED
      BY <3>1, <1>6, <1>1, <1>4, <1>5
  <2> QED
    BY <2>1, <1>4, <1>5
<1>7. CASE \E u \in T : ~ (At[u] <= At[t])
  <2>1. PICK u \in T : ~ (At[u] <= At[t])
    BY <1>7
  <2>2. T \ {t} \in Covering
    <3>1. ASSUME NEW b \in S PROVE \E v \in T \ {t} : At[b] <= At[v]
      <4>1. PICK v \in T : At[b] <= At[v]
        BY <1>4
      <4>2. At[b] \in Nat /\ At[v] \in Nat /\ At[u] \in Nat /\ At[t] \in Nat
        BY <1>1, <1>4, <1>5, <2>1, <4>1
      <4>3. CASE v = t
        BY <4>1, <4>2, <4>3, <2>1
      <4>4. CASE v # t
        BY <4>1, <4>4
      <4> QED
        BY <4>3, <4>4
    <3>2. T \ {t} # {}
      BY <2>1, <1>1, <1>4, <1>5
    <3> QED
      BY <3>1, <3>2, <1>4
  <2>3. <<T \ {t}, T>> \in StrictSubsetOrdering(S)
    BY <1>4, <1>5 DEF StrictSubsetOrdering
  <2> QED
    BY <2>2, <2>3, <1>4
<1> QED
  BY <1>6, <1>7

LEMMA LatestBatchBounds ==
  ASSUME TypeOK, NEW j \in Journal
  PROVE /\ LatestBatch(j) \in Publication \cup {None}
        /\ \A s \in Scope : JournalOf[s] = j => Time(scopes[s]) <= Time(LatestBatch(j))
<1> DEFINE here == {scopes[s] : s \in {r \in Scope : JournalOf[r] = j}}
           batches == here \ {None}
<1>1. batches \in SUBSET Publication
  BY DEF TypeOK
<1>2. IsFiniteSet(batches)
  <2>1. IsFiniteSet({r \in Scope : JournalOf[r] = j})
    BY IngestionAssumption, FS_Subset
  <2> DEFINE f == [s \in {r \in Scope : JournalOf[r] = j} |-> scopes[s]]
  <2>2. f \in Surjection({r \in Scope : JournalOf[r] = j}, here)
    BY DEF Surjection
  <2>3. IsFiniteSet(here)
    BY <2>1, <2>2, FS_Surjection
  <2> QED
    BY <2>3, FS_Subset
<1>3. CASE batches = {}
  <2>1. LatestBatch(j) = None
    BY <1>3 DEF LatestBatch
  <2>2. ASSUME NEW s \in Scope, JournalOf[s] = j PROVE scopes[s] = None
    BY <1>3, <2>2
  <2> QED
    BY <2>1, <2>2 DEF Time
<1>4. CASE batches # {}
  <2> DEFINE latest == CHOOSE p \in batches : \A r \in batches : At[r] <= At[p]
  <2>1. LatestBatch(j) = latest
    BY <1>4 DEF LatestBatch
  <2>2. latest \in batches /\ \A r \in batches : At[r] <= At[latest]
    <3>1. \E p \in batches : \A r \in batches : At[r] <= At[p]
      BY <1>1, <1>2, <1>4, LatestExists
    <3> HIDE DEF batches
    <3> QED
      BY <3>1
  <2>3. ASSUME NEW s \in Scope, JournalOf[s] = j PROVE Time(scopes[s]) <= Time(latest)
    <3>1. CASE scopes[s] = None
      BY <3>1, <2>2, <1>1, TimeType DEF Time
    <3>2. CASE scopes[s] # None
      <4>1. scopes[s] \in batches
        BY <2>3, <3>2
      <4>2. At[scopes[s]] <= At[latest]
        BY <4>1, <2>2
      <4> QED
        BY <4>1, <4>2, <2>2, <1>1, PubTime
    <3> QED
      BY <3>1, <3>2
  <2> QED
    BY <2>1, <2>2, <2>3, <1>1
<1> QED
  BY <1>3, <1>4

LEMMA RowsType ==
  ASSUME TypeOK, NEW part \in Part
  PROVE Rows(part) \in Snapshot(part) /\ Nothing(part) \in Snapshot(part)
        /\ Rows(part) \in Reading /\ Nothing(part) \in Reading /\ Selected(part) \subseteq Scope
<1>1. Selected(part) \subseteq Scope
  BY IngestionAssumption DEF Selected, Part
<1> QED
  BY <1>1 DEF Rows, Nothing, Snapshot, Reading, TypeOK

LEMMA BlankType ==
  ASSUME NEW p \in Publication \cup {None},
         NEW stage \in Answered \cup {"sent", "committed", "reloading"}
  PROVE Blank(stage, p) \in RequestState
  BY DEF Blank, RequestState

LEMMA AnsweredType ==
  ASSUME NEW stage \in {"idle", "accepted", "failed", "sent"},
         NEW p \in Publication \cup {None}
  PROVE /\ Blank(stage, p) \in RequestState
        /\ \A part \in Part : Blank(stage, p).read[part] = None
        /\ Blank(stage, p).stage = stage /\ Blank(stage, p).pub = p
        /\ Blank(stage, p).notice = FALSE
  BY BlankType DEF Answered, Blank

RequestFits(x) ==
  /\ x \in RequestState
  /\ x.stage \notin Answered => x.pub \in Publication
  /\ \A part \in Part : x.read[part] \in Snapshot(part) \cup {None}

RequestOK ==
  /\ request \in [Request -> RequestState]
  /\ \A q \in Request : RequestFits(request[q])

LEMMA RequestIsOK == TypeOK => RequestOK
  BY DEF TypeOK, RequestOK, RequestFits, RequestFits

LEMMA RequestUpdate ==
  ASSUME TypeOK, NEW q \in Request, NEW x, RequestFits(x),
         request' = [request EXCEPT ![q] = x]
  PROVE RequestOK'
<1>1. x \in RequestState
  BY DEF RequestFits
<1>2. request' \in [Request -> RequestState]
  BY <1>1 DEF TypeOK
<1>3. ASSUME NEW r \in Request PROVE RequestFits(request'[r])
  BY RequestIsOK DEF RequestOK
<1> QED
  BY <1>2, <1>3 DEF RequestOK

LEMMA BlankFits ==
  /\ \A p \in Publication : RequestFits(Blank("sent", p))
  /\ RequestFits(Idle) /\ RequestFits(Blank("failed", None)) /\ RequestFits(Blank("accepted", None))
<1>1. ASSUME NEW p \in Publication PROVE RequestFits(Blank("sent", p))
  <2>1. Blank("sent", p) \in RequestState
    BY AnsweredType
  <2>2. Blank("sent", p).pub = p /\ \A part \in Part : Blank("sent", p).read[part] = None
    BY DEF Blank
  <2> QED
    BY <2>1, <2>2 DEF RequestFits
<1>2. ASSUME NEW stage \in {"idle", "failed", "accepted"}
      PROVE RequestFits(Blank(stage, None))
  <2>1. Blank(stage, None) \in RequestState
    BY AnsweredType
  <2>2. /\ Blank(stage, None).stage = stage
        /\ \A part \in Part : Blank(stage, None).read[part] = None
    BY DEF Blank
  <2> QED
    BY <2>1, <2>2 DEF RequestFits, Answered
<1> QED
  BY <1>1, <1>2 DEF Idle

LEMMA TransactionAnswers ==
  ASSUME TypeOK, NEW q \in Request, Transaction(q)
  PROVE RequestOK'
<1> DEFINE p == request[q].pub
           new == ~ Repeated(p) /\ ~ Stale(p)
           x == [request[q] EXCEPT !.stage = "committed", !.notice = new]
<1>1. CASE Fails(q)
  BY <1>1, BlankFits, RequestUpdate DEF Fails
<1>2. CASE request' = [request EXCEPT ![q] = x]
  <2>1. request[q] \in RequestState /\ p \in Publication
    BY DEF Transaction, Answered, TypeOK
  <2>2. new \in BOOLEAN
    OBVIOUS
  <2>3. x \in RequestState /\ x.pub = p /\ x.read = request[q].read
    <3> HIDE DEF new
    <3> QED
      BY <2>1, <2>2 DEF RequestState
  <2>4. RequestFits(x)
    <3> HIDE DEF x
    <3> QED
      BY <2>1, <2>3 DEF RequestFits, TypeOK
  <2> HIDE DEF x
  <2> QED
    BY <1>2, <2>4, RequestUpdate
<1>3. Fails(q) \/ request' = [request EXCEPT ![q] = x]
  <2>1. x = [[request[q] EXCEPT !.stage = "committed"] EXCEPT !.notice = new]
    OBVIOUS
  <2> HIDE DEF x, new
  <2> QED
    BY <2>1 DEF Transaction, new
<1> QED
  BY <1>1, <1>2, <1>3

LEMMA SentIsPublication ==
  ASSUME TypeOK, NEW q \in Request, request[q].stage \notin Answered
  PROVE request[q].pub \in Publication
  BY DEF TypeOK

LEMMA WriteType ==
  ASSUME TypeOK, NEW p \in Publication, Write(p)
  PROVE /\ published' \subseteq Publication
        /\ scopes' \in [Scope -> Publication \cup {None}]
        /\ journal' \in [Journal -> Seq(Publication)]
        /\ rows' \in [Event -> [seen : Nat, listed : BOOLEAN]]
<1>1. /\ published' \subseteq Publication
      /\ scopes' \in [Scope -> Publication \cup {None}]
  BY PubTime DEF Write, TypeOK
<1>2. journal' \in [Journal -> Seq(Publication)]
  BY PubTime DEF Write, TypeOK
<1>3. ASSUME NEW e \in Event PROVE rows'[e] \in [seen : Nat, listed : BOOLEAN]
  <2>1. rows[e] \in [seen : Nat, listed : BOOLEAN] /\ Seen(e, p) \in Nat
    BY PubTime DEF TypeOK, Seen
  <2>2. CASE e \in EventsIn[p]
    <3>1. (ScopeOf[p] \in ListScope \/ rows[e].listed) \in BOOLEAN
      OBVIOUS
    <3>2. rows'[e] = [seen |-> Seen(e, p), listed |-> ScopeOf[p] \in ListScope \/ rows[e].listed]
      BY <2>2 DEF Write
    <3> QED
      BY <2>1, <3>1, <3>2
  <2>3. CASE e \notin EventsIn[p]
    BY <2>1, <2>3 DEF Write
  <2> QED
    BY <2>2, <2>3
<1>4. rows' \in [Event -> [seen : Nat, listed : BOOLEAN]]
  BY <1>3 DEF Write
<1> QED
  BY <1>1, <1>2, <1>4

LEMMA HeadOfTail ==
  ASSUME TypeOK, QueueInv, NEW q \in Request, MyTurn(q)
  PROVE /\ tail # <<>> /\ tail[1] = q /\ Len(tail) \in Nat \ {0}
        /\ Settled(q) \in Seq(Request)
        /\ Len(Settled(q)) = Len(tail) - 1
        /\ \A n \in 1..Len(Settled(q)) : Settled(q)[n] = tail[n + 1]
<1>1. PICK n \in 1..Len(tail) : tail[n] = q
  BY DEF MyTurn, QueueInv
<1>2. tail \in Seq(Request) /\ tail # <<>>
  BY <1>1 DEF TypeOK
<1> QED
  BY <1>2 DEF MyTurn, Settled

\* What a reload has read when its last query answered can be shown.
LEMMA CompleteReading ==
  ASSUME TypeOK, LastInv, NEW q \in Request, request[q].read["baselines"] # None
  PROVE /\ request[q].read \in [Part -> Reading]
        /\ \A part \in Part : request[q].read[part] # None
        /\ \A part \in Part : request[q].read[part] \in Snapshot(part)
<1>1. \A part \in Part : request[q].read[part] # None
  BY DEF LastInv, Part
<1>2. request[q].read \in [Part -> Reading \cup {None}]
  BY DEF TypeOK, RequestState
<1>3. \A part \in Part : request[q].read[part] \in Snapshot(part)
  BY <1>1 DEF TypeOK
<1> QED
  BY <1>1, <1>2, <1>3

LEMMA TypeInit == Init => TypeOK
<1> SUFFICES ASSUME Init PROVE TypeOK
  OBVIOUS
<1>1. \A part \in Part : Nothing(part) \in Snapshot(part) /\ Nothing(part) \in Reading
  <2>1. \A part \in Part : Selected(part) \subseteq Scope
    BY IngestionAssumption DEF Selected, Part
  <2> QED
    BY <2>1 DEF Nothing, Snapshot, Reading
<1>2. \A q \in Request : RequestFits(request[q])
  BY BlankFits DEF Init
<1> QED
  BY <1>1, <1>2 DEF Init, TypeOK, RequestFits

LEMMA TypeStep ==
  ASSUME TypeOK, QueueInv, LastInv, [Next]_vars PROVE TypeOK'
<1>1. ASSUME NEW q \in Request, NEW p \in Publication, Send(q, p) PROVE TypeOK'
  <2>1. RequestOK'
    BY <1>1, BlankFits, RequestUpdate DEF Send
  <2> QED
    BY <1>1, <2>1 DEF Send, TypeOK, RequestOK, RequestFits, storeVars, historyVars
<1>2. ASSUME NEW q \in Request, Transaction(q) PROVE TypeOK'
  <2>1. RequestOK'
    BY <1>2, TransactionAnswers
  <2> DEFINE p == request[q].pub
  <2>2. CASE UNCHANGED storeVars
    BY <1>2, <2>1, <2>2 DEF Transaction, TypeOK, RequestOK, RequestFits, storeVars, historyVars
  <2>3. CASE UNCHANGED <<published, scopes, journal, rows>> /\ receipts' = receipts \cup {p}
    BY <1>2, <2>1, <2>3, SentIsPublication
       DEF Transaction, Answered, TypeOK, RequestOK, RequestFits, storeVars, historyVars
  <2>4. CASE Write(p) /\ receipts' = receipts \cup {p}
    BY <1>2, <2>1, <2>4, SentIsPublication, WriteType
       DEF Transaction, Answered, TypeOK, RequestOK, RequestFits, storeVars, historyVars
  <2> QED
    BY <1>2, <2>2, <2>3, <2>4 DEF Transaction
<1>3. ASSUME NEW q \in Request, TransactionFails(q) PROVE TypeOK'
  <2>1. RequestOK'
    BY <1>3, BlankFits, RequestUpdate DEF TransactionFails, Fails
  <2> QED
    BY <1>3, <2>1 DEF TransactionFails, TypeOK, RequestOK, RequestFits, storeVars, historyVars
<1>4. ASSUME NEW q \in Request, Refresh(q) PROVE TypeOK'
  <2>1. RequestOK'
    <3> DEFINE x == [request[q] EXCEPT !.stage = "reloading"]
    <3>1. x \in RequestState /\ x.read = request[q].read /\ x.pub = request[q].pub
      <4>1. request[q] \in RequestState
        BY DEF TypeOK
      <4> QED
        BY <4>1 DEF RequestState
    <3>2. RequestFits(x)
      <4> HIDE DEF x
      <4> QED
        BY <1>4, <3>1 DEF RequestFits, Refresh, TypeOK, Answered
    <3> QED
      BY <1>4, <3>2, RequestUpdate DEF Refresh
  <2> QED
    BY <1>4, <2>1 DEF Refresh, TypeOK, RequestOK, RequestFits, storeVars, historyVars
<1>5. ASSUME NEW q \in Request, NEW part \in Part, Read(q, part) PROVE TypeOK'
  <2>1. RequestOK'
    <3> DEFINE x == [request[q] EXCEPT !.read = [request[q].read EXCEPT ![part] = Rows(part)]]
    <3>1. x \in RequestState /\ x.stage = request[q].stage /\ x.pub = request[q].pub
      BY RowsType DEF TypeOK, RequestState
    <3>2. \A other \in Part :
            x.read[other] = IF other = part THEN Rows(part) ELSE request[q].read[other]
      BY DEF TypeOK, RequestState
    <3>3. request' = [request EXCEPT ![q] = x]
      BY <1>5 DEF Read
    <3>4. RequestFits(x)
      <4> HIDE DEF x
      <4> QED
        BY <3>1, <3>2, RowsType DEF RequestFits, TypeOK
    <3> QED
      BY <3>3, <3>4, RequestUpdate
  <2> QED
    BY <1>5, <2>1 DEF Read, TypeOK, RequestOK, RequestFits, storeVars, historyVars
<1>6. ASSUME NEW q \in Request, Reloaded(q) PROVE TypeOK'
  <2>1. RequestOK'
    BY <1>6, BlankFits, RequestUpdate DEF Reloaded
  <2>2. tail' \in Seq(Request)
    BY <1>6, HeadOfTail DEF Reloaded
  <2>3. projection' \in [Part -> Reading] /\ \A part \in Part : projection'[part] \in Snapshot(part)
    BY <1>6, CompleteReading DEF Reloaded
  <2>4. announced' \in [Publication -> Nat] /\ acknowledged' \subseteq Publication
    <3> DEFINE p == request[q].pub
    <3>1. p \in Publication
      BY <1>6, SentIsPublication DEF Reloaded, MyTurn, Answered
    <3>2. announced[p] + 1 \in Nat /\ announced \in [Publication -> Nat]
      BY <3>1 DEF TypeOK
    <3> HIDE DEF p
    <3>3. [announced EXCEPT ![p] = @ + 1] \in [Publication -> Nat]
      BY <3>1, <3>2
    <3>4. /\ announced' \in {announced, [announced EXCEPT ![p] = @ + 1]}
          /\ acknowledged' = acknowledged \cup {p}
      BY <1>6 DEF Reloaded, p
    <3> QED
      BY <3>1, <3>2, <3>3, <3>4 DEF TypeOK
  <2> QED
    BY <1>6, <2>1, <2>2, <2>3, <2>4 DEF Reloaded, TypeOK, RequestOK, RequestFits, storeVars
<1>7. ASSUME NEW q \in Request, ReloadFails(q) PROVE TypeOK'
  <2>1. RequestOK'
    BY <1>7, BlankFits, RequestUpdate DEF ReloadFails, Fails
  <2>2. tail' \in Seq(Request)
    BY <1>7, HeadOfTail DEF ReloadFails
  <2>3. projection' \in [Part -> Reading] /\ \A part \in Part : projection'[part] \in Snapshot(part)
    BY <1>7, CompleteReading DEF ReloadFails, TypeOK
  <2> QED
    BY <1>7, <2>1, <2>2, <2>3
       DEF ReloadFails, TypeOK, RequestOK, RequestFits, storeVars, historyVars
<1>8. CASE Crash
  <2>1. \A q \in Request : RequestFits(request'[q])
    BY <1>8, BlankFits, RequestIsOK DEF Crash, RequestOK
  <2>2. RequestOK'
    BY <1>8, <2>1 DEF Crash, RequestOK, RequestFits
  <2>3. projection' \in [Part -> Reading] /\ \A part \in Part : projection'[part] \in Snapshot(part)
    BY <1>8, RowsType DEF Crash
  <2>4. up' = FALSE /\ tail' = <<>>
    BY <1>8, Zenon DEF Crash
  <2>5. UNCHANGED <<receipts, published, scopes, journal, rows, announced, acknowledged>>
    BY <1>8 DEF Crash, storeVars, historyVars
  <2>6. up' \in BOOLEAN /\ tail' \in Seq(Request)
    <3>1. <<>> \in Seq(Request)
      OBVIOUS
    <3> QED
      BY <2>4, <3>1, Zenon
  <2> QED
    BY <2>2, <2>3, <2>5, <2>6 DEF TypeOK, RequestOK, RequestFits
<1>9. CASE Restart
  BY <1>9, RowsType DEF Restart, Restored, TypeOK, storeVars, historyVars
<1>10. CASE UNCHANGED vars
  BY <1>10 DEF vars, TypeOK, storeVars, historyVars
<1> QED
  BY <1>1, <1>2, <1>3, <1>4, <1>5, <1>6, <1>7, <1>8, <1>9, <1>10 DEF Next, Handle

\* What a step that puts x in the place of request q does to the others.
LEMMA OthersKeep ==
  ASSUME TypeOK, NEW q \in Request, NEW x, request' = [request EXCEPT ![q] = x]
  PROVE request'[q] = x /\ \A r \in Request : r # q => request'[r] = request[r]
  BY DEF TypeOK

LEMMA BlankStep ==
  ASSUME TypeOK, NEW q \in Request, NEW stage, NEW p,
         request' = [request EXCEPT ![q] = Blank(stage, p)]
  PROVE /\ request'[q].stage = stage /\ request'[q].pub = p /\ request'[q].notice = FALSE
        /\ \A part \in Part : request'[q].read[part] = None
        /\ \A r \in Request : r # q => request'[r] = request[r]
<1>1. request'[q] = Blank(stage, p) /\ \A r \in Request : r # q => request'[r] = request[r]
  BY OthersKeep
<1>2. request'[q].stage = stage /\ request'[q].pub = p /\ request'[q].notice = FALSE
  BY <1>1 DEF Blank
<1>3. \A part \in Part : request'[q].read[part] = None
  BY <1>1 DEF Blank
<1> QED
  BY <1>1, <1>2, <1>3

LEMMA SendRequests ==
  ASSUME TypeOK, NEW q \in Request, NEW p \in Publication, Send(q, p)
  PROVE /\ request[q].stage \in Answered
        /\ request'[q].stage = "sent" /\ request'[q].pub = p /\ request'[q].notice = FALSE
        /\ \A part \in Part : request'[q].read[part] = None
        /\ \A r \in Request : r # q => request'[r] = request[r]
  BY BlankStep DEF Send

LEMMA FailedRequests ==
  ASSUME TypeOK, NEW q \in Request, Fails(q)
  PROVE /\ request'[q].stage = "failed" /\ request'[q].notice = FALSE
        /\ \A part \in Part : request'[q].read[part] = None
        /\ \A r \in Request : r # q => request'[r] = request[r]
  BY BlankStep DEF Fails

LEMMA ReloadedRequests ==
  ASSUME TypeOK, NEW q \in Request, Reloaded(q)
  PROVE /\ request'[q].stage = "accepted" /\ request'[q].notice = FALSE
        /\ \A part \in Part : request'[q].read[part] = None
        /\ \A r \in Request : r # q => request'[r] = request[r]
  BY BlankStep DEF Reloaded

LEMMA TransactionRequests ==
  ASSUME TypeOK, NEW q \in Request, Transaction(q)
  PROVE /\ request[q].stage = "sent" /\ request[q].pub \in Publication
        /\ \A r \in Request : r # q => request'[r] = request[r]
        /\ \/ /\ request'[q].stage = "failed" /\ request'[q].notice = FALSE
              /\ \A part \in Part : request'[q].read[part] = None
           \/ /\ request'[q].stage = "committed" /\ request[q].pub \in receipts'
              /\ request'[q].pub = request[q].pub
              /\ request'[q].read = request[q].read
              /\ request'[q].notice = (~ Repeated(request[q].pub) /\ ~ Stale(request[q].pub))
        /\ UNCHANGED <<up, tail, projection, announced, acknowledged>>
<1> DEFINE p == request[q].pub
           new == ~ Repeated(p) /\ ~ Stale(p)
<1>1. request[q].stage = "sent" /\ request[q].pub \in Publication
  BY SentIsPublication DEF Transaction, Answered
<1>2. request[q] \in RequestState
  BY DEF TypeOK
<1>3. \/ Fails(q)
      \/ /\ request' = [request EXCEPT ![q].stage = "committed", ![q].notice = new]
         /\ p \in receipts'
  <2> HIDE DEF new
  <2> QED
    BY <1>1 DEF Transaction, new
<1>4. CASE Fails(q)
  BY <1>1, <1>4, FailedRequests DEF Transaction, historyVars
<1>5. CASE /\ request' = [request EXCEPT ![q].stage = "committed", ![q].notice = new]
           /\ p \in receipts'
  <2> DEFINE x == [[request[q] EXCEPT !.stage = "committed"] EXCEPT !.notice = new]
  <2>1. request' = [request EXCEPT ![q] = x]
    <3> HIDE DEF new
    <3> QED
      BY <1>5 DEF TypeOK
  <2>2. x.stage = "committed" /\ x.pub = p /\ x.read = request[q].read /\ x.notice = new
    <3> HIDE DEF new
    <3> QED
      BY <1>2 DEF RequestState
  <2> HIDE DEF x
  <2>3. request'[q] = x /\ \A r \in Request : r # q => request'[r] = request[r]
    BY <2>1, OthersKeep
  <2>4. UNCHANGED <<up, tail, projection, announced, acknowledged>>
    BY DEF Transaction, historyVars
  <2> QED
    BY <1>1, <1>5, <2>2, <2>3, <2>4
<1> QED
  BY <1>3, <1>4, <1>5

LEMMA RefreshRequests ==
  ASSUME TypeOK, NEW q \in Request, Refresh(q)
  PROVE /\ request'[q].stage = "reloading" /\ request'[q].pub = request[q].pub
        /\ request'[q].read = request[q].read /\ request'[q].notice = request[q].notice
        /\ \A r \in Request : r # q => request'[r] = request[r]
  BY DEF Refresh, TypeOK, RequestState

LEMMA ReadRequests ==
  ASSUME TypeOK, NEW q \in Request, NEW part \in Part, Read(q, part)
  PROVE /\ request'[q].stage = request[q].stage /\ request'[q].pub = request[q].pub
        /\ request'[q].notice = request[q].notice
        /\ \A other \in Part : request'[q].read[other] =
             IF other = part THEN Rows(part) ELSE request[q].read[other]
        /\ \A r \in Request : r # q => request'[r] = request[r]
  BY DEF Read, TypeOK, RequestState

LEMMA CrashRequests ==
  ASSUME TypeOK, QueueInv, Crash, NEW q \in Request
  PROVE /\ request'[q].stage \in Answered
        /\ \A part \in Part : request'[q].read[part] = None
        /\ request'[q].notice = FALSE \/ request'[q] = request[q]
<1>1. CASE request[q].stage \in Answered
  <2>1. request'[q] = request[q]
    BY <1>1 DEF Crash
  <2> QED
    BY <1>1, <2>1 DEF QueueInv, Answered
<1>2. CASE request[q].stage \notin Answered
  <2>1. request'[q] = Blank("failed", None)
    BY <1>2 DEF Crash
  <2>2. request'[q].stage = "failed" /\ request'[q].notice = FALSE
    BY <2>1 DEF Blank
  <2>3. \A part \in Part : request'[q].read[part] = None
    BY <2>1 DEF Blank
  <2> QED
    BY <2>2, <2>3 DEF Answered
<1> QED
  BY <1>1, <1>2

\* The requests that wait for a reload are the queue, and its head alone reads.
LEMMA QueueKept ==
  ASSUME TypeOK, QueueInv, NEW q \in Request, up, up' = up, tail' = tail,
         request[q].stage # "reloading", request'[q].stage # "reloading",
         \A part \in Part : request'[q].read[part] = None,
         \A r \in Request : r # q => request'[r] = request[r]
  PROVE QueueInv'
  BY DEF QueueInv

LEMMA QueueStep ==
  ASSUME TypeOK, QueueInv, [Next]_vars PROVE QueueInv'
<1> USE DEF QueueInv
<1>1. ASSUME NEW q \in Request, NEW p \in Publication, Send(q, p) PROVE QueueInv'
  <2>1. up' = up /\ tail' = tail /\ up
    BY <1>1 DEF Send
  <2>2. request[q].stage # "reloading" /\ request'[q].stage # "reloading"
    BY <1>1, SendRequests DEF Answered
  <2> QED
    BY <1>1, <2>1, <2>2, SendRequests, QueueKept
<1>2. ASSUME NEW q \in Request, Transaction(q) PROVE QueueInv'
  <2>1. up' = up /\ tail' = tail /\ up
    BY <1>2, TransactionRequests DEF Transaction
  <2>2. request[q].stage # "reloading" /\ request'[q].stage # "reloading"
    BY <1>2, TransactionRequests
  <2>3. \A part \in Part : request[q].read[part] = None
    BY <2>2
  <2>4. \A part \in Part : request'[q].read[part] = None
    <3>1. \/ \A part \in Part : request'[q].read[part] = None
          \/ request'[q].read = request[q].read
      BY <1>2, TransactionRequests
    <3> QED
      BY <2>3, <3>1
  <2> QED
    BY <1>2, <2>1, <2>2, <2>4, TransactionRequests, QueueKept
<1>3. ASSUME NEW q \in Request, TransactionFails(q) PROVE QueueInv'
  <2>1. up' = up /\ tail' = tail /\ up /\ Fails(q) /\ request[q].stage # "reloading"
    BY <1>3 DEF TransactionFails
  <2> QED
    BY <2>1, FailedRequests, QueueKept
<1>4. ASSUME NEW q \in Request, Refresh(q) PROVE QueueInv'
  <2>1. tail \in Seq(Request) /\ tail' = Append(tail, q) /\ request[q].stage = "committed"
    BY <1>4 DEF Refresh, TypeOK
  <2>2. /\ Len(tail') = Len(tail) + 1 /\ Len(tail) \in Nat /\ tail'[Len(tail) + 1] = q
        /\ \A n \in 1..Len(tail) : tail'[n] = tail[n]
    BY <2>1
  <2>3. \A n \in 1..Len(tail) : tail[n] # q
    BY <2>1
  <2>4. up /\ up' = up
    BY <1>4 DEF Refresh
  <2>5. \A m, n \in 1..Len(tail') : tail'[m] = tail'[n] => m = n
    BY <2>2, <2>3
  <2>6. ASSUME NEW r \in Request
        PROVE request'[r].stage = "reloading" <=> \E n \in 1..Len(tail') : tail'[n] = r
    <3>1. CASE r = q
      BY <1>4, <2>2, <3>1, RefreshRequests
    <3>2. CASE r # q
      BY <1>4, <2>2, <2>3, <3>2, RefreshRequests
    <3> QED
      BY <3>1, <3>2
  <2>7. ASSUME NEW r \in Request, NEW part \in Part, request'[r].read[part] # None
        PROVE request'[r].stage = "reloading" /\ tail'[1] = r
    <3>1. r # q /\ request[r].read[part] # None
      BY <1>4, <2>1, <2>7, RefreshRequests
    <3>2. request[r].stage = "reloading" /\ tail[1] = r /\ Len(tail) > 0
      BY <2>2, <3>1
    <3> QED
      BY <1>4, <2>2, <3>1, <3>2, RefreshRequests
  <2> QED
    BY <2>4, <2>5, <2>6, <2>7
<1>5. ASSUME NEW q \in Request, NEW part \in Part, Read(q, part) PROVE QueueInv'
  <2>1. up /\ up' = up /\ tail' = tail /\ request[q].stage = "reloading" /\ tail[1] = q
    BY <1>5, HeadOfTail DEF Read, MyTurn
  <2> QED
    BY <1>5, <2>1, ReadRequests
<1>6. ASSUME NEW q \in Request, up, up' = up, MyTurn(q), tail' = Settled(q),
             request'[q].stage \in Answered,
             \A part \in Part : request'[q].read[part] = None,
             \A r \in Request : r # q => request'[r] = request[r]
      PROVE QueueInv'
  <2>1. request'[q].stage # "reloading"
    BY <1>6 DEF Answered
  <2>2. /\ tail[1] = q /\ Len(tail) \in Nat \ {0} /\ Len(tail') = Len(tail) - 1
        /\ \A n \in 1..Len(tail') : tail'[n] = tail[n + 1]
    BY <1>6, HeadOfTail
  <2>3. \A m, n \in 1..Len(tail') : tail'[m] = tail'[n] => m = n
    BY <2>2
  <2>4. ASSUME NEW r \in Request
        PROVE request'[r].stage = "reloading" <=> \E n \in 1..Len(tail') : tail'[n] = r
    <3>1. CASE r = q
      BY <2>1, <2>2, <3>1
    <3>2. CASE r # q /\ request[r].stage = "reloading"
      <4>1. PICK n \in 1..Len(tail) : tail[n] = r
        BY <3>2
      <4>2. n - 1 \in 1..Len(tail') /\ tail'[n - 1] = r
        BY <2>2, <3>2, <4>1
      <4> QED
        BY <1>6, <3>2, <4>2
    <3>3. CASE r # q /\ request[r].stage # "reloading"
      BY <1>6, <2>2, <3>3
    <3> QED
      BY <3>1, <3>2, <3>3
  <2>5. \A r \in Request : \A part \in Part : request'[r].read[part] = None
    BY <1>6, <2>2
  <2> QED
    BY <1>6, <2>3, <2>4, <2>5
<1>7. ASSUME NEW q \in Request, Reloaded(q) PROVE QueueInv'
  <2>1. up /\ up' = up /\ MyTurn(q) /\ tail' = Settled(q)
    BY <1>7 DEF Reloaded
  <2> QED
    BY <1>6, <1>7, <2>1, ReloadedRequests DEF Answered
<1>8. ASSUME NEW q \in Request, ReloadFails(q) PROVE QueueInv'
  <2>1. up /\ up' = up /\ MyTurn(q) /\ tail' = Settled(q) /\ Fails(q)
    BY <1>8 DEF ReloadFails
  <2> QED
    BY <1>6, <2>1, FailedRequests DEF Answered
<1>9. CASE Crash
  <2>1. tail' = <<>>
    BY <1>9, Zenon DEF Crash
  <2>2. Len(tail') = 0
    BY <2>1
  <2>3. \A q \in Request :
          /\ request'[q].stage \in Answered /\ request'[q].stage # "reloading"
          /\ \A part \in Part : request'[q].read[part] = None
    BY <1>9, CrashRequests DEF Answered
  <2> QED
    BY <2>2, <2>3
<1>10. CASE Restart
  BY <1>10 DEF Restart
<1>11. CASE UNCHANGED vars
  BY <1>11 DEF vars
<1> QED
  BY <1>1, <1>2, <1>3, <1>4, <1>5, <1>7, <1>8, <1>9, <1>10, <1>11 DEF Next, Handle

LEMMA LastStep ==
  ASSUME TypeOK, QueueInv, LastInv, [Next]_vars PROVE LastInv'
<1> USE DEF LastInv
<1>0. {"lists", "details", "baselines"} \subseteq Part
  BY DEF Part
<1>1. ASSUME NEW q \in Request, NEW p \in Publication, Send(q, p) PROVE LastInv'
  BY <1>0, <1>1, SendRequests
<1>2. ASSUME NEW q \in Request, Transaction(q) PROVE LastInv'
  BY <1>0, <1>2, TransactionRequests
<1>3. ASSUME NEW q \in Request, Fails(q) PROVE LastInv'
  BY <1>0, <1>3, FailedRequests
<1>4. ASSUME NEW q \in Request, Refresh(q) PROVE LastInv'
  BY <1>0, <1>4, RefreshRequests
<1>5. ASSUME NEW q \in Request, NEW part \in Part, Read(q, part) PROVE LastInv'
  <2>1. request[q].read[part] = None
    BY <1>5 DEF Read
  <2>2. part = "baselines" =>
          request[q].read["lists"] # None /\ request[q].read["details"] # None
    BY <1>5 DEF Read
  <2> QED
    BY <1>0, <1>5, <2>1, <2>2, ReadRequests
<1>6. ASSUME NEW q \in Request, Reloaded(q) PROVE LastInv'
  BY <1>0, <1>6, ReloadedRequests
<1>8. CASE Crash
  BY <1>0, <1>8, CrashRequests
<1>9. CASE Restart
  BY <1>9 DEF Restart
<1>10. CASE UNCHANGED vars
  BY <1>10 DEF vars
<1> QED
  BY <1>1, <1>2, <1>3, <1>4, <1>5, <1>6, <1>8, <1>9, <1>10
     DEF Next, Handle, TransactionFails, ReloadFails

-----------------------------------------------------------------------------

\* What the transaction of p decides, whoever posted it.
LEMMA TransactionStores ==
  ASSUME NEW q \in Request, Transaction(q)
  PROVE LET p == request[q].pub
        IN  \/ UNCHANGED storeVars
            \/ /\ receipts' = receipts \cup {p} /\ ~ Conflicting(p)
               /\ Repeated(p) \/ Stale(p)
               /\ UNCHANGED <<published, scopes, journal, rows>>
            \/ /\ receipts' = receipts \cup {p} /\ ~ Conflicting(p)
               /\ ~ Repeated(p) /\ ~ Stale(p) /\ Write(p)
  BY DEF Transaction

LEMMA WriteAdvances ==
  ASSUME TypeOK, NEW p \in Publication, ~ Stale(p), Write(p)
  PROVE /\ \A s \in Scope : Time(scopes[s]) <= Time(scopes'[s])
        /\ Time(scopes'[ScopeOf[p]]) = At[p]
<1>0. /\ At[p] \in Nat /\ Time(p) = At[p] /\ ScopeOf[p] \in Scope
      /\ \A s \in Scope : Time(scopes[s]) \in Nat
  BY PubTime, TimeType DEF TypeOK
<1>1. Time(scopes[ScopeOf[p]]) <= At[p]
  BY <1>0 DEF Stale
<1>2. ASSUME NEW s \in Scope PROVE scopes'[s] = IF s = ScopeOf[p] THEN p ELSE scopes[s]
  BY <1>2 DEF Write, TypeOK
<1>3. scopes'[ScopeOf[p]] = p
  BY <1>0, <1>2
<1>4. ASSUME NEW s \in Scope PROVE Time(scopes[s]) <= Time(scopes'[s])
  <2>1. CASE s = ScopeOf[p]
    BY <1>0, <1>1, <1>3, <2>1
  <2>2. CASE s # ScopeOf[p]
    BY <1>0, <1>2, <2>2
  <2> QED
    BY <2>1, <2>2
<1> QED
  BY <1>0, <1>3, <1>4

LEMMA ScopesAdvance ==
  ASSUME TypeOK, [Next]_vars
  PROVE \A s \in Scope : Time(scopes[s]) <= Time(scopes'[s])
<1>1. \A s \in Scope : Time(scopes[s]) \in Nat
  BY TimeType DEF TypeOK
<1>2. CASE UNCHANGED scopes
  BY <1>1, <1>2
<1>3. ASSUME NEW q \in Request, Transaction(q)
      PROVE \A s \in Scope : Time(scopes[s]) <= Time(scopes'[s])
  BY <1>2, <1>3, TransactionStores, TransactionRequests, WriteAdvances DEF storeVars
<1> QED
  BY <1>2, <1>3
     DEF Next, Handle, Send, TransactionFails, Refresh, Read, Reloaded, ReloadFails, Crash,
         Restart, storeVars, vars

LEMMA ScopesMove ==
  ASSUME TypeOK, [Next]_vars
  PROVE \A s \in Scope : Time(scopes'[s]) >= Time(scopes[s])
  BY ScopesAdvance

\* The journal of a batch that is accepted is older than the batch.
LEMMA AcceptedIsNewest ==
  ASSUME TypeOK, StoreInv, NEW p \in Publication, BatchAccepted(p),
         NEW n \in 1..Len(journal[JournalFor(p)])
  PROVE At[journal[JournalFor(p)][n]] < At[p]
<1> DEFINE j == JournalFor(p)
<1>1. j \in Journal
  BY PubTime
<1>2. PICK s \in Scope : JournalOf[s] = j /\ At[journal[j][n]] <= Time(scopes[s])
  BY <1>1 DEF StoreInv
<1>3. Time(scopes[s]) <= Time(LatestBatch(j)) /\ LatestBatch(j) \in Publication \cup {None}
  BY <1>1, <1>2, LatestBatchBounds
<1>4. Time(LatestBatch(j)) < At[p]
  BY DEF BatchAccepted
<1>5. journal[j][n] \in Publication
  BY <1>1 DEF TypeOK
<1>6. /\ At[journal[j][n]] \in Nat /\ Time(scopes[s]) \in Nat
      /\ Time(LatestBatch(j)) \in Nat /\ At[p] \in Nat
  BY <1>2, <1>3, <1>5, PubTime, TimeType DEF TypeOK
<1> HIDE DEF j
<1>7. At[journal[j][n]] < At[p]
  BY <1>2, <1>3, <1>4, <1>6
<1> QED
  BY <1>7 DEF j

\* Receipts, scopes and history stay consistent with one another.
LEMMA StoreStep ==
  ASSUME TypeOK, StoreInv, [Next]_vars PROVE StoreInv'
<1>1. CASE UNCHANGED storeVars
  BY <1>1 DEF StoreInv, storeVars
<1>2. ASSUME NEW q \in Request, Transaction(q) PROVE StoreInv'
  <2> DEFINE p == request[q].pub
  <2>0. p \in Publication
    BY <1>2, TransactionRequests
  <2>1. ASSUME NEW r \in receipts \cup {p}, NEW t \in receipts \cup {p},
               ~ Conflicting(p), RunOf[r] = RunOf[t]
        PROVE r = t
    BY <2>1 DEF StoreInv, Conflicting
  <2>2. CASE /\ receipts' = receipts \cup {p} /\ ~ Conflicting(p)
             /\ Repeated(p) \/ Stale(p)
             /\ UNCHANGED <<published, scopes, journal, rows>>
    <3>1. At[p] <= Time(scopes[ScopeOf[p]])
      <4>1. At[p] \in Nat /\ Time(scopes[ScopeOf[p]]) \in Nat
        BY <2>0, PubTime, TimeType DEF TypeOK
      <4>2. CASE Stale(p)
        BY <4>1, <4>2 DEF Stale
      <4>3. CASE Repeated(p)
        BY <4>3 DEF Repeated, StoreInv
      <4> QED
        BY <2>2, <4>2, <4>3
    <3> QED
      BY <2>1, <2>2, <3>1 DEF StoreInv
  <2>3. CASE /\ receipts' = receipts \cup {p} /\ ~ Conflicting(p)
             /\ ~ Repeated(p) /\ ~ Stale(p) /\ Write(p)
    <3>1. published' \subseteq receipts'
      BY <2>3 DEF Write, StoreInv
    <3>2. \A r, t \in receipts' : RunOf[r] = RunOf[t] => r = t
      BY <2>1, <2>3
    <3>3. /\ \A s \in Scope : Time(scopes[s]) <= Time(scopes'[s])
          /\ \A s \in Scope : Time(scopes[s]) \in Nat /\ Time(scopes'[s]) \in Nat
          /\ Time(scopes'[ScopeOf[p]]) = At[p]
      <4>1. scopes' \in [Scope -> Publication \cup {None}]
        BY <2>0, <2>3, WriteType
      <4> QED
        BY <2>0, <2>3, <4>1, WriteAdvances, TimeType DEF TypeOK
    <3>4. ASSUME NEW r \in receipts' PROVE At[r] <= Time(scopes'[ScopeOf[r]])
      <4>1. CASE r = p
        BY <2>0, <3>3, <4>1, PubTime
      <4>2. CASE r \in receipts
        BY <3>3, <4>2, PubTime DEF StoreInv, TypeOK
      <4> QED
        BY <2>3, <4>1, <4>2
    <3>5. ASSUME NEW j \in Journal, NEW n \in 1..Len(journal'[j])
          PROVE \E s \in Scope : JournalOf[s] = j /\ At[journal'[j][n]] <= Time(scopes'[s])
      <4>1. journal[j] \in Seq(Publication)
        BY DEF TypeOK
      <4>2. CASE n \in 1..Len(journal[j]) /\ journal'[j][n] = journal[j][n]
        <5>1. PICK s \in Scope : JournalOf[s] = j /\ At[journal[j][n]] <= Time(scopes[s])
          BY <4>2 DEF StoreInv
        <5>2. At[journal[j][n]] \in Nat
          BY <4>1, <4>2, PubTime
        <5> QED
          BY <3>3, <4>2, <5>1, <5>2
      <4>3. CASE j = JournalFor(p) /\ journal'[j][n] = p
        BY <2>0, <3>3, <4>3, PubTime DEF JournalFor
      <4>4. journal'[j] = journal[j] \/ (j = JournalFor(p) /\ journal'[j] = Append(journal[j], p))
        BY <2>3 DEF Write, TypeOK
      <4> QED
        BY <2>0, <4>1, <4>2, <4>3, <4>4
    <3> QED
      BY <3>1, <3>2, <3>4, <3>5 DEF StoreInv
  <2> QED
    BY <1>1, <1>2, <2>2, <2>3, TransactionStores
<1> QED
  BY <1>1, <1>2
     DEF Next, Handle, Send, TransactionFails, Refresh, Read, Reloaded, ReloadFails, Crash,
         Restart, storeVars, vars

LEMMA JournalStep ==
  ASSUME TypeOK, StoreInv, JournalInOrder, [Next]_vars PROVE JournalInOrder'
<1>1. CASE UNCHANGED journal
  BY <1>1 DEF JournalInOrder
<1>2. ASSUME NEW q \in Request, Transaction(q) PROVE JournalInOrder'
  <2> DEFINE p == request[q].pub
  <2>0. p \in Publication
    BY <1>2, TransactionRequests
  <2>1. CASE Write(p) /\ BatchAccepted(p)
    <3>1. ASSUME NEW j \in Journal, NEW m \in 1..Len(journal'[j]), NEW n \in 1..Len(journal'[j]),
                 m < n
          PROVE At[journal'[j][m]] < At[journal'[j][n]]
      <4>1. journal[j] \in Seq(Publication)
        BY DEF TypeOK
      <4>2. CASE j # JournalFor(p)
        BY <2>1, <3>1, <4>2 DEF Write, JournalInOrder, TypeOK
      <4>3. CASE j = JournalFor(p)
        <5>1. journal'[j] = Append(journal[j], p)
          BY <2>1, <4>3 DEF Write, TypeOK
        <5>2. CASE n \in 1..Len(journal[j])
          BY <3>1, <4>1, <5>1, <5>2 DEF JournalInOrder
        <5>3. CASE n = Len(journal[j]) + 1
          <6>1. m \in 1..Len(journal[j]) /\ journal'[j][m] = journal[j][m] /\ journal'[j][n] = p
            BY <3>1, <4>1, <5>1, <5>3
          <6> QED
            BY <2>0, <2>1, <4>3, <6>1, AcceptedIsNewest
        <5> QED
          BY <4>1, <5>1, <5>2, <5>3
      <4> QED
        BY <4>2, <4>3
    <3> QED
      BY <3>1 DEF JournalInOrder
  <2>2. CASE Write(p) /\ ~ BatchAccepted(p)
    BY <1>1, <2>2 DEF Write
  <2> QED
    BY <1>1, <1>2, <2>1, <2>2, TransactionStores DEF storeVars
<1> QED
  BY <1>1, <1>2
     DEF Next, Handle, Send, TransactionFails, Refresh, Read, Reloaded, ReloadFails, Crash,
         Restart, storeVars, vars

-----------------------------------------------------------------------------

LEMMA NotAheadTrans ==
  ASSUME NEW part \in Part, NEW a \in Snapshot(part), NEW b \in Snapshot(part), NEW c,
         \A s \in Selected(part) : c[s] \in Publication \cup {None},
         NotAhead(part, a, b), NotAhead(part, b, c)
  PROVE NotAhead(part, a, c)
<1> SUFFICES ASSUME NEW s \in Selected(part) PROVE Time(a[s]) <= Time(c[s])
  BY DEF NotAhead
<1>1. a[s] \in Publication \cup {None} /\ b[s] \in Publication \cup {None}
  BY DEF Snapshot
<1>2. Time(a[s]) \in Nat /\ Time(b[s]) \in Nat /\ Time(c[s]) \in Nat
  BY <1>1, TimeType
<1>3. Time(a[s]) <= Time(b[s]) /\ Time(b[s]) <= Time(c[s])
  BY DEF NotAhead
<1> QED
  BY <1>2, <1>3

LEMMA SelectedScopes ==
  ASSUME NEW part \in Part PROVE Selected(part) \subseteq Scope
  BY IngestionAssumption DEF Selected, Part

\* What was not ahead of the scopes is not ahead of the scopes a step leaves.
LEMMA StillNotAhead ==
  ASSUME TypeOK, TypeOK', [Next]_vars, NEW part \in Part, NEW a \in Snapshot(part),
         NotAhead(part, a, scopes)
  PROVE NotAhead(part, a, scopes')
<1> SUFFICES ASSUME NEW s \in Selected(part) PROVE Time(a[s]) <= Time(scopes'[s])
  BY DEF NotAhead
<1>1. s \in Scope /\ a[s] \in Publication \cup {None}
  BY SelectedScopes DEF Snapshot
<1>2. Time(a[s]) \in Nat /\ Time(scopes[s]) \in Nat /\ Time(scopes'[s]) \in Nat
  BY <1>1, TimeType DEF TypeOK
<1>3. Time(a[s]) <= Time(scopes[s]) /\ Time(scopes[s]) <= Time(scopes'[s])
  BY <1>1, ScopesAdvance DEF NotAhead
<1> QED
  BY <1>2, <1>3

LEMMA RowsNotAhead ==
  ASSUME TypeOK, NEW part \in Part
  PROVE NotAhead(part, Rows(part), scopes) /\ NotAhead(part, Nothing(part), scopes)
<1>1. ASSUME NEW s \in Selected(part)
      PROVE /\ Rows(part)[s] = scopes[s] /\ Nothing(part)[s] = None
            /\ Time(scopes[s]) \in Nat /\ Time(None) = 0
  BY SelectedScopes, TimeType, IngestionAssumption DEF Rows, Nothing, TypeOK, Time
<1> QED
  BY <1>1 DEF NotAhead

\* What readers see, what the head of the queue has read and what is stored.
LEMMA ReadStep ==
  ASSUME TypeOK, TypeOK', QueueInv, LastInv, ReadInv, [Next]_vars PROVE ReadInv'
<1>1. \A part \in Part :
        projection[part] \in Snapshot(part) /\ NotAhead(part, projection[part], scopes')
  BY StillNotAhead DEF ReadInv, TypeOK
<1>2. ASSUME NEW r \in Request, NEW part \in Part, request[r].read[part] # None
      PROVE /\ request[r].read[part] \in Snapshot(part)
            /\ NotAhead(part, projection[part], request[r].read[part])
            /\ NotAhead(part, request[r].read[part], scopes')
  <2>1. request[r].read[part] \in Snapshot(part)
    BY <1>2 DEF TypeOK
  <2> QED
    BY <1>2, <2>1, StillNotAhead DEF ReadInv
<1>3. ASSUME UNCHANGED projection, NEW q \in Request,
             \A r \in Request : r # q => request'[r] = request[r],
             \A part \in Part :
               request'[q].read[part] \in {None, request[q].read[part]}
      PROVE ReadInv'
  <2>1. ASSUME NEW r \in Request, NEW part \in Part, request'[r].read[part] # None
        PROVE request'[r].read[part] = request[r].read[part]
    BY <1>3, <2>1
  <2> QED
    BY <1>1, <1>2, <1>3, <2>1 DEF ReadInv
<1>4. ASSUME NEW q \in Request, MyTurn(q),
             \A r \in Request : r # q => request'[r] = request[r],
             \A part \in Part : request'[q].read[part] = None,
             \/ UNCHANGED projection
             \/ request[q].read["baselines"] # None /\ projection' = request[q].read
      PROVE ReadInv'
  <2>1. \A r \in Request : \A part \in Part : request'[r].read[part] = None
    BY <1>4, HeadOfTail DEF QueueInv
  <2>2. ASSUME NEW part \in Part PROVE NotAhead(part, projection'[part], scopes')
    BY <1>1, <1>2, <1>4, CompleteReading
  <2> QED
    BY <2>1, <2>2 DEF ReadInv
<1>5. ASSUME NEW q \in Request, NEW p \in Publication, Send(q, p) PROVE ReadInv'
  <2>1. UNCHANGED projection
    BY <1>5 DEF Send
  <2>2. /\ \A part \in Part : request'[q].read[part] = None
        /\ \A r \in Request : r # q => request'[r] = request[r]
    BY <1>5, SendRequests
  <2> QED
    BY <1>3, <2>1, <2>2
<1>6. ASSUME NEW q \in Request, Transaction(q) PROVE ReadInv'
  BY <1>3, <1>6, TransactionRequests
<1>7. ASSUME NEW q \in Request, TransactionFails(q) PROVE ReadInv'
  <2>1. UNCHANGED projection /\ Fails(q)
    BY <1>7 DEF TransactionFails
  <2> QED
    BY <1>3, <2>1, FailedRequests
<1>8. ASSUME NEW q \in Request, Refresh(q) PROVE ReadInv'
  <2>1. UNCHANGED projection
    BY <1>8 DEF Refresh
  <2> QED
    BY <1>3, <1>8, <2>1, RefreshRequests
<1>9. ASSUME NEW q \in Request, NEW part \in Part, Read(q, part) PROVE ReadInv'
  <2>1. UNCHANGED projection /\ UNCHANGED scopes
    BY <1>9 DEF Read, storeVars
  <2>2. /\ NotAhead(part, projection[part], Rows(part))
        /\ NotAhead(part, Rows(part), scopes)
    <3>1. \A s \in Selected(part) : Rows(part)[s] = scopes[s]
      BY DEF Rows
    <3> QED
      BY <3>1, RowsNotAhead DEF ReadInv, NotAhead
  <2>3. ASSUME NEW r \in Request, NEW other \in Part, request'[r].read[other] # None
        PROVE /\ NotAhead(other, projection'[other], request'[r].read[other])
              /\ NotAhead(other, request'[r].read[other], scopes')
    <3>1. CASE r = q /\ other = part
      BY <1>9, <2>1, <2>2, <3>1, ReadRequests
    <3>2. CASE request'[r].read[other] = request[r].read[other]
      BY <1>2, <2>1, <2>3, <3>2
    <3> QED
      BY <1>9, <3>1, <3>2, ReadRequests
  <2> QED
    BY <1>1, <2>1, <2>3 DEF ReadInv
<1>10. ASSUME NEW q \in Request, Reloaded(q) PROVE ReadInv'
  <2>1. MyTurn(q) /\ request[q].read["baselines"] # None /\ projection' = request[q].read
    BY <1>10 DEF Reloaded
  <2> QED
    BY <1>4, <1>10, <2>1, ReloadedRequests
<1>11. ASSUME NEW q \in Request, ReloadFails(q) PROVE ReadInv'
  <2>1. /\ MyTurn(q) /\ Fails(q)
        /\ \/ UNCHANGED projection
           \/ request[q].read["baselines"] # None /\ projection' = request[q].read
    BY <1>11 DEF ReloadFails
  <2> QED
    BY <1>4, <2>1, FailedRequests
<1>12. CASE Crash
  <2>1. \A part \in Part : projection'[part] = Nothing(part)
    BY <1>12 DEF Crash
  <2>2. UNCHANGED scopes
    BY <1>12 DEF Crash, storeVars
  <2>3. \A r \in Request : \A part \in Part : request'[r].read[part] = None
    BY <1>12, CrashRequests
  <2> QED
    BY <2>1, <2>2, <2>3, RowsNotAhead DEF ReadInv
<1>13. CASE Restart
  <2>1. \A part \in Part : projection'[part] = Rows(part)
    BY <1>13 DEF Restart, Restored
  <2>2. UNCHANGED scopes /\ UNCHANGED request /\ ~ up
    BY <1>13 DEF Restart, storeVars
  <2>3. \A r \in Request : \A part \in Part : request'[r].read[part] = None
    BY <2>2 DEF QueueInv, Answered
  <2> QED
    BY <2>1, <2>2, <2>3, RowsNotAhead DEF ReadInv
<1>14. CASE UNCHANGED vars
  BY <1>14 DEF vars, storeVars, ReadInv
<1> QED
  BY <1>5, <1>6, <1>7, <1>8, <1>9, <1>10, <1>11, <1>12, <1>13, <1>14 DEF Next, Handle

LEMMA ReceiptsGrow ==
  ASSUME [Next]_vars PROVE receipts \subseteq receipts' /\ published \subseteq published'
<1>1. CASE UNCHANGED storeVars
  BY <1>1 DEF storeVars
<1>2. ASSUME NEW q \in Request, Transaction(q)
      PROVE receipts \subseteq receipts' /\ published \subseteq published'
  BY <1>1, <1>2, TransactionStores DEF Write
<1> QED
  BY <1>1, <1>2
     DEF Next, Handle, Send, TransactionFails, Refresh, Read, Reloaded, ReloadFails, Crash,
         Restart, storeVars, vars

\* A committed request has its receipt, and what it read includes it.
LEMMA CommittedStep ==
  ASSUME TypeOK, StoreInv, QueueInv, CommittedInv, [Next]_vars PROVE CommittedInv'
<1> DEFINE Good(r, x, rs) ==
      x.stage \in {"committed", "reloading"} =>
        /\ x.pub \in rs
        /\ \A part \in Part :
             x.read[part] # None /\ ScopeOf[x.pub] \in Selected(part) =>
               At[x.pub] <= Time(x.read[part][ScopeOf[x.pub]])
<1>1. ASSUME NEW r \in Request, request'[r] = request[r] PROVE Good(r, request'[r], receipts')
  BY <1>1, ReceiptsGrow DEF CommittedInv
<1>2. ASSUME NEW r \in Request, request'[r].stage \notin {"committed", "reloading"}
      PROVE Good(r, request'[r], receipts')
  BY <1>2
<1>3. SUFFICES ASSUME NEW r \in Request PROVE Good(r, request'[r], receipts')
  BY DEF CommittedInv
<1>4. ASSUME NEW q \in Request, NEW p \in Publication, Send(q, p)
      PROVE Good(r, request'[r], receipts')
  BY <1>1, <1>2, <1>4, SendRequests
<1>5. ASSUME NEW q \in Request, Transaction(q) PROVE Good(r, request'[r], receipts')
  <2>1. CASE r = q /\ request'[q].stage = "committed"
    <3>1. request'[q].pub \in receipts' /\ request'[q].read = request[q].read
      BY <1>5, <2>1, TransactionRequests
    <3>2. \A part \in Part : request[q].read[part] = None
      <4>1. request[q].stage = "sent"
        BY <1>5, TransactionRequests
      <4> QED
        BY <4>1 DEF QueueInv
    <3> QED
      BY <2>1, <3>1, <3>2
  <2> QED
    BY <1>1, <1>2, <1>5, <2>1, TransactionRequests
<1>6. ASSUME NEW q \in Request, Fails(q) PROVE Good(r, request'[r], receipts')
  BY <1>1, <1>2, <1>6, FailedRequests
<1>7. ASSUME NEW q \in Request, Refresh(q) PROVE Good(r, request'[r], receipts')
  <2>1. request[q].stage = "committed" /\ receipts' = receipts
    BY <1>7 DEF Refresh, storeVars
  <2>2. CASE r = q
    BY <1>7, <2>1, <2>2, RefreshRequests DEF CommittedInv
  <2> QED
    BY <1>1, <1>7, <2>2, RefreshRequests
<1>8. ASSUME NEW q \in Request, NEW part \in Part, Read(q, part)
      PROVE Good(r, request'[r], receipts')
  <2>1. request[q].stage = "reloading" /\ receipts' = receipts
    BY <1>8 DEF Read, MyTurn, storeVars
  <2> DEFINE p == request[q].pub
  <2>2. p \in receipts /\ At[p] <= Time(scopes[ScopeOf[p]])
    BY <2>1 DEF CommittedInv, StoreInv
  <2>3. CASE r = q
    <3>1. ASSUME NEW other \in Part, request'[q].read[other] # None,
                 ScopeOf[p] \in Selected(other)
          PROVE At[p] <= Time(request'[q].read[other][ScopeOf[p]])
      <4>1. CASE other = part
        <5>1. request'[q].read[other] = Rows(part)
          BY <1>8, <4>1, ReadRequests
        <5>2. Rows(part)[ScopeOf[p]] = scopes[ScopeOf[p]]
          BY <3>1, <4>1 DEF Rows
        <5> QED
          BY <2>2, <5>1, <5>2
      <4>2. CASE other # part
        <5>1. request'[q].read[other] = request[q].read[other]
          BY <1>8, <4>2, ReadRequests
        <5> QED
          BY <2>1, <3>1, <5>1 DEF CommittedInv
      <4> QED
        BY <4>1, <4>2
    <3>2. request'[q].pub = p
      BY <1>8, ReadRequests
    <3> QED
      BY <2>1, <2>2, <2>3, <3>1, <3>2
  <2> QED
    BY <1>1, <1>8, <2>3, ReadRequests
<1>9. ASSUME NEW q \in Request, Reloaded(q) PROVE Good(r, request'[r], receipts')
  BY <1>1, <1>2, <1>9, ReloadedRequests
<1>10. CASE Crash
  BY <1>2, <1>10, CrashRequests DEF Answered
<1>11. CASE Restart
  BY <1>1, <1>11 DEF Restart
<1>12. CASE UNCHANGED vars
  BY <1>1, <1>12 DEF vars
<1> QED
  BY <1>4, <1>5, <1>6, <1>7, <1>8, <1>9, <1>10, <1>11, <1>12
     DEF Next, Handle, TransactionFails, ReloadFails

\* A notice is owed by one request at most, and only for what was accepted.
LEMMA NoticeStep ==
  ASSUME TypeOK, StoreInv, QueueInv, NoticeInv, [Next]_vars PROVE NoticeInv'
<1>1. ASSUME UNCHANGED announced,
             \A r \in Request : request'[r].notice =>
               /\ request[r].notice /\ request'[r].pub = request[r].pub
               /\ request'[r].stage \in {"committed", "reloading"}
      PROVE NoticeInv'
  BY <1>1, ReceiptsGrow DEF NoticeInv
<1>2. ASSUME NEW q \in Request, NEW p \in Publication, Send(q, p) PROVE NoticeInv'
  <2>1. UNCHANGED announced
    BY <1>2 DEF Send, historyVars
  <2> QED
    BY <1>1, <1>2, <2>1, SendRequests DEF NoticeInv
<1>3. ASSUME NEW q \in Request, Transaction(q) PROVE NoticeInv'
  <2> DEFINE p == request[q].pub
  <2>1. UNCHANGED announced
    BY <1>3, TransactionRequests
  <2>2. ASSUME request'[q].notice
        PROVE /\ request'[q].stage = "committed" /\ request'[q].pub = p
              /\ ~ Repeated(p) /\ ~ Stale(p) /\ p \in receipts' /\ p \in Publication
    BY <1>3, <2>2, TransactionRequests
  <2>3. ASSUME request'[q].notice
        PROVE /\ p \notin published /\ p \in published'
    <3>1. p \notin receipts
      BY <2>2, <2>3 DEF Repeated
    <3>2. ~ UNCHANGED receipts
      BY <2>2, <2>3, <3>1
    <3>3. Write(p)
      BY <1>3, <2>2, <2>3, <3>2, TransactionStores DEF storeVars
    <3> QED
      BY <3>1, <3>3 DEF StoreInv, Write
  <2>4. ASSUME request'[q].notice PROVE announced[p] = 0
    <3>1. p \in Publication /\ announced[p] \in Nat
      BY <2>2, <2>4 DEF TypeOK
    <3> QED
      BY <2>3, <2>4, <3>1 DEF NoticeInv
  <2>5. ASSUME NEW r \in Request, request'[r].notice, r # q
        PROVE /\ request'[r] = request[r] /\ request[r].notice
    BY <1>3, <2>5, TransactionRequests
  <2>6. ASSUME NEW r \in Request, request'[r].notice
        PROVE /\ request'[r].stage \in {"committed", "reloading"}
              /\ request'[r].pub \in published'
              /\ announced'[request'[r].pub] = 0
    <3>1. CASE r = q
      BY <2>1, <2>2, <2>3, <2>4, <2>6, <3>1
    <3>2. CASE r # q
      BY <2>1, <2>5, <2>6, <3>2, ReceiptsGrow DEF NoticeInv
    <3> QED
      BY <3>1, <3>2
  <2>7. ASSUME NEW r \in Request, NEW t \in Request, request'[r].notice, request'[t].notice,
               request'[r].pub = request'[t].pub
        PROVE r = t
    <3>1. CASE r # q /\ t # q
      BY <2>5, <2>7, <3>1 DEF NoticeInv
    <3>2. CASE r = q /\ t # q
      BY <2>2, <2>3, <2>5, <2>7, <3>2 DEF NoticeInv
    <3>3. CASE r # q /\ t = q
      BY <2>2, <2>3, <2>5, <2>7, <3>3 DEF NoticeInv
    <3> QED
      BY <3>1, <3>2, <3>3
  <2> QED
    BY <2>1, <2>6, <2>7, ReceiptsGrow DEF NoticeInv
<1>4. ASSUME NEW q \in Request, Fails(q), UNCHANGED announced PROVE NoticeInv'
  BY <1>1, <1>4, FailedRequests DEF NoticeInv
<1>5. ASSUME NEW q \in Request, Refresh(q) PROVE NoticeInv'
  <2>1. UNCHANGED announced
    BY <1>5 DEF Refresh, historyVars
  <2> QED
    BY <1>1, <1>5, <2>1, RefreshRequests DEF NoticeInv
<1>6. ASSUME NEW q \in Request, NEW part \in Part, Read(q, part) PROVE NoticeInv'
  <2>1. UNCHANGED announced
    BY <1>6 DEF Read, historyVars
  <2> QED
    BY <1>1, <1>6, <2>1, ReadRequests DEF NoticeInv
<1>7. ASSUME NEW q \in Request, Reloaded(q) PROVE NoticeInv'
  <2> DEFINE p == request[q].pub
  <2>1. p \in Publication
    BY <1>7, SentIsPublication DEF Reloaded, MyTurn, Answered
  <2>2. \A r \in Request : request'[r].notice => r # q /\ request'[r] = request[r]
    BY <1>7, ReloadedRequests
  <2>3. CASE ~ request[q].notice
    <3>1. UNCHANGED announced
      BY <1>7, <2>3 DEF Reloaded, Announced
    <3> QED
      BY <1>1, <2>2, <3>1 DEF NoticeInv
  <2>4. CASE request[q].notice
    <3>1. announced[p] = 0 /\ p \in published /\ p \in published'
      BY <2>4, ReceiptsGrow DEF NoticeInv
    <3>2. announced' = [announced EXCEPT ![p] = @ + 1]
      BY <1>7, <2>4 DEF Reloaded, Announced
    <3>3. \A t \in Publication : announced'[t] = IF t = p THEN 1 ELSE announced[t]
      BY <2>1, <3>1, <3>2 DEF TypeOK
    <3>4. \A r \in Request : request'[r].notice => request[r].pub # p
      BY <2>2, <2>4 DEF NoticeInv
    <3>5. \A r \in Request : request'[r].notice => request[r].pub \in Publication
      BY <2>2 DEF NoticeInv, TypeOK
    <3> QED
      BY <2>2, <3>1, <3>3, <3>4, <3>5, ReceiptsGrow DEF NoticeInv
  <2> QED
    BY <2>3, <2>4
<1>8. CASE Crash
  <2>1. UNCHANGED announced
    BY <1>8 DEF Crash, historyVars
  <2>2. ASSUME NEW r \in Request PROVE ~ request'[r].notice
    BY <1>8, <2>2, CrashRequests DEF NoticeInv, Answered
  <2> QED
    BY <1>1, <2>1, <2>2
<1>9. CASE Restart
  BY <1>1, <1>9 DEF Restart, historyVars, NoticeInv
<1>10. CASE UNCHANGED vars
  BY <1>1, <1>10 DEF vars, historyVars, NoticeInv
<1>11. ASSUME NEW q \in Request, TransactionFails(q) PROVE NoticeInv'
  BY <1>4, <1>11 DEF TransactionFails, historyVars
<1>12. ASSUME NEW q \in Request, ReloadFails(q) PROVE NoticeInv'
  BY <1>4, <1>12 DEF ReloadFails, historyVars
<1> QED
  BY <1>2, <1>3, <1>5, <1>6, <1>7, <1>8, <1>9, <1>10, <1>11, <1>12 DEF Next, Handle

\* What was answered or announced is shown.
LEMMA ShownStep ==
  ASSUME TypeOK, TypeOK', StoreInv, QueueInv, LastInv, ReadInv, CommittedInv, NoticeInv,
         ShownInv, [Next]_vars
  PROVE ShownInv'
<1> DEFINE Due(p) == p \in acknowledged \/ announced[p] > 0
           Covered(p) == \A part \in Part : ScopeOf[p] \in Selected(part) =>
                           At[p] <= Time(projection[part][ScopeOf[p]])
<1>1. ASSUME NEW p \in Publication, Due(p) PROVE p \in receipts
  <2>1. announced[p] \in Nat
    BY DEF TypeOK
  <2> QED
    BY <1>1, <2>1 DEF ShownInv, NoticeInv, StoreInv
<1>2. ASSUME NEW p \in Publication, up, Due(p) PROVE Covered(p)
  BY <1>2 DEF ShownInv
<1>3. ASSUME UNCHANGED <<acknowledged, announced>>, UNCHANGED projection, up' => up PROVE ShownInv'
  BY <1>3, ReceiptsGrow DEF ShownInv
<1>4. ASSUME NEW q \in Request, up, request[q].read["baselines"] # None,
             projection' = request[q].read, NEW p \in Publication, Due(p)
      PROVE Covered(p)'
  <2> SUFFICES ASSUME NEW part \in Part, ScopeOf[p] \in Selected(part)
               PROVE At[p] <= Time(projection'[part][ScopeOf[p]])
    OBVIOUS
  <2>1. At[p] <= Time(projection[part][ScopeOf[p]])
    BY <1>2, <1>4
  <2>2. request[q].read[part] # None
    BY <1>4, CompleteReading
  <2>3. Time(projection[part][ScopeOf[p]]) <= Time(projection'[part][ScopeOf[p]])
    BY <1>4, <2>2 DEF ReadInv, NotAhead
  <2>4. /\ projection[part][ScopeOf[p]] \in Publication \cup {None}
        /\ projection'[part][ScopeOf[p]] \in Publication \cup {None}
    BY DEF TypeOK, Snapshot
  <2>5. /\ At[p] \in Nat /\ Time(projection[part][ScopeOf[p]]) \in Nat
        /\ Time(projection'[part][ScopeOf[p]]) \in Nat
    BY <2>4, TimeType, PubTime
  <2> QED
    BY <2>1, <2>3, <2>5
<1>5. ASSUME NEW q \in Request, Reloaded(q) PROVE ShownInv'
  <2> DEFINE new == request[q].pub
  <2>1. /\ up /\ request[q].stage = "reloading" /\ request[q].read["baselines"] # None
        /\ projection' = request[q].read /\ acknowledged' = acknowledged \cup {new}
    BY <1>5 DEF Reloaded, MyTurn
  <2>2. new \in Publication /\ new \in receipts
    BY <2>1, SentIsPublication DEF Answered, CommittedInv
  <2>3. ASSUME NEW p \in Publication, p = new, NEW part \in Part, ScopeOf[p] \in Selected(part)
        PROVE At[p] <= Time(projection'[part][ScopeOf[p]])
    <3>1. request[q].read[part] # None
      BY <2>1, CompleteReading
    <3> QED
      BY <2>1, <2>3, <3>1 DEF CommittedInv
  <2>4. \A p \in Publication : p # new => announced'[p] = announced[p]
    BY <1>5, <2>2 DEF Reloaded, TypeOK
  <2>5. ASSUME NEW p \in Publication, Due(p)' PROVE Covered(p)'
    <3>1. CASE p = new
      BY <2>3, <3>1
    <3>2. CASE p # new
      <4>1. Due(p)
        BY <2>1, <2>4, <2>5, <3>2
      <4> QED
        BY <1>4, <2>1, <4>1
    <3> QED
      BY <3>1, <3>2
  <2>6. acknowledged' \subseteq receipts'
    BY <2>1, <2>2, ReceiptsGrow DEF ShownInv
  <2> QED
    BY <2>5, <2>6 DEF ShownInv
<1>6. ASSUME NEW q \in Request, ReloadFails(q) PROVE ShownInv'
  <2>1. up /\ up' = up /\ UNCHANGED <<acknowledged, announced>>
    BY <1>6 DEF ReloadFails, historyVars
  <2>2. CASE UNCHANGED projection
    BY <1>3, <2>1, <2>2
  <2>3. CASE request[q].read["baselines"] # None /\ projection' = request[q].read
    <3>1. \A p \in Publication : Due(p) => Covered(p)'
      BY <1>4, <2>1, <2>3
    <3> QED
      BY <2>1, <3>1, ReceiptsGrow DEF ShownInv
  <2> QED
    BY <1>6, <2>2, <2>3 DEF ReloadFails
<1>7. CASE Crash
  <2>1. up' = FALSE
    BY <1>7, Zenon DEF Crash
  <2>2. UNCHANGED <<acknowledged, announced>>
    BY <1>7 DEF Crash, historyVars
  <2> QED
    BY <2>1, <2>2, ReceiptsGrow DEF ShownInv
<1>8. CASE Restart
  <2>1. \A part \in Part : projection'[part] = Rows(part)
    BY <1>8 DEF Restart, Restored
  <2>2. UNCHANGED <<acknowledged, announced>> /\ receipts' = receipts
    BY <1>8 DEF Restart, historyVars, storeVars
  <2>3. ASSUME NEW p \in Publication, Due(p), NEW part \in Part, ScopeOf[p] \in Selected(part)
        PROVE At[p] <= Time(projection'[part][ScopeOf[p]])
    <3>1. Rows(part)[ScopeOf[p]] = scopes[ScopeOf[p]]
      BY <2>3 DEF Rows
    <3>2. At[p] <= Time(scopes[ScopeOf[p]])
      BY <1>1, <2>3 DEF StoreInv
    <3> QED
      BY <2>1, <3>1, <3>2
  <2> QED
    BY <2>2, <2>3 DEF ShownInv
<1>9. ASSUME NEW q \in Request, Transaction(q) PROVE ShownInv'
  BY <1>3, <1>9, TransactionRequests
<1> QED
  BY <1>3, <1>5, <1>6, <1>7, <1>8, <1>9
     DEF Next, Handle, Send, TransactionFails, Refresh, Read, vars, historyVars

-----------------------------------------------------------------------------

LEMMA InvInit == Init => IInv
<1> SUFFICES ASSUME Init PROVE IInv
  OBVIOUS
<1>1. TypeOK
  BY TypeInit
<1>2. /\ up /\ receipts = {} /\ published = {} /\ acknowledged = {}
      /\ \A j \in Journal : Len(journal[j]) = 0
      /\ Len(tail) = 0 /\ \A p \in Publication : announced[p] = 0
  BY DEF Init
<1>3. ASSUME NEW q \in Request
      PROVE /\ request[q].stage = "idle" /\ request[q].notice = FALSE
            /\ \A part \in Part : request[q].read[part] = None
  <2>1. request[q] = Idle
    BY DEF Init
  <2>2. request[q].stage = "idle" /\ request[q].notice = FALSE
    BY <2>1 DEF Idle, Blank
  <2>3. \A part \in Part : request[q].read[part] = None
    BY <2>1 DEF Idle, Blank
  <2> QED
    BY <2>2, <2>3
<1>4. StoreInv /\ JournalInOrder
  BY <1>2 DEF StoreInv, JournalInOrder
<1>5. QueueInv
  <2>1. \A q \in Request : request[q].stage # "reloading"
    BY <1>3
  <2>2. \A q \in Request : \A part \in Part : request[q].read[part] = None
    BY <1>3
  <2>3. 1..Len(tail) = {}
    BY <1>2
  <2>4. \A q \in Request : request[q].stage = "reloading" <=> \E n \in 1..Len(tail) : tail[n] = q
    BY <2>1, <2>3
  <2>5. up
    BY <1>2
  <2> QED
    BY <2>2, <2>3, <2>4, <2>5, Zenon DEF QueueInv
<1>6. LastInv
  BY <1>3 DEF LastInv, Part
<1>7. ReadInv
  <2>1. \A part \in Part : projection[part] = Nothing(part)
    BY DEF Init
  <2> QED
    BY <1>1, <1>3, <2>1, RowsNotAhead DEF ReadInv
<1>8. CommittedInv /\ NoticeInv
  <2>1. CommittedInv
    BY <1>3 DEF CommittedInv
  <2>2. \A q \in Request : ~ request[q].notice
    BY <1>3
  <2>3. \A p \in Publication : announced[p] <= 1 /\ announced[p] # 1
    BY <1>2
  <2>4. NoticeInv
    BY <2>2, <2>3, Zenon DEF NoticeInv
  <2> QED
    BY <2>1, <2>4
<1>9. ShownInv
  BY <1>2 DEF ShownInv
<1> QED
  BY <1>1, <1>4, <1>5, <1>6, <1>7, <1>8, <1>9 DEF IInv

LEMMA InvStep == IInv /\ [Next]_vars => IInv'
<1> SUFFICES ASSUME IInv, [Next]_vars PROVE IInv'
  OBVIOUS
<1> USE DEF IInv
<1>1. TypeOK'
  BY TypeStep
<1>2. StoreInv' /\ QueueInv' /\ LastInv' /\ CommittedInv' /\ NoticeInv' /\ JournalInOrder'
  BY StoreStep, QueueStep, LastStep, CommittedStep, NoticeStep, JournalStep
<1>3. ReadInv' /\ ShownInv'
  BY <1>1, ReadStep, ShownStep
<1> QED
  BY <1>1, <1>2, <1>3

(* The inductive invariant holds of every reachable state: what publish(),
   savePublication() and initialize() keep between them, whatever the order of
   requests, reloads and crashes.  The theorems below are read off it. *)
THEOREM Invariant == Spec => []IInv
  BY InvInit, InvStep, PTL DEF Spec

\* Every variable keeps its type: a query holds the rows it asked for.
THEOREM TypeCorrect == Spec => []TypeOK
<1>1. IInv => TypeOK
  BY DEF IInv
<1> QED
  BY <1>1, Invariant, PTL

\* The batches of a journal scope are stored in increasing time, whatever scopes
\* feed it and whatever is repeated or overtaken.
THEOREM HistoryOrdered == Spec => []JournalInOrder
<1>1. IInv => JournalInOrder
  BY DEF IInv
<1> QED
  BY <1>1, Invariant, PTL

\* Nothing is announced twice, nor what was not accepted.
THEOREM NoticesOnce == Spec => []AnnouncedOnce
<1>1. IInv => AnnouncedOnce
  BY DEF IInv, NoticeInv, AnnouncedOnce
<1> QED
  BY <1>1, Invariant, PTL

\* What was answered with 2xx or announced is shown, by this process or the next.
THEOREM AnswersShown == Spec => []AcknowledgedIsShown
<1>1. IInv => AcknowledgedIsShown
  <2> SUFFICES ASSUME IInv, NEW p \in Publication, up, p \in acknowledged \/ announced[p] > 0
               PROVE /\ Time(Shown(ScopeOf[p])) >= At[p]
                     /\ Time(projection["baselines"][ScopeOf[p]]) >= At[p]
    BY DEF AcknowledgedIsShown
  <2>1. \A part \in Part : ScopeOf[p] \in Selected(part) =>
          At[p] <= Time(projection[part][ScopeOf[p]])
    BY DEF IInv, ShownInv
  <2> DEFINE part == IF ScopeOf[p] \in ListScope THEN "lists" ELSE "details"
  <2>2. /\ part \in Part /\ "baselines" \in Part
        /\ ScopeOf[p] \in Selected(part) /\ ScopeOf[p] \in Selected("baselines")
    BY PubTime DEF Part, Selected
  <2>3. Shown(ScopeOf[p]) = projection[part][ScopeOf[p]]
    BY DEF Shown
  <2>4. /\ projection[part][ScopeOf[p]] \in Publication \cup {None}
        /\ projection["baselines"][ScopeOf[p]] \in Publication \cup {None}
    BY <2>2 DEF IInv, TypeOK, Snapshot
  <2>5. /\ At[p] \in Nat /\ Time(projection[part][ScopeOf[p]]) \in Nat
        /\ Time(projection["baselines"][ScopeOf[p]]) \in Nat
    BY <2>4, TimeType, PubTime
  <2> QED
    BY <2>1, <2>2, <2>3, <2>5
<1> QED
  BY <1>1, Invariant, PTL

\* The content answered for a run is the one recorded for it.
THEOREM RunsHaveOneContent == Spec => []OneContentPerRun
<1>1. IInv => OneContentPerRun
  BY DEF IInv, ShownInv, StoreInv, OneContentPerRun
<1> QED
  BY <1>1, Invariant, PTL

\* Scopes and event rows never go back in time.
THEOREM StoreAdvances == Spec => StoredAdvances
<1>1. ASSUME TypeOK, [Next]_vars
      PROVE [/\ \A s \in Scope : Time(scopes'[s]) >= Time(scopes[s])
             /\ \A e \in Event : rows'[e].seen >= rows[e].seen]_vars
  <2>1. \A e \in Event : rows[e].seen \in Nat
    BY <1>1 DEF TypeOK
  <2>2. CASE UNCHANGED rows
    BY <1>1, <2>1, <2>2, ScopesMove
  <2>3. ASSUME NEW q \in Request, Transaction(q)
        PROVE \A e \in Event : rows'[e].seen >= rows[e].seen
    <3> DEFINE p == request[q].pub
    <3>1. CASE Write(p)
      <4>1. p \in Publication
        BY <2>3, <1>1, TransactionRequests
      <4>2. ASSUME NEW e \in Event PROVE rows'[e].seen >= rows[e].seen
        <5>1. rows[e] \in [seen : Nat, listed : BOOLEAN] /\ At[p] \in Nat
          BY <1>1, <4>1, PubTime DEF TypeOK
        <5>2. rows'[e].seen = Seen(e, p) \/ rows'[e].seen = rows[e].seen
          BY <3>1, <5>1 DEF Write
        <5> QED
          BY <5>1, <5>2 DEF Seen
      <4> QED
        BY <4>2
    <3> QED
      BY <2>1, <2>3, <3>1, TransactionStores DEF storeVars
  <2> QED
    BY <1>1, <2>2, <2>3, ScopesMove
       DEF Next, Handle, Send, TransactionFails, Refresh, Read, Reloaded, ReloadFails, Crash,
           Restart, storeVars, vars
<1> QED
  BY <1>1, TypeCorrect, PTL DEF Spec, StoredAdvances

\* What readers are shown never goes back in time while the process lives.
THEOREM ProjectionAdvances == Spec => ShownAdvances
<1>1. ASSUME IInv, IInv', [Next]_vars
      PROVE [up /\ up' => \A part \in Part : \A s \in Selected(part) :
               Time(projection'[part][s]) >= Time(projection[part][s])]_vars
  <2> SUFFICES ASSUME up, up', NEW part \in Part, NEW s \in Selected(part)
               PROVE Time(projection'[part][s]) >= Time(projection[part][s])
    OBVIOUS
  <2>1. /\ Time(projection[part][s]) \in Nat /\ Time(projection'[part][s]) \in Nat
    BY <1>1, TimeType DEF IInv, TypeOK, Snapshot
  <2>2. CASE UNCHANGED projection
    BY <2>1, <2>2
  <2>3. ASSUME NEW q \in Request, request[q].read["baselines"] # None,
               projection' = request[q].read
        PROVE Time(projection'[part][s]) >= Time(projection[part][s])
    <3>1. request[q].read[part] # None
      BY <1>1, <2>3, CompleteReading DEF IInv
    <3>2. Time(projection[part][s]) <= Time(projection'[part][s])
      BY <1>1, <2>3, <3>1 DEF IInv, ReadInv, NotAhead
    <3> QED
      BY <2>1, <3>2
  <2>4. ~ Crash
    <3>1. Crash => up' = FALSE
      BY Zenon DEF Crash
    <3> QED
      BY <3>1
  <2>5. ~ Restart
    BY DEF Restart
  <2> QED
    BY <1>1, <2>2, <2>3, <2>4, <2>5
       DEF Next, Handle, Send, Transaction, TransactionFails, Refresh, Read, Reloaded,
           ReloadFails, vars
<1> QED
  BY <1>1, Invariant, PTL DEF Spec, ShownAdvances
=============================================================================
