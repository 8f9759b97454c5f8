---------------------- MODULE ProviderCollectionProofs ----------------------
(***************************************************************************)
(* Every safety property of ProviderCollection, for any esports, events,   *)
(* pages and times.  The requests and the stores are programs, sequences   *)
(* of steps; the invariant says what the steps still to come will do for   *)
(* what is held now, so most of it is about the positions of op.todo.  The *)
(* first sections prove what the programs of the five providers have in    *)
(* common, the others that no step of the process disturbs the invariant.  *)
(***************************************************************************)
EXTENDS ProviderCollection, SequenceTheorems, WellFoundedInduction, TLAPS

\* What collectors do, what one request of the provider does, and what follows
\* its commit.
CollectStep ==
  {s \in [do : {"enabled", "need", "open", "capture", "round", "push", "remember"},
          keys : SUBSET Key] : s.do = "push" => s.keys # {}}
RequestStep == CollectStep \cup [do : {"refresh", "commit"}, keys : {{}}]
PublishStep ==
  [do : {"ingest", "outbox", "journal", "file", "memory"}, keys : {{k} : k \in Key}] \cup
  [do : {"confirm"}, keys : SUBSET Key]

\* The steps n of s that do one of these for k.
Does(s, n, dos, k) == s[n].do \in dos /\ k \in s[n].keys

Op == [kind : {"none", "list", "detail"}, es : Seq(Esport),
       todo : Seq(RequestStep \cup PublishStep), rounds : Seq(Key),
       got : [Key -> Nat], since : [Key -> Nat], dropped : BOOLEAN,
       aborted : BOOLEAN, committing : BOOLEAN]
Cycle == [on : BOOLEAN, games : Seq(Esport), ok : BOOLEAN, turn : 1..Len(Batches)]

\* The variables' types.
TypeInv ==
  /\ provider \in Provider /\ mode \in {"agent", "cycle", "loop"} /\ remote \in BOOLEAN
  /\ enabled \in BOOLEAN /\ now \in Nat /\ up \in BOOLEAN /\ stopping \in BOOLEAN
  /\ loaded \in BOOLEAN
  /\ mem \in [Key -> Nat] /\ disk \in [Key -> Nat] /\ journal \in [Key -> Nat]
  /\ acked \in [Key -> Nat] /\ ctx \in [Esport -> Nat]
  /\ handle \in {"none", "current", "lost"} /\ ready \in BOOLEAN
  /\ op \in Op /\ cycle \in Cycle

\* Nothing is left of an operation that is over, nor of one the process died in.
IdleInv ==
  /\ op.kind = "none" => op = NoOp
  /\ ~ up => op = NoOp /\ ~ ready

\* What came late is nowhere but in an aborted operation, which never commits.
LateInv ==
  /\ late \subseteq 1..now
  /\ \A k \in Key :
       /\ {mem[k], disk[k], journal[k], acked[k], op.got[k]} \subseteq 0..now
       /\ {mem[k], disk[k], journal[k]} \cap late = {}
       /\ ~ op.aborted => op.got[k] \notin late
  /\ op.committing => ~ op.aborted

\* What an operation captured is newer than what is held, and not yet held
\* before the commit.
FreshInv ==
  \A k \in Key : op.got[k] > 0 =>
    /\ {mem[k], disk[k], journal[k], acked[k]} \subseteq 0..op.got[k]
    /\ ~ op.committing =>
         \A j \in Key : op.got[k] \notin {mem[j], disk[j], journal[j]}

\* Before its commit an operation refreshes the stores first, commits last, and
\* pushes and remembers only what it captured.
RequestInv ==
  op.kind # "none" /\ ~ op.committing =>
    /\ op.todo \in Seq(RequestStep)
    /\ loaded \/ (op.todo # <<>> /\ Head(op.todo).do = "refresh")
    /\ \A n \in 1..Len(op.todo) : op.todo[n].do = "commit" => n = Len(op.todo)
    /\ \A n \in 1..Len(op.todo), k \in Key :
         Does(op.todo, n, {"push", "remember"}, k) =>
           op.got[k] > 0 \/ \E m \in 1..(n - 1) : Does(op.todo, m, {"capture"}, k)
    /\ \A i \in 1..Len(op.rounds) : op.got[op.rounds[i]] > 0

\* Where a state survives a crash, and the one journal kept with its file.
Durable == IF remote THEN "outbox" ELSE "file"
OwnJournal(k) == remote /\ provider = "bet365" /\ k \in Esport

\* After its commit it writes what it captured: memory and file after the
\* journal, and the state where it survives beside, or before, the memory.
PublishInv ==
  op.committing =>
    /\ op.todo \in Seq(PublishStep) /\ loaded
    /\ \A n \in 1..Len(op.todo) :
         /\ \A k \in op.todo[n].keys : op.got[k] > 0
         /\ op.todo[n].do = "confirm" => n = Len(op.todo)
         /\ op.todo[n].do \in {"outbox", "file"} => op.todo[n].do = Durable
    /\ \A n \in 1..Len(op.todo), k \in Key :
         /\ Does(op.todo, n, {"memory", "file"}, k) /\ ~ OwnJournal(k) =>
              \/ journal[k] = op.got[k]
              \/ \E m \in 1..(n - 1) : Does(op.todo, m, {"journal"}, k)
         /\ Does(op.todo, n, {"memory"}, k) =>
              \/ (remote \/ n = 1) /\ disk[k] = op.got[k]
              \/ \E m \in 1..Len(op.todo) : /\ Does(op.todo, m, {Durable}, k)
                                           /\ (remote \/ m \in {n - 1, n + 1})

\* What memory has of this operation is durable, or about to be.
WriteInv ==
  \A k \in Key : op.got[k] > 0 /\ mem[k] = op.got[k] =>
    \/ disk[k] = op.got[k]
    \/ \E m \in 1..Len(op.todo) : Does(op.todo, m, {Durable}, k)

KeepsContext == Chrome \cup {"superbet"}

\* A context the scheduler counts on is held, and a listing that ends gets one
\* for each of its esports.
ContextInv ==
  provider \in KeepsContext =>
    /\ ReadyMeansContext
    /\ op.kind = "list" =>
         /\ mode = "agent" => op.es = Esports
         /\ \A e \in ToSet(op.es) :
              ctx[e] > 0 \/ \E n \in 1..Len(op.todo) : Does(op.todo, n, {"remember"}, e)

Opening == IF provider = "betano" THEN {"open", "need"} ELSE {"open"}

\* A capture with no tab comes after a step that opens one.
OpenInv ==
  provider \in Chrome /\ handle # "current" /\ ~ op.dropped =>
    \A n \in 1..Len(op.todo) : op.todo[n].do = "capture" =>
      \E m \in 1..(n - 1) : op.todo[m].do \in Opening

-----------------------------------------------------------------------------
(* Sequences.                                                              *)

\* One sequence, then another.
LEMMA Joined ==
  ASSUME NEW S, NEW s \in Seq(S), NEW t \in Seq(S)
  PROVE /\ s \o t \in Seq(S) /\ Len(s \o t) = Len(s) + Len(t)
        /\ Len(s) \in Nat /\ Len(t) \in Nat
        /\ \A i \in 1..Len(s) : (s \o t)[i] = s[i]
        /\ \A i \in 1..Len(t) : (s \o t)[Len(s) + i] = t[i]
<1>1. s \o t \in Seq(S) /\ Len(s \o t) = Len(s) + Len(t) /\ Len(s) \in Nat /\ Len(t) \in Nat
  BY ConcatProperties, LenProperties
<1>2. \A i \in 1..(Len(s) + Len(t)) :
        (s \o t)[i] = IF i <= Len(s) THEN s[i] ELSE t[i - Len(s)]
  BY ConcatProperties
<1>3. \A i \in 1..Len(t) : (s \o t)[Len(s) + i] = t[i]
  <2>1. ASSUME NEW i \in 1..Len(t) PROVE (s \o t)[Len(s) + i] = t[i]
    <3>1. Len(s) + i \in 1..(Len(s) + Len(t)) /\ ~ (Len(s) + i <= Len(s))
          /\ (Len(s) + i) - Len(s) = i
      BY <1>1
    <3> QED
      BY <1>2, <3>1
  <2> QED
    BY <2>1
<1> QED
  BY <1>1, <1>2, <1>3

\* A function on 1..n is a sequence of that length.
LEMMA AsSequence ==
  ASSUME NEW S, NEW n \in Nat, NEW f \in [1..n -> S]
  PROVE f \in Seq(S) /\ Len(f) = n
  OBVIOUS

\* What FlattenSeq is: the sequences one after another.
Flattens(f, ss) ==
  f = [i \in 1..Len(ss) |-> IF i = 1 THEN ss[i] ELSE f[i - 1] \o ss[i]]

\* A set of naturals that is not empty has a least element.
LEMMA LeastNatural ==
  ASSUME NEW T, T \subseteq Nat, T # {}
  PROVE \E n \in T : \A m \in T : n <= m
<1>1. PICK n \in T : \A m \in T : ~ (<<m, n>> \in OpToRel(<, Nat))
  BY NatLessThanWellFounded, WFMin
<1>2. \A m \in T : ~ (m < n)
  BY <1>1 DEF OpToRel
<1> QED
  BY <1>2

\* A sequence of sequences can be flattened: the shortest that could not be has a
\* front that can.
LEMMA FlattenDefined ==
  ASSUME NEW S, NEW ss \in Seq(S)
  PROVE \E f : Flattens(f, ss)
<1> DEFINE Upto(f, n) == f = [i \in 1..n |-> IF i = 1 THEN ss[i] ELSE f[i - 1] \o ss[i]]
           T == {n \in Nat : ~ \E f : Upto(f, n)}
<1>1. T = {}
  <2> SUFFICES ASSUME T # {} PROVE FALSE
    OBVIOUS
  <2>1. PICK n \in T : \A m \in T : n <= m
    BY LeastNatural
  <2>2. CASE n = 0
    <3>1. Upto([i \in 1..0 |-> ss[i]], 0)
      OBVIOUS
    <3> QED
      BY <2>1, <2>2, <3>1
  <2>3. CASE n # 0
    <3>0. n \in Nat /\ n - 1 \in Nat
      BY <2>1, <2>3
    <3>1. n - 1 \notin T
      <4> HIDE DEF T
      <4> QED
        BY <2>1, <3>0
    <3>2. PICK f : Upto(f, n - 1)
      BY <3>0, <3>1
    <3> DEFINE g == [i \in 1..n |-> IF i = 1 THEN ss[i] ELSE f[i - 1] \o ss[i]]
    <3>3. \A i \in 1..(n - 1) : f[i] = IF i = 1 THEN ss[i] ELSE f[i - 1] \o ss[i]
      BY <3>2, Zenon
    <3>4. \A i \in 1..n : i # 1 => g[i - 1] = f[i - 1]
      <4>1. \A i \in 1..(n - 1) : i \in 1..n
        BY <3>0
      <4>2. \A i \in 1..(n - 1) : g[i] = f[i]
        BY <3>3, <4>1, Zenon
      <4>3. \A i \in 1..n : i # 1 => i - 1 \in 1..(n - 1)
        BY <3>0
      <4> QED
        BY <4>2, <4>3, Zenon
    <3>5. g = [i \in 1..n |-> IF i = 1 THEN ss[i] ELSE g[i - 1] \o ss[i]]
      BY <3>4
    <3>6. Upto(g, n)
      BY <3>5
    <3> QED
      BY <2>1, <3>6
  <2> QED
    BY <2>2, <2>3
<1>2. Len(ss) \in Nat
  BY LenProperties
<1> QED
  BY <1>1, <1>2 DEF Flattens

\* FlattenSeq flattens.
LEMMA FlattenIs ==
  ASSUME NEW S, NEW ss \in Seq(S), Len(ss) > 0
  PROVE \E f : Flattens(f, ss) /\ FlattenSeq(ss) = f[Len(ss)]
<1> DEFINE f == CHOOSE g : g = [i \in 1..Len(ss) |-> IF i = 1 THEN ss[i] ELSE g[i - 1] \o ss[i]]
<1>1. Flattens(f, ss)
  BY FlattenDefined DEF Flattens
<1>2. FlattenSeq(ss) = f[Len(ss)]
  BY LenProperties DEF FlattenSeq
<1> QED
  BY <1>1, <1>2

-----------------------------------------------------------------------------
(* The requests.                                                           *)

\* What is pushed or remembered was captured before.
Sourced(s) ==
  \A n \in 1..Len(s), k \in Key :
    Does(s, n, {"push", "remember"}, k) =>
      \E m \in 1..(n - 1) : Does(s, m, {"capture"}, k)

\* Pushes stay after their captures when programs are put one after another.
LEMMA SourcedJoined ==
  ASSUME NEW s \in Seq(CollectStep), NEW t \in Seq(CollectStep), Sourced(s),
         \A n \in 1..Len(t), k \in Key : Does(t, n, {"push", "remember"}, k) =>
           \/ \E m \in 1..(n - 1) : Does(t, m, {"capture"}, k)
           \/ \E m \in 1..Len(s) : Does(s, m, {"capture"}, k)
  PROVE s \o t \in Seq(CollectStep) /\ Sourced(s \o t)
<1> DEFINE u == s \o t
<1>1. /\ u \in Seq(CollectStep) /\ Len(u) = Len(s) + Len(t)
      /\ Len(s) \in Nat /\ Len(t) \in Nat
      /\ \A i \in 1..Len(s) : u[i] = s[i]
      /\ \A i \in 1..Len(t) : u[Len(s) + i] = t[i]
  BY Joined
<1> HIDE DEF u
<1>2. ASSUME NEW n \in 1..Len(u), NEW k \in Key, Does(u, n, {"push", "remember"}, k)
      PROVE \E m \in 1..(n - 1) : Does(u, m, {"capture"}, k)
  <2>1. CASE n <= Len(s)
    <3>1. n \in 1..Len(s) /\ Does(s, n, {"push", "remember"}, k)
      BY <1>1, <1>2, <2>1 DEF Does
    <3>2. PICK m \in 1..(n - 1) : Does(s, m, {"capture"}, k)
      BY <3>1 DEF Sourced
    <3>3. m \in 1..Len(s) /\ u[m] = s[m]
      BY <1>1, <3>1
    <3> QED
      BY <3>2, <3>3 DEF Does
  <2>2. CASE ~ (n <= Len(s))
    <3>1. n - Len(s) \in 1..Len(t) /\ Len(s) + (n - Len(s)) = n
      BY <1>1, <2>2
    <3>2. Does(t, n - Len(s), {"push", "remember"}, k)
      BY <1>1, <1>2, <3>1 DEF Does
    <3>3. CASE \E m \in 1..((n - Len(s)) - 1) : Does(t, m, {"capture"}, k)
      <4>1. PICK m \in 1..((n - Len(s)) - 1) : Does(t, m, {"capture"}, k)
        BY <3>3
      <4>2. m \in 1..Len(t) /\ Len(s) + m \in 1..(n - 1)
        BY <1>1, <3>1
      <4>3. Does(u, Len(s) + m, {"capture"}, k)
        BY <1>1, <4>1, <4>2 DEF Does
      <4> QED
        BY <4>2, <4>3
    <3>4. CASE \E m \in 1..Len(s) : Does(s, m, {"capture"}, k)
      <4>1. PICK m \in 1..Len(s) : Does(s, m, {"capture"}, k)
        BY <3>4
      <4>2. m \in 1..(n - 1) /\ Does(u, m, {"capture"}, k)
        BY <1>1, <2>2, <4>1 DEF Does
      <4> QED
        BY <4>2
    <3> QED
      BY <3>1, <3>2, <3>3, <3>4
  <2> QED
    BY <2>1, <2>2
<1>3. Sourced(u)
  BY <1>2 DEF Sourced
<1> QED
  BY <1>1, <1>3 DEF u

\* The step x is one of s.
Has(s, x) == \E n \in 1..Len(s) : s[n] = x

\* Two such programs are one, that has the steps of both.
LEMMA SourcedTwice ==
  ASSUME NEW s \in Seq(CollectStep), NEW t \in Seq(CollectStep), Sourced(s), Sourced(t)
  PROVE /\ s \o t \in Seq(CollectStep) /\ Sourced(s \o t)
        /\ \A x : Has(s, x) \/ Has(t, x) => Has(s \o t, x)
<1>1. s \o t \in Seq(CollectStep) /\ Sourced(s \o t)
  BY SourcedJoined DEF Sourced
<1>2. ASSUME NEW x, Has(s, x) PROVE Has(s \o t, x)
  <2>1. PICK n \in 1..Len(s) : s[n] = x
    BY <1>2 DEF Has
  <2>2. n \in 1..Len(s \o t) /\ (s \o t)[n] = x
    BY <2>1, Joined
  <2> QED
    BY <2>2 DEF Has
<1>3. ASSUME NEW x, Has(t, x) PROVE Has(s \o t, x)
  <2>1. PICK n \in 1..Len(t) : t[n] = x
    BY <1>3 DEF Has
  <2>2. Len(s) + n \in 1..Len(s \o t) /\ (s \o t)[Len(s) + n] = x
    BY <2>1, Joined
  <2> QED
    BY <2>2 DEF Has
<1> QED
  BY <1>1, <1>2, <1>3

\* The requests of each esport, one after the other, keep their steps.
LEMMA SourcedFlat ==
  ASSUME NEW ss \in Seq(Seq(CollectStep)), \A i \in 1..Len(ss) : Sourced(ss[i])
  PROVE /\ FlattenSeq(ss) \in Seq(CollectStep) /\ Sourced(FlattenSeq(ss))
        /\ \A i \in 1..Len(ss) : \A x : Has(ss[i], x) => Has(FlattenSeq(ss), x)
<1>0. Len(ss) \in Nat /\ \A i \in 1..Len(ss) : ss[i] \in Seq(CollectStep)
  BY LenProperties, ElementOfSeq
<1>1. CASE Len(ss) = 0
  <2>1. ss = <<>> /\ FlattenSeq(ss) = <<>>
    BY <1>1, EmptySeq DEF FlattenSeq
  <2>2. <<>> \in Seq(CollectStep) /\ Sourced(<<>>)
    BY EmptySeq DEF Sourced
  <2>3. FlattenSeq(ss) \in Seq(CollectStep) /\ Sourced(FlattenSeq(ss))
    BY <2>1, <2>2, Zenon
  <2> QED
    BY <1>1, <2>3
<1>2. CASE Len(ss) > 0
  <2>1. PICK f : Flattens(f, ss) /\ FlattenSeq(ss) = f[Len(ss)]
    BY <1>2, FlattenIs
  <2>2. \A i \in 1..Len(ss) : f[i] = IF i = 1 THEN ss[i] ELSE f[i - 1] \o ss[i]
    BY <2>1, Zenon DEF Flattens
  <2> DEFINE Fine(n) == /\ f[n] \in Seq(CollectStep) /\ Sourced(f[n])
                        /\ \A i \in 1..n : \A x : Has(ss[i], x) => Has(f[n], x)
             T == {n \in 1..Len(ss) : ~ Fine(n)}
  <2>3. ASSUME NEW n \in 1..Len(ss), n = 1 \/ (n - 1 \in 1..Len(ss) /\ Fine(n - 1))
        PROVE Fine(n)
    <3>1. CASE n = 1
      BY <1>0, <2>2, <3>1
    <3>2. CASE n # 1
      <4>1. f[n] = f[n - 1] \o ss[n] /\ Fine(n - 1)
        BY <2>2, <2>3, <3>2
      <4>2. f[n - 1] \in Seq(CollectStep) /\ ss[n] \in Seq(CollectStep)
        BY <1>0, <4>1
      <4>3. /\ f[n] \in Seq(CollectStep) /\ Sourced(f[n])
            /\ \A x : Has(f[n - 1], x) \/ Has(ss[n], x) => Has(f[n], x)
        BY <1>0, <4>1, <4>2, SourcedTwice
      <4>4. \A i \in 1..n : i = n \/ i \in 1..(n - 1)
        OBVIOUS
      <4> QED
        BY <4>1, <4>3, <4>4
    <3> QED
      BY <3>1, <3>2
  <2>4. T = {}
    <3> SUFFICES ASSUME T # {} PROVE FALSE
      OBVIOUS
    <3>1. T \subseteq Nat
      BY <1>0
    <3>2. PICK n \in T : \A m \in T : n <= m
      <4> HIDE DEF T
      <4> QED
        BY <3>1, LeastNatural
    <3>3. n \in 1..Len(ss) /\ ~ Fine(n)
      OBVIOUS
    <3> HIDE DEF Fine
    <3>4. n = 1 \/ (n - 1 \in 1..Len(ss) /\ Fine(n - 1))
      <4>1. n # 1 => n - 1 \in 1..Len(ss) /\ ~ (n <= n - 1)
        BY <1>0, <3>3
      <4>2. n # 1 => n - 1 \notin T
        BY <3>2, <4>1
      <4> QED
        BY <4>1, <4>2
    <3> QED
      BY <2>3, <3>3, <3>4
  <2>5. Fine(Len(ss))
    <3> HIDE DEF Fine
    <3>1. \A n \in 1..Len(ss) : Fine(n)
      BY <2>4
    <3> QED
      BY <1>0, <1>2, <3>1
  <2> QED
    BY <2>1, <2>5
<1> QED
  BY <1>0, <1>1, <1>2

Collecting == {"enabled", "need", "open", "capture", "round", "push", "remember"}

\* The fields of a step.
LEMMA StepIs ==
  ASSUME NEW do, NEW keys
  PROVE /\ Step(do, keys).do = do /\ Step(do, keys).keys = keys
        /\ do \in Collecting /\ keys \subseteq Key /\ (do = "push" => keys # {}) =>
             Step(do, keys) \in CollectStep
  BY DEF Step, CollectStep, Collecting

\* A collector's step is one.
LEMMA StepOf ==
  ASSUME NEW k \in Key
  PROVE \A do \in Collecting : Step(do, {k}) \in CollectStep
  BY DEF Step, CollectStep, Collecting

\* The same step for each esport.
LEMMA EachStep ==
  ASSUME NEW do \in Collecting, NEW es \in Seq(Esport)
  PROVE /\ Each(do, es) \in Seq(CollectStep) /\ Len(Each(do, es)) = Len(es)
        /\ Len(es) \in Nat
        /\ \A i \in 1..Len(es) : /\ es[i] \in Esport
                                  /\ Each(do, es)[i] = Step(do, {es[i]})
<1>1. Len(es) \in Nat /\ \A i \in 1..Len(es) : es[i] \in Esport
  BY LenProperties, ElementOfSeq
<1>2. \A i \in 1..Len(es) : Step(do, {es[i]}) \in CollectStep
  BY <1>1, StepIs DEF Key
<1>3. Each(do, es) = [i \in 1..Len(es) |-> Step(do, {es[i]})]
  BY DEF Each
<1>4. Each(do, es) \in Seq(CollectStep) /\ Len(Each(do, es)) = Len(es)
  BY <1>1, <1>2, <1>3
<1> QED
  BY <1>1, <1>3, <1>4

\* Captures only, as many as one likes.
LEMMA Captures ==
  ASSUME NEW n \in Nat, NEW keys \in SUBSET Key
  PROVE /\ [i \in 1..n |-> Step("capture", keys)] \in Seq(CollectStep)
        /\ Len([i \in 1..n |-> Step("capture", keys)]) = n
        /\ \A i \in 1..n : [j \in 1..n |-> Step("capture", keys)][i] = Step("capture", keys)
        /\ Sourced([i \in 1..n |-> Step("capture", keys)])
<1> DEFINE s == [i \in 1..n |-> Step("capture", keys)]
<1>1. Step("capture", keys) \in CollectStep
  BY StepIs DEF Collecting
<1>2. s \in Seq(CollectStep) /\ Len(s) = n /\ \A i \in 1..n : s[i] = Step("capture", keys)
  BY <1>1
<1>3. Sourced(s)
  BY <1>2, StepIs DEF Sourced, Does
<1> QED
  BY <1>2, <1>3

\* A single step that needs no source.
LEMMA OneStep ==
  ASSUME NEW do \in Collecting \ {"push", "remember"}, NEW keys \in SUBSET Key
  PROVE /\ <<Step(do, keys)>> \in Seq(CollectStep) /\ Sourced(<<Step(do, keys)>>)
        /\ Has(<<Step(do, keys)>>, Step(do, keys))
<1>1. Step(do, keys) \in CollectStep /\ Step(do, keys).do \notin {"push", "remember"}
  BY StepIs
<1>2. /\ <<Step(do, keys)>> \in Seq(CollectStep) /\ Len(<<Step(do, keys)>>) = 1
      /\ <<Step(do, keys)>>[1] = Step(do, keys)
  BY <1>1
<1> QED
  BY <1>1, <1>2 DEF Sourced, Does, Has

\* What was captured as one may be pushed and remembered.
LEMMA PushedAfter ==
  ASSUME NEW s \in Seq(CollectStep), Sourced(s), NEW keys, Has(s, Step("capture", keys)),
         NEW t \in Seq(CollectStep),
         \A i \in 1..Len(t) : t[i].do \in {"push", "remember"} => t[i].keys \subseteq keys
  PROVE s \o t \in Seq(CollectStep) /\ Sourced(s \o t)
<1>1. PICK m \in 1..Len(s) : s[m] = Step("capture", keys)
  BY DEF Has
<1>2. \A k \in keys : Does(s, m, {"capture"}, k)
  BY <1>1, StepIs DEF Does
<1>3. \A n \in 1..Len(t), k \in Key : Does(t, n, {"push", "remember"}, k) =>
        \E l \in 1..Len(s) : Does(s, l, {"capture"}, k)
  BY <1>2 DEF Does
<1> QED
  BY <1>3, SourcedJoined

Remembers(s, es) == \A e \in ToSet(es) : \E n \in 1..Len(s) : Does(s, n, {"remember"}, e)

\* No capture before a tab was opened.
Opens(s) ==
  \E m \in 1..Len(s) : s[m].do \in Opening /\ \A i \in 1..m : s[i].do # "capture"

\* A program that opens its tab first still does when another follows.
LEMMA OpensJoined ==
  ASSUME NEW s \in Seq(CollectStep), NEW t \in Seq(CollectStep), Opens(s)
  PROVE Opens(s \o t)
<1>1. PICK m \in 1..Len(s) : s[m].do \in Opening /\ \A i \in 1..m : s[i].do # "capture"
  BY DEF Opens
<1>2. m \in 1..Len(s \o t) /\ \A i \in 1..m : i \in 1..Len(s) /\ (s \o t)[i] = s[i]
  BY <1>1, Joined
<1>3. (s \o t)[m].do \in Opening /\ \A i \in 1..m : (s \o t)[i].do # "capture"
  BY <1>1, <1>2, Joined
<1> QED
  BY <1>2, <1>3 DEF Opens

\* What a request owes, between refresh and commit.
Good(s, kind, es) ==
  /\ s \in Seq(CollectStep) /\ Sourced(s)
  /\ provider \in Chrome => Opens(s)
  /\ kind = "list" /\ provider \in KeepsContext => Remembers(s, es)

\* A program of three steps, by position.
LEMMA ThreeSteps ==
  ASSUME NEW S, NEW a \in S, NEW b \in S, NEW c \in S
  PROVE /\ <<a, b, c>> \in Seq(S) /\ Len(<<a, b, c>>) = 3
        /\ <<a, b, c>>[1] = a /\ <<a, b, c>>[2] = b /\ <<a, b, c>>[3] = c
  OBVIOUS

\* A listing opens its tab and takes the esports in turn.
LEMMA EachInTurn ==
  ASSUME NEW es \in Seq(Esport), NEW ss, ss \in [1..Len(es) -> Seq(CollectStep)],
         \A i \in 1..Len(es) :
           Sourced(ss[i]) /\ Has(ss[i], Step("remember", {es[i]})),
         NEW open \in Seq(CollectStep), Sourced(open), Opens(open)
  PROVE Good(open \o FlattenSeq(ss), "list", es)
<1>1. Len(es) \in Nat
  BY LenProperties
<1>2. ss \in Seq(Seq(CollectStep)) /\ Len(ss) = Len(es)
  BY <1>1, AsSequence
<1>3. /\ FlattenSeq(ss) \in Seq(CollectStep) /\ Sourced(FlattenSeq(ss))
      /\ \A i \in 1..Len(es) : Has(FlattenSeq(ss), Step("remember", {es[i]}))
  BY <1>2, SourcedFlat
<1> DEFINE s == open \o FlattenSeq(ss)
<1>4. /\ s \in Seq(CollectStep) /\ Sourced(s)
      /\ \A i \in 1..Len(es) : Has(s, Step("remember", {es[i]}))
  BY <1>3, SourcedTwice
<1>5. Opens(s)
  BY <1>3, OpensJoined
<1> HIDE DEF s
<1>6. Remembers(s, es)
  <2>1. ASSUME NEW e \in ToSet(es)
        PROVE \E j \in 1..Len(s) : Does(s, j, {"remember"}, e)
    <3>1. PICK i \in 1..Len(es) : es[i] = e
      BY <2>1 DEF ToSet
    <3>2. PICK j \in 1..Len(s) : s[j] = Step("remember", {e})
      BY <3>1, <1>4 DEF Has
    <3> QED
      BY <3>2, StepIs DEF Does
  <2> QED
    BY <2>1 DEF Remembers
<1> QED
  BY <1>4, <1>5, <1>6 DEF Good, s

\* What comes after opening the tab has a tab.
LEMMA Opened ==
  /\ <<Step("open", {})>> \in Seq(CollectStep) /\ Sourced(<<Step("open", {})>>)
  /\ Opens(<<Step("open", {})>>)
<1>1. Step("open", {}) \in CollectStep /\ Step("open", {}).do = "open"
  BY StepIs DEF Collecting
<1>2. /\ <<Step("open", {})>> \in Seq(CollectStep) /\ Sourced(<<Step("open", {})>>)
      /\ Len(<<Step("open", {})>>) = 1 /\ <<Step("open", {})>>[1] = Step("open", {})
  BY <1>1, OneStep DEF Collecting
<1>3. Opens(<<Step("open", {})>>)
  BY <1>1, <1>2 DEF Opens, Opening
<1> QED
  BY <1>2, <1>3

Bet365One(e) == <<Step("capture", {e}), Step("push", {e}), Step("remember", {e})>>

\* Bet365 captures, pushes and remembers each esport.
LEMMA Bet365Captured ==
  ASSUME NEW e \in Esport
  PROVE /\ Bet365One(e) \in Seq(CollectStep) /\ Sourced(Bet365One(e))
        /\ Has(Bet365One(e), Step("remember", {e}))
<1> DEFINE s == Bet365One(e)
<1>1. /\ Step("capture", {e}) \in CollectStep /\ Step("push", {e}) \in CollectStep
      /\ Step("remember", {e}) \in CollectStep
  BY StepOf DEF Collecting, Key
<1>2. /\ s \in Seq(CollectStep) /\ Len(s) = 3
      /\ s[1] = Step("capture", {e}) /\ s[2] = Step("push", {e})
      /\ s[3] = Step("remember", {e})
  BY <1>1, ThreeSteps, Zenon DEF Bet365One
<1> HIDE DEF s
<1>3. Does(s, 1, {"capture"}, e)
  BY <1>2, StepIs DEF Does
<1>4. ASSUME NEW n \in 1..Len(s), NEW k \in Key, Does(s, n, {"push", "remember"}, k)
      PROVE k = e /\ n # 1
  BY <1>2, <1>4, StepIs DEF Does
<1>5. Sourced(s)
  BY <1>2, <1>3, <1>4 DEF Sourced
<1>6. Has(s, Step("remember", {e}))
  BY <1>2 DEF Has
<1> QED
  BY <1>2, <1>5, <1>6 DEF s

\* Both of Bet365's programs are good.
LEMMA Bet365Good ==
  ASSUME provider = "bet365", NEW es \in Seq(Esport), NEW v, NEW n \in Nat \ {0}
  PROVE /\ Good(Bet365Listing(es), "list", es)
        /\ v \in Event => Good(Bet365Detail(v, n), "detail", es)
<1>1. Good(Bet365Listing(es), "list", es)
  <2> DEFINE ss == [i \in 1..Len(es) |-> Bet365One(es[i])]
  <2>1. Bet365Listing(es) = <<Step("open", {})>> \o FlattenSeq(ss)
    BY DEF Bet365Listing, ForEach, Bet365One
  <2>2. ss = [i \in 1..Len(es) |-> Bet365One(es[i])]
    OBVIOUS
  <2> HIDE DEF ss
  <2>3. \A i \in 1..Len(es) : es[i] \in Esport
    BY ElementOfSeq
  <2>4. \A i \in 1..Len(es) :
          /\ Bet365One(es[i]) \in Seq(CollectStep) /\ Sourced(Bet365One(es[i]))
          /\ Has(Bet365One(es[i]), Step("remember", {es[i]}))
    BY <2>3, Bet365Captured
  <2>5. ss \in [1..Len(es) -> Seq(CollectStep)]
    BY <2>2, <2>4, Zenon
  <2>6. \A i \in 1..Len(es) : Sourced(ss[i]) /\ Has(ss[i], Step("remember", {es[i]}))
    BY <2>2, <2>4
  <2> QED
    BY <2>1, <2>5, <2>6, Opened, EachInTurn
<1>2. ASSUME v \in Event PROVE Good(Bet365Detail(v, n), "detail", es)
  <2> DEFINE a == <<Step("need", {v}), Step("open", {})>>
             b == [i \in 1..n |-> Step("capture", {v})]
             c == <<Step("round", {v}), Step("push", {v})>>
  <2>1. Bet365Detail(v, n) = (a \o b) \o c
    BY DEF Bet365Detail
  <2>2. /\ Step("need", {v}) \in CollectStep /\ Step("open", {}) \in CollectStep
        /\ Step("round", {v}) \in CollectStep /\ Step("push", {v}) \in CollectStep
    BY <1>2, StepIs DEF Collecting, Key
  <2>3. /\ a \in Seq(CollectStep) /\ Len(a) = 2 /\ Sourced(a)
        /\ a[1] = Step("need", {v}) /\ a[2] = Step("open", {})
    <3>1. /\ a \in Seq(CollectStep) /\ Len(a) = 2
          /\ a[1] = Step("need", {v}) /\ a[2] = Step("open", {})
      BY <2>2
    <3> QED
      BY <3>1, StepIs DEF Sourced, Does
  <2>4. /\ c \in Seq(CollectStep) /\ Len(c) = 2
        /\ c[1] = Step("round", {v}) /\ c[2] = Step("push", {v})
    BY <2>2
  <2>5. /\ b \in Seq(CollectStep) /\ Sourced(b) /\ Has(b, Step("capture", {v}))
    <3>1. n \in 1..n /\ {v} \in SUBSET Key
      BY <1>2 DEF Key
    <3> QED
      BY <3>1, Captures DEF Has
  <2> HIDE DEF a, b, c
  <2>6. /\ a \o b \in Seq(CollectStep) /\ Sourced(a \o b)
        /\ Has(a \o b, Step("capture", {v}))
    BY <2>3, <2>5, SourcedTwice
  <2>7. \A i \in 1..Len(c) : c[i].do \in {"push", "remember"} => c[i].keys \subseteq {v}
    BY <2>4, StepIs
  <2>8. (a \o b) \o c \in Seq(CollectStep) /\ Sourced((a \o b) \o c)
    BY <2>4, <2>6, <2>7, PushedAfter
  <2>9. Opens((a \o b) \o c)
    <3>1. Opens(a)
      BY <2>3, StepIs DEF Opens, Opening
    <3> QED
      BY <2>3, <2>4, <2>5, <2>6, <3>1, OpensJoined
  <2> QED
    BY <2>1, <2>8, <2>9 DEF Good
<1> QED
  BY <1>1, <1>2

BetanoOne(e, n) == [i \in 1..n |-> Step("capture", {e})] \o
                   <<Step("round", {e}), Step("push", {e}), Step("remember", {e})>>

\* Betano checks, pushes and remembers each esport it captured.
LEMMA BetanoCaptured ==
  ASSUME NEW e \in Esport, NEW n \in Nat \ {0}
  PROVE /\ BetanoOne(e, n) \in Seq(CollectStep) /\ Sourced(BetanoOne(e, n))
        /\ Has(BetanoOne(e, n), Step("remember", {e}))
<1> DEFINE b == [i \in 1..n |-> Step("capture", {e})]
           c == <<Step("round", {e}), Step("push", {e}), Step("remember", {e})>>
<1>1. /\ Step("round", {e}) \in CollectStep /\ Step("push", {e}) \in CollectStep
      /\ Step("remember", {e}) \in CollectStep
  BY StepOf DEF Collecting, Key
<1>2. b \in Seq(CollectStep) /\ Sourced(b) /\ Has(b, Step("capture", {e}))
  <2>1. n \in 1..n /\ {e} \in SUBSET Key
    BY DEF Key
  <2> QED
    BY <2>1, Captures DEF Has
<1>3. /\ c \in Seq(CollectStep) /\ Len(c) = 3
      /\ c[1] = Step("round", {e}) /\ c[2] = Step("push", {e})
      /\ c[3] = Step("remember", {e})
  BY <1>1, ThreeSteps, Zenon
<1> HIDE DEF b, c
<1>4. \A i \in 1..Len(c) : c[i].keys \subseteq {e}
  BY <1>3, StepIs
<1>5. b \o c \in Seq(CollectStep) /\ Sourced(b \o c)
  BY <1>2, <1>3, <1>4, PushedAfter
<1>6. Has(b \o c, Step("remember", {e}))
  BY <1>2, <1>3, Joined DEF Has
<1> QED
  BY <1>5, <1>6 DEF BetanoOne, b, c

\* A page is one capture.
LEMMA APage ==
  /\ \A n \in Nat : Pages(n) \in Seq(CollectStep) /\ Sourced(Pages(n))
  BY Captures DEF Pages

\* Both of Betano's programs are good.
LEMMA BetanoGood ==
  ASSUME provider = "betano", NEW es \in Seq(Esport), NEW v, NEW n \in Nat \ {0}
  PROVE /\ Good(BetanoListing(es, n), "list", es)
        /\ v \in Event => Good(BetanoDetail(v), "detail", es)
<1>1. Good(BetanoListing(es, n), "list", es)
  <2> DEFINE ss == [i \in 1..Len(es) |-> BetanoOne(es[i], n)]
             open == <<Step("open", {})>> \o Pages(1)
  <2>1. BetanoListing(es, n) = open \o FlattenSeq(ss)
    BY DEF BetanoListing, ForEach, BetanoOne
  <2>2. ss = [i \in 1..Len(es) |-> BetanoOne(es[i], n)]
    OBVIOUS
  <2> HIDE DEF ss
  <2>3. \A i \in 1..Len(es) : es[i] \in Esport
    BY ElementOfSeq
  <2>4. \A i \in 1..Len(es) :
          /\ BetanoOne(es[i], n) \in Seq(CollectStep) /\ Sourced(BetanoOne(es[i], n))
          /\ Has(BetanoOne(es[i], n), Step("remember", {es[i]}))
    BY <2>3, BetanoCaptured
  <2>5. ss \in [1..Len(es) -> Seq(CollectStep)]
    BY <2>2, <2>4, Zenon
  <2>6. \A i \in 1..Len(es) : Sourced(ss[i]) /\ Has(ss[i], Step("remember", {es[i]}))
    BY <2>2, <2>4
  <2>7. open \in Seq(CollectStep) /\ Sourced(open) /\ Opens(open)
    BY Opened, APage, SourcedTwice, OpensJoined
  <2> HIDE DEF open
  <2> QED
    BY <2>1, <2>5, <2>6, <2>7, EachInTurn
<1>2. ASSUME v \in Event PROVE Good(BetanoDetail(v), "detail", es)
  <2> DEFINE a == <<Step("need", {v})>>
             c == <<Step("capture", {v}), Step("push", {v})>>
  <2>1. BetanoDetail(v) = ((a \o Pages(1)) \o c) \o Pages(1)
    BY DEF BetanoDetail
  <2>2. v \in Key /\ {v} \in SUBSET Key
    BY <1>2 DEF Key
  <2>3. a \in Seq(CollectStep) /\ Sourced(a) /\ Opens(a)
    <3>1. Step("need", {v}) \in CollectStep /\ Step("need", {v}).do = "need"
      BY <2>2, StepOf, StepIs DEF Collecting
    <3>2. a \in Seq(CollectStep) /\ Sourced(a) /\ Len(a) = 1 /\ a[1] = Step("need", {v})
      BY <2>2, <3>1, OneStep DEF Collecting
    <3> HIDE DEF a
    <3> QED
      BY <3>1, <3>2 DEF Opens, Opening
  <2>4. c \in Seq(CollectStep) /\ Sourced(c)
    <3>1. Step("capture", {v}) \in CollectStep /\ Step("push", {v}) \in CollectStep
      BY <2>2, StepOf DEF Collecting
    <3>2. /\ c \in Seq(CollectStep) /\ Len(c) = 2
          /\ c[1] = Step("capture", {v}) /\ c[2] = Step("push", {v})
      BY <3>1
    <3> HIDE DEF c
    <3>3. Does(c, 1, {"capture"}, v)
      BY <3>2, StepIs DEF Does
    <3>4. ASSUME NEW i \in 1..Len(c), NEW k \in Key, Does(c, i, {"push", "remember"}, k)
          PROVE i = 2 /\ k = v
      BY <3>2, <3>4, StepIs DEF Does
    <3> QED
      BY <3>2, <3>3, <3>4 DEF Sourced
  <2> HIDE DEF a, c
  <2>5. a \o Pages(1) \in Seq(CollectStep) /\ Sourced(a \o Pages(1)) /\ Opens(a \o Pages(1))
    BY <2>3, APage, SourcedTwice, OpensJoined
  <2> DEFINE b == a \o Pages(1)
  <2> HIDE DEF b
  <2>6. b \o c \in Seq(CollectStep) /\ Sourced(b \o c) /\ Opens(b \o c)
    BY <2>4, <2>5, SourcedTwice, OpensJoined DEF b
  <2> DEFINE d == b \o c
  <2> HIDE DEF d
  <2>7. d \o Pages(1) \in Seq(CollectStep) /\ Sourced(d \o Pages(1)) /\ Opens(d \o Pages(1))
    BY <2>6, APage, SourcedTwice, OpensJoined DEF d
  <2> QED
    BY <2>1, <2>7 DEF Good, b, d
<1> QED
  BY <1>1, <1>2

\* Captured as one, published one by one.
LEMMA PushesAfter ==
  ASSUME NEW s \in Seq(CollectStep), Sourced(s), NEW es \in Seq(Esport),
         \/ Has(s, Step("capture", ToSet(es)))
         \/ \A i \in 1..Len(es) : Has(s, Step("capture", {es[i]}))
  PROVE s \o Each("push", es) \in Seq(CollectStep) /\ Sourced(s \o Each("push", es))
<1> DEFINE t == Each("push", es)
<1>1. /\ t \in Seq(CollectStep) /\ Len(t) = Len(es)
      /\ \A i \in 1..Len(es) : t[i] = Step("push", {es[i]})
  BY EachStep DEF Collecting
<1> HIDE DEF t
<1>2. ASSUME NEW n \in 1..Len(t), NEW k \in Key, Does(t, n, {"push", "remember"}, k)
      PROVE \E m \in 1..Len(s) : Does(s, m, {"capture"}, k)
  <2>1. k = es[n] /\ n \in 1..Len(es)
    <3>1. n \in 1..Len(es) /\ t[n] = Step("push", {es[n]})
      BY <1>1, <1>2
    <3>2. k \in Step("push", {es[n]}).keys
      BY <1>2, <3>1 DEF Does
    <3> QED
      BY <3>1, <3>2, StepIs
  <2>2. \E keys : k \in keys /\ Has(s, Step("capture", keys))
    <3>1. CASE Has(s, Step("capture", ToSet(es)))
      BY <2>1, <3>1 DEF ToSet
    <3>2. CASE \A i \in 1..Len(es) : Has(s, Step("capture", {es[i]}))
      <4>1. Has(s, Step("capture", {es[n]})) /\ k \in {es[n]}
        BY <2>1, <3>2
      <4> QED
        BY <4>1
    <3> QED
      BY <3>1, <3>2
  <2>4. PICK keys : k \in keys /\ Has(s, Step("capture", keys))
    BY <2>2
  <2>3. PICK m \in 1..Len(s) : s[m] = Step("capture", keys)
    BY <2>4 DEF Has
  <2> QED
    BY <2>4, <2>3, StepIs DEF Does
<1>3. s \o t \in Seq(CollectStep) /\ Sourced(s \o t)
  BY <1>1, <1>2, SourcedJoined
<1> QED
  BY <1>3 DEF t

\* Both of Superbet's programs are good.
LEMMA SuperbetGood ==
  ASSUME provider = "superbet", NEW es \in Seq(Esport), NEW v, NEW known
  PROVE /\ Good(SuperbetListing(es), "list", es)
        /\ v \in Event => Good(SuperbetDetail(v, known), "detail", es)
<1>0. \A keys \in SUBSET Key :
        /\ SuperbetGet(keys) \in Seq(CollectStep) /\ Sourced(SuperbetGet(keys))
        /\ Has(SuperbetGet(keys), Step("capture", keys))
  BY OneStep DEF SuperbetGet, Collecting
<1>1. Good(SuperbetListing(es), "list", es)
  <2> DEFINE a == SuperbetGet({})
             b == Each("capture", es)
             c == a \o b
             d == c \o Each("push", es)
             r == <<Step("remember", ToSet(es))>>
  <2>1. SuperbetListing(es) = d \o r
    BY DEF SuperbetListing
  <2>2. a \in Seq(CollectStep) /\ Sourced(a)
    BY <1>0
  <2>3. /\ b \in Seq(CollectStep) /\ Len(b) = Len(es)
        /\ \A i \in 1..Len(es) : es[i] \in Esport /\ b[i] = Step("capture", {es[i]})
    BY EachStep DEF Collecting
  <2> HIDE DEF a, b
  <2>4. Sourced(b) /\ \A i \in 1..Len(es) : Has(b, Step("capture", {es[i]}))
    <3>1. ASSUME NEW i \in 1..Len(b) PROVE b[i].do = "capture"
      <4>1. b[i] = Step("capture", {es[i]})
        BY <2>3
      <4> QED
        BY <4>1, StepIs
    <3>2. Sourced(b)
      BY <3>1 DEF Sourced, Does
    <3>3. \A i \in 1..Len(es) : Has(b, Step("capture", {es[i]}))
      BY <2>3 DEF Has
    <3> QED
      BY <3>2, <3>3
  <2>5. /\ c \in Seq(CollectStep) /\ Sourced(c)
        /\ \A i \in 1..Len(es) : Has(c, Step("capture", {es[i]}))
    BY <2>2, <2>3, <2>4, SourcedTwice
  <2> HIDE DEF c
  <2>6. d \in Seq(CollectStep) /\ Sourced(d)
    BY <2>5, PushesAfter
  <2>7. \A i \in 1..Len(es) : Has(d, Step("capture", {es[i]}))
    <3>1. Each("push", es) \in Seq(CollectStep)
      BY EachStep DEF Collecting
    <3>2. \A m \in 1..Len(c) : m \in 1..Len(d) /\ d[m] = c[m]
      BY <2>5, <3>1, Joined
    <3> QED
      BY <2>5, <3>2 DEF Has
  <2> HIDE DEF d
  <2>8. r \in Seq(CollectStep) /\ Len(r) = 1 /\ r[1] = Step("remember", ToSet(es))
    <3>1. ToSet(es) \subseteq Key
      BY <2>3 DEF ToSet, Key
    <3>2. Step("remember", ToSet(es)) \in CollectStep
      BY <3>1, StepIs DEF Collecting
    <3> QED
      BY <3>2
  <2> HIDE DEF r
  <2>9. ASSUME NEW n \in 1..Len(r), NEW k \in Key, Does(r, n, {"push", "remember"}, k)
        PROVE \E m \in 1..Len(d) : Does(d, m, {"capture"}, k)
    <3>1. k \in ToSet(es)
      BY <2>8, <2>9, StepIs DEF Does
    <3>2. PICK i \in 1..Len(es) : es[i] = k
      BY <3>1 DEF ToSet
    <3>3. PICK m \in 1..Len(d) : d[m] = Step("capture", {k})
      BY <2>7, <3>2 DEF Has
    <3> QED
      BY <3>3, StepIs DEF Does
  <2>10. d \o r \in Seq(CollectStep) /\ Sourced(d \o r)
    BY <2>6, <2>8, <2>9, SourcedJoined
  <2>11. Remembers(d \o r, es)
    <3>1. Len(d) + 1 \in 1..Len(d \o r) /\ (d \o r)[Len(d) + 1] = r[1]
      BY <2>6, <2>8, Joined
    <3> QED
      BY <2>8, <3>1, StepIs DEF Remembers, Does
  <2> QED
    BY <2>1, <2>10, <2>11 DEF Good, Chrome
<1>2. ASSUME v \in Event PROVE Good(SuperbetDetail(v, known), "detail", es)
  <2> DEFINE a == IF known THEN <<>> ELSE SuperbetGet({})
             b == a \o SuperbetGet({v})
             c == <<Step("push", {v})>>
  <2>1. SuperbetDetail(v, known) = b \o c
    BY DEF SuperbetDetail
  <2>2. v \in Key /\ {v} \in SUBSET Key
    BY <1>2 DEF Key
  <2>3. a \in Seq(CollectStep) /\ Sourced(a)
    <3>1. <<>> \in Seq(CollectStep) /\ Sourced(<<>>)
      BY EmptySeq DEF Sourced
    <3> QED
      BY <1>0, <3>1
  <2> HIDE DEF a
  <2>4. b \in Seq(CollectStep) /\ Sourced(b) /\ Has(b, Step("capture", {v}))
    BY <1>0, <2>2, <2>3, SourcedTwice
  <2>5. c \in Seq(CollectStep) /\ Len(c) = 1 /\ c[1] = Step("push", {v})
    <3>1. Step("push", {v}) \in CollectStep
      BY <2>2, StepOf DEF Collecting
    <3> QED
      BY <3>1
  <2> HIDE DEF b, c
  <2>6. \A i \in 1..Len(c) : c[i].keys \subseteq {v}
    BY <2>5, StepIs
  <2>7. b \o c \in Seq(CollectStep) /\ Sourced(b \o c)
    BY <2>4, <2>5, <2>6, PushedAfter
  <2> QED
    BY <2>1, <2>7 DEF Good, Chrome
<1> QED
  BY <1>1, <1>2

\* A snapshot is asked for once, whatever is published of it.
LEMMA SnapshotGood ==
  ASSUME provider \notin KeepsContext, NEW es \in Seq(Esport), NEW v,
         NEW pre \in Seq(CollectStep), Sourced(pre), NEW kind
  PROVE /\ Good((pre \o <<Step("capture", ToSet(es))>>) \o Each("push", es), kind, es)
        /\ v \in Event =>
             Good((pre \o <<Step("capture", {v})>>) \o <<Step("push", {v})>>, kind, es)
<1>1. Good((pre \o <<Step("capture", ToSet(es))>>) \o Each("push", es), kind, es)
  <2> DEFINE c == <<Step("capture", ToSet(es))>>
             b == pre \o c
  <2>1. ToSet(es) \in SUBSET Key
    BY ElementOfSeq DEF ToSet, Key
  <2>2. c \in Seq(CollectStep) /\ Sourced(c) /\ Has(c, Step("capture", ToSet(es)))
    BY <2>1, OneStep DEF Collecting
  <2>3. b \in Seq(CollectStep) /\ Sourced(b) /\ Has(b, Step("capture", ToSet(es)))
    BY <2>2, SourcedTwice
  <2> HIDE DEF b
  <2>4. b \o Each("push", es) \in Seq(CollectStep) /\ Sourced(b \o Each("push", es))
    BY <2>3, PushesAfter
  <2> QED
    BY <2>4 DEF Good, KeepsContext, b
<1>2. ASSUME v \in Event
      PROVE Good((pre \o <<Step("capture", {v})>>) \o <<Step("push", {v})>>, kind, es)
  <2> DEFINE b == pre \o <<Step("capture", {v})>>
             c == <<Step("push", {v})>>
  <2>2. v \in Key /\ {v} \in SUBSET Key
    BY <1>2 DEF Key
  <2>3. /\ <<Step("capture", {v})>> \in Seq(CollectStep) /\ Sourced(<<Step("capture", {v})>>)
        /\ Has(<<Step("capture", {v})>>, Step("capture", {v}))
    BY <2>2, OneStep DEF Collecting
  <2>4. b \in Seq(CollectStep) /\ Sourced(b) /\ Has(b, Step("capture", {v}))
    BY <2>3, SourcedTwice
  <2>5. c \in Seq(CollectStep) /\ Len(c) = 1 /\ c[1] = Step("push", {v})
    <3>1. Step("push", {v}) \in CollectStep
      BY <2>2, StepOf DEF Collecting
    <3> QED
      BY <3>1
  <2> HIDE DEF b, c
  <2>6. \A i \in 1..Len(c) : c[i].keys \subseteq {v}
    BY <2>5, StepIs
  <2>7. b \o c \in Seq(CollectStep) /\ Sourced(b \o c)
    BY <2>4, <2>5, <2>6, PushedAfter
  <2> QED
    BY <2>7 DEF Good, KeepsContext, b, c
<1> QED
  BY <1>1, <1>2

\* So is whatever a provider is asked for.
LEMMA RequestGood ==
  ASSUME provider \in Provider, NEW kind \in {"list", "detail"}, NEW es \in Seq(Esport),
         NEW v, kind = "detail" => v \in Event, NEW n \in Nat \ {0}
  PROVE \E s : Requesting(kind, es, v, n) = Requested(s) /\ Good(s, kind, es)
<1>1. CASE provider = "bet365"
  <2> DEFINE s == IF kind = "list" THEN Bet365Listing(es) ELSE Bet365Detail(v, n)
  <2>1. Requesting(kind, es, v, n) = Requested(s)
    BY <1>1 DEF Requesting, Bet365Request
  <2>2. Good(s, kind, es)
    BY <1>1, Bet365Good
  <2> QED
    BY <2>1, <2>2
<1>2. CASE provider = "betano"
  <2> DEFINE s == IF kind = "list" THEN BetanoListing(es, n) ELSE BetanoDetail(v)
  <2>1. Requesting(kind, es, v, n) = Requested(s)
    BY <1>2 DEF Requesting, BetanoRequest
  <2>2. Good(s, kind, es)
    BY <1>2, BetanoGood
  <2> QED
    BY <2>1, <2>2
<1>3. CASE provider = "superbet"
  <2> DEFINE s == IF kind = "list" THEN SuperbetListing(es)
                                   ELSE SuperbetDetail(v, ctx[EsportOf[v]] > 0)
  <2>1. Requesting(kind, es, v, n) = Requested(s)
    BY <1>3 DEF Requesting, SuperbetRequest
  <2>2. Good(s, kind, es)
    BY <1>3, SuperbetGood
  <2> QED
    BY <2>1, <2>2
<1>4. CASE provider \in {"blaze", "estrelabet"}
  <2>1. provider \notin KeepsContext
    BY <1>4 DEF KeepsContext, Chrome
  <2> DEFINE a == <<Step("enabled", {})>>
  <2>2. a \in Seq(CollectStep) /\ Sourced(a)
    BY OneStep DEF Collecting
  <2> HIDE DEF a
  <2>3. \A m \in Nat : a \o Pages(m) \in Seq(CollectStep) /\ Sourced(a \o Pages(m))
    BY <2>2, APage, SourcedTwice
  <2>4. \A m, l \in Nat : /\ a \o (Pages(m) \o Pages(l)) \in Seq(CollectStep)
                           /\ Sourced(a \o (Pages(m) \o Pages(l)))
    BY <2>2, APage, SourcedTwice
  <2>5. \A keys \in SUBSET Key : <<Step("capture", keys)>> \in Seq(CollectStep)
    BY OneStep DEF Collecting
  <2>6. ToSet(es) \in SUBSET Key /\ (kind = "detail" => {v} \in SUBSET Key)
    BY ElementOfSeq DEF ToSet, Key
  <2>10. ASSUME NEW m \in Nat, NEW keys \in SUBSET Key
         PROVE a \o (Pages(m) \o <<Step("capture", keys)>>) =
                 (a \o Pages(m)) \o <<Step("capture", keys)>>
    <3>1. Pages(m) \in Seq(CollectStep) /\ <<Step("capture", keys)>> \in Seq(CollectStep)
      BY <2>5, APage
    <3>2. a \in Seq(CollectStep)
      BY <2>2
    <3> QED
      BY <3>1, <3>2, ConcatAssociative
  <2>7. CASE provider = "estrelabet" /\ kind = "list"
    <3> DEFINE pre == a \o Pages(n - 1)
               s == (pre \o <<Step("capture", ToSet(es))>>) \o Each("push", es)
    <3>1. Requesting(kind, es, v, n) =
            Requested((a \o (Pages(n - 1) \o <<Step("capture", ToSet(es))>>)) \o Each("push", es))
      BY <2>7 DEF Requesting, EstrelaBetRequest, EstrelaBetListing, EstrelaBetSnapshot, a
    <3>2. a \o (Pages(n - 1) \o <<Step("capture", ToSet(es))>>) =
            pre \o <<Step("capture", ToSet(es))>>
      BY <2>6, <2>10
    <3>3. pre \in Seq(CollectStep) /\ Sourced(pre)
      BY <2>3
    <3> HIDE DEF pre
    <3>4. Good(s, kind, es)
      BY <2>1, <3>3, SnapshotGood
    <3> QED
      BY <3>1, <3>2, <3>4
  <2>8. CASE provider = "estrelabet" /\ kind = "detail"
    <3> DEFINE pre == a \o Pages(1 - 1)
               s == (pre \o <<Step("capture", {v})>>) \o <<Step("push", {v})>>
    <3>1. Requesting(kind, es, v, n) =
            Requested((a \o (Pages(1 - 1) \o <<Step("capture", {v})>>)) \o <<Step("push", {v})>>)
      BY <2>8 DEF Requesting, EstrelaBetRequest, EstrelaBetDetail, EstrelaBetSnapshot, a
    <3>2. a \o (Pages(1 - 1) \o <<Step("capture", {v})>>) = pre \o <<Step("capture", {v})>>
      BY <2>6, <2>8, <2>10
    <3>3. pre \in Seq(CollectStep) /\ Sourced(pre)
      BY <2>3
    <3> HIDE DEF pre
    <3>4. Good(s, kind, es)
      BY <2>1, <2>8, <3>3, SnapshotGood
    <3> QED
      BY <3>1, <3>2, <3>4
  <2>9. CASE provider = "blaze"
    <3> DEFINE p == Pages(1) \o Pages(n - 1)
               pre == a \o p
    <3>1. p \in Seq(CollectStep) /\ pre \in Seq(CollectStep) /\ Sourced(pre)
      BY <2>4, APage, Joined
    <3>2. \A keys \in SUBSET Key :
            a \o (p \o <<Step("capture", keys)>>) = pre \o <<Step("capture", keys)>>
      BY <2>2, <2>5, <3>1, ConcatAssociative
    <3>3. CASE kind = "list"
      <4>1. Requesting(kind, es, v, n) =
              Requested((a \o (p \o <<Step("capture", ToSet(es))>>)) \o Each("push", es))
        BY <2>9, <3>3 DEF Requesting, BlazeRequest, BlazeListing, BlazeSnapshot, a
      <4> HIDE DEF p, pre
      <4>2. a \o (p \o <<Step("capture", ToSet(es))>>) = pre \o <<Step("capture", ToSet(es))>>
        BY <2>6, <3>2
      <4>3. Good((pre \o <<Step("capture", ToSet(es))>>) \o Each("push", es), kind, es)
        BY <2>1, <3>1, SnapshotGood
      <4> QED
        BY <4>1, <4>2, <4>3
    <3>4. CASE kind = "detail"
      <4>1. Requesting(kind, es, v, n) =
              Requested((a \o (p \o <<Step("capture", {v})>>)) \o <<Step("push", {v})>>)
        BY <2>9, <3>4 DEF Requesting, BlazeRequest, BlazeDetail, BlazeSnapshot, a
      <4> HIDE DEF p, pre
      <4>2. a \o (p \o <<Step("capture", {v})>>) = pre \o <<Step("capture", {v})>>
        BY <2>6, <3>2, <3>4
      <4>3. Good((pre \o <<Step("capture", {v})>>) \o <<Step("push", {v})>>, kind, es)
        BY <2>1, <3>1, <3>4, SnapshotGood
      <4> QED
        BY <4>1, <4>2, <4>3
    <3> QED
      BY <3>3, <3>4
  <2> QED
    BY <1>4, <2>7, <2>8, <2>9
<1> QED
  BY <1>1, <1>2, <1>3, <1>4 DEF Provider

\* The whole request, as it waits to be taken.
Shape(s, kind, es) ==
  /\ s \in Seq(RequestStep) /\ s # <<>> /\ Head(s).do = "refresh"
  /\ \A n \in 1..Len(s) : s[n].do = "commit" => n = Len(s)
  /\ Sourced(s)
  /\ provider \in Chrome => \A n \in 1..Len(s) : s[n].do = "capture" =>
                               \E m \in 1..(n - 1) : s[m].do \in Opening
  /\ kind = "list" /\ provider \in KeepsContext => Remembers(s, es)

\* A request refreshes, runs a good program, and commits.
LEMMA Requests ==
  ASSUME provider \in Provider, NEW kind \in {"list", "detail"}, NEW es \in Seq(Esport),
         NEW v, kind = "detail" => v \in Event, NEW n \in Nat \ {0}
  PROVE Shape(Requesting(kind, es, v, n), kind, es)
<1>1. PICK s : Requesting(kind, es, v, n) = Requested(s) /\ Good(s, kind, es)
  BY RequestGood
<1> DEFINE a == <<Step("refresh", {})>>
           z == <<Step("commit", {})>>
           b == a \o s
           r == b \o z
<1>2. Step("refresh", {}) \in RequestStep /\ Step("commit", {}) \in RequestStep
  BY DEF Step, RequestStep
<1>3. s \in Seq(RequestStep) /\ s \in Seq(CollectStep) /\ Len(s) \in Nat
      /\ \A i \in 1..Len(s) : s[i].do # "commit"
  <2>1. s \in Seq(CollectStep)
    BY <1>1 DEF Good
  <2>2. \A i \in 1..Len(s) : s[i] \in CollectStep
    BY <2>1, ElementOfSeq
  <2>3. \A x \in CollectStep : x \in RequestStep /\ x.do # "commit"
    BY DEF RequestStep, CollectStep
  <2>4. Len(s) \in Nat /\ s = [i \in 1..Len(s) |-> s[i]]
    BY <2>1, LenProperties
  <2>5. s \in Seq(RequestStep)
    BY <2>2, <2>3, <2>4
  <2> QED
    BY <2>1, <2>2, <2>3, <2>4, <2>5
<1>4. /\ a \in Seq(RequestStep) /\ Len(a) = 1 /\ a[1] = Step("refresh", {})
      /\ z \in Seq(RequestStep) /\ Len(z) = 1 /\ z[1] = Step("commit", {})
  BY <1>2
<1>5. r = Requested(s)
  BY DEF Requested
<1> HIDE DEF a, z
<1>6. /\ b \in Seq(RequestStep) /\ Len(b) = 1 + Len(s) /\ b[1] = Step("refresh", {})
      /\ \A i \in 1..Len(s) : b[1 + i] = s[i]
  <2>1. /\ b \in Seq(RequestStep) /\ Len(b) = Len(a) + Len(s)
        /\ \A i \in 1..Len(a) : b[i] = a[i]
        /\ \A i \in 1..Len(s) : b[Len(a) + i] = s[i]
    <3>1. a \in Seq(RequestStep) /\ s \in Seq(RequestStep)
      BY <1>3, <1>4
    <3> QED
      BY <3>1, Joined
  <2> HIDE DEF b
  <2>2. Len(a) = 1 /\ a[1] = Step("refresh", {}) /\ 1 \in 1..Len(a)
    BY <1>4
  <2>3. b[1] = Step("refresh", {})
    BY <2>1, <2>2
  <2>4. Len(b) = 1 + Len(s) /\ \A i \in 1..Len(s) : b[1 + i] = s[i]
    BY <2>1, <2>2
  <2> QED
    BY <2>1, <2>3, <2>4
<1> HIDE DEF b
<1>7. /\ r \in Seq(RequestStep) /\ Len(r) = 2 + Len(s)
      /\ \A i \in 1..(1 + Len(s)) : r[i] = b[i]
      /\ r[2 + Len(s)] = Step("commit", {})
  <2>1. /\ r \in Seq(RequestStep) /\ Len(r) = Len(b) + 1
        /\ \A i \in 1..Len(b) : r[i] = b[i]
        /\ r[Len(b) + 1] = z[1]
    <3>1. /\ r \in Seq(RequestStep) /\ Len(r) = Len(b) + Len(z)
          /\ \A i \in 1..Len(b) : r[i] = b[i]
          /\ \A i \in 1..Len(z) : r[Len(b) + i] = z[i]
      <4>1. b \in Seq(RequestStep) /\ z \in Seq(RequestStep)
        BY <1>4, <1>6
      <4> QED
        BY <4>1, Joined
    <3> HIDE DEF r
    <3> QED
      BY <1>4, <3>1
  <2>2. Len(b) + 1 = 2 + Len(s)
    BY <1>3, <1>6
  <2> HIDE DEF r
  <2> QED
    BY <1>4, <1>6, <2>1, <2>2
<1> HIDE DEF r
<1>8. /\ r \in Seq(RequestStep) /\ Len(r) = 2 + Len(s) /\ r[1] = Step("refresh", {})
      /\ \A i \in 1..Len(s) : r[1 + i] = s[i]
      /\ r[2 + Len(s)] = Step("commit", {})
  BY <1>3, <1>6, <1>7
<1>9. \A j \in 1..Len(r) :
        j = 1 \/ j = Len(r) \/ (j - 1 \in 1..Len(s) /\ r[j] = s[j - 1])
  <2>1. ASSUME NEW i \in 1..Len(r), i # 1, i # Len(r)
        PROVE i - 1 \in 1..Len(s) /\ r[i] = s[i - 1]
    <3>1. i - 1 \in 1..Len(s) /\ 1 + (i - 1) = i
      BY <1>3, <1>8, <2>1
    <3> QED
      BY <1>8, <3>1
  <2> QED
    BY <2>1
<1>10. r # <<>> /\ Head(r).do = "refresh"
  BY <1>3, <1>8, StepIs
<1>11. \A i \in 1..Len(r) : r[i].do = "commit" => i = Len(r)
  BY <1>3, <1>8, <1>9, StepIs
<1>12. Sourced(r)
  <2>1. ASSUME NEW i \in 1..Len(r), NEW k \in Key, Does(r, i, {"push", "remember"}, k)
        PROVE \E m \in 1..(i - 1) : Does(r, m, {"capture"}, k)
    <3>1. i - 1 \in 1..Len(s) /\ r[i] = s[i - 1]
      BY <1>8, <1>9, <2>1, StepIs DEF Does
    <3>2. Does(s, i - 1, {"push", "remember"}, k)
      BY <2>1, <3>1 DEF Does
    <3>3. PICK m \in 1..((i - 1) - 1) : Does(s, m, {"capture"}, k)
      BY <1>1, <3>1, <3>2 DEF Good, Sourced
    <3>4. m \in 1..Len(s) /\ 1 + m \in 1..(i - 1)
      BY <1>3, <3>1
    <3> QED
      BY <1>8, <3>3, <3>4 DEF Does
  <2> QED
    BY <2>1 DEF Sourced
<1>13. ASSUME provider \in Chrome, NEW i \in 1..Len(r), r[i].do = "capture"
       PROVE \E m \in 1..(i - 1) : r[m].do \in Opening
  <2>1. i - 1 \in 1..Len(s) /\ r[i] = s[i - 1]
    BY <1>8, <1>9, <1>13, StepIs
  <2>2. PICK m \in 1..Len(s) : s[m].do \in Opening /\ \A j \in 1..m : s[j].do # "capture"
    BY <1>1, <1>13 DEF Good, Opens
  <2>3. 1 + m \in 1..(i - 1)
    <3>1. ~ (i - 1 \in 1..m)
      BY <1>13, <2>1, <2>2
    <3> QED
      BY <1>3, <2>1, <3>1
  <2> QED
    BY <1>8, <2>2, <2>3
<1>14. kind = "list" /\ provider \in KeepsContext => Remembers(r, es)
  <2>1. ASSUME NEW e, \E i \in 1..Len(s) : Does(s, i, {"remember"}, e)
        PROVE \E i \in 1..Len(r) : Does(r, i, {"remember"}, e)
    <3>1. PICK i \in 1..Len(s) : Does(s, i, {"remember"}, e)
      BY <2>1
    <3>2. 1 + i \in 1..Len(r) /\ r[1 + i] = s[i]
      BY <1>3, <1>8
    <3> QED
      BY <3>1, <3>2 DEF Does
  <2> QED
    BY <1>1, <2>1 DEF Good, Remembers
<1> QED
  BY <1>1, <1>5, <1>8, <1>10, <1>11, <1>12, <1>13, <1>14 DEF Shape

-----------------------------------------------------------------------------
(* Types.                                                                  *)

\* The steps after the head, by position.
LEMMA Popped ==
  ASSUME NEW S, NEW s \in Seq(S), s # <<>>
  PROVE /\ Head(s) = s[1] /\ Head(s) \in S /\ 1 \in 1..Len(s)
        /\ Tail(s) \in Seq(S) /\ Len(s) \in Nat /\ Len(Tail(s)) = Len(s) - 1
        /\ \A i \in 1..Len(Tail(s)) : i + 1 \in 1..Len(s) /\ Tail(s)[i] = s[i + 1]
        /\ \A i \in 1..Len(s) : i = 1 \/ (i - 1 \in 1..Len(Tail(s)) /\ Tail(s)[i - 1] = s[i])
<1>1. /\ Head(s) = s[1] /\ Head(s) \in S /\ Tail(s) \in Seq(S)
      /\ Len(s) \in Nat /\ Len(Tail(s)) = Len(s) - 1 /\ Len(s) # 0
      /\ \A i \in 1..Len(Tail(s)) : Tail(s)[i] = s[i + 1]
  BY HeadTailProperties, LenProperties, EmptySeq
<1>2. \A i \in 1..Len(Tail(s)) : i + 1 \in 1..Len(s)
  BY <1>1
<1>3. ASSUME NEW i \in 1..Len(s), i # 1
      PROVE i - 1 \in 1..Len(Tail(s)) /\ Tail(s)[i - 1] = s[i]
  <2>1. i - 1 \in 1..Len(Tail(s)) /\ (i - 1) + 1 = i
    BY <1>1, <1>3
  <2> QED
    BY <1>1, <2>1
<1> QED
  BY <1>1, <1>2, <1>3

\* No operation is an operation.
LEMMA NoOpType ==
  NoOp \in Op /\ NoOp.got = Never /\ NoOp.todo = <<>> /\ NoOp.kind = "none"
  /\ NoOp.committing = FALSE /\ NoOp.aborted = FALSE /\ NoOp.dropped = FALSE
  /\ Never \in [Key -> Nat]
  BY DEF NoOp, Op, Never

\* What the head of the list says.
LEMMA HeadType ==
  ASSUME op \in Op, op.todo # <<>>
  PROVE /\ Head(op.todo) \in RequestStep \cup PublishStep
        /\ Head(op.todo) = op.todo[1] /\ Keys \subseteq Key
        /\ Head(op.todo).do \in Collecting \cup {"refresh", "commit", "ingest", "outbox",
                                                  "journal", "file", "memory", "confirm"}
        /\ Head(op.todo).do = "push" => TheKey \in Key /\ TheKey \in Keys
        /\ Head(op.todo).do \in {"ingest", "outbox", "journal", "file", "memory"} =>
             TheKey \in Key /\ Keys = {TheKey}
<1> DEFINE h == Head(op.todo)
<1>1. h \in RequestStep \cup PublishStep /\ h = op.todo[1]
  BY Popped DEF Op
<1> HIDE DEF h
<1>2. /\ h.keys \subseteq Key
      /\ h.do \in Collecting \cup {"refresh", "commit", "ingest", "outbox",
                                                  "journal", "file", "memory", "confirm"}
      /\ h.do = "push" => h.keys # {}
      /\ h.do \in {"ingest", "outbox", "journal", "file", "memory"} => \E k \in Key : h.keys = {k}
  BY <1>1 DEF RequestStep, PublishStep, CollectStep, Collecting
<1>3. Keys = h.keys
  BY DEF Keys, h
<1>4. Keys # {} => TheKey \in Keys
  BY DEF TheKey
<1> QED
  BY <1>1, <1>2, <1>3, <1>4 DEF h

\* An operation that went a step on is an operation.
LEMMA WentType ==
  ASSUME op \in Op, op.todo # <<>>
  PROVE /\ Went \in Op /\ Went.todo = Tail(op.todo) /\ Went.kind = op.kind /\ Went.es = op.es
        /\ Went.rounds = op.rounds /\ Went.got = op.got /\ Went.since = op.since
        /\ Went.dropped = op.dropped /\ Went.aborted = op.aborted
        /\ Went.committing = op.committing
<1>1. Tail(op.todo) \in Seq(RequestStep \cup PublishStep)
  BY Popped DEF Op
<1> QED
  BY <1>1 DEF Went, Op

\* An operation that deferred its round is an operation.
LEMMA PushedType ==
  ASSUME op \in Op, op.todo # <<>>, Head(op.todo).do = "push"
  PROVE /\ Pushed \in Op /\ Pushed.todo = Tail(op.todo) /\ Pushed.kind = op.kind /\ Pushed.es = op.es
        /\ Pushed.rounds = Append(op.rounds, TheKey) /\ Pushed.got = op.got /\ Pushed.since = op.since
        /\ Pushed.dropped = op.dropped /\ Pushed.aborted = op.aborted
        /\ Pushed.committing = op.committing
<1>1. Append(op.rounds, TheKey) \in Seq(Key)
  BY HeadType, AppendProperties DEF Op
<1>2. Went.rounds = op.rounds
  BY WentType
<1>3. Pushed = [Went EXCEPT !.rounds = Append(op.rounds, TheKey)]
  BY <1>2 DEF Pushed
<1> QED
  BY <1>1, <1>3, WentType DEF Op

\* The loop's turns, by cases.
LEMMA BatchesType ==
  ASSUME TypeInv
  PROVE /\ Batches \in Seq(Seq(Esport)) /\ Len(Batches) \in Nat \ {0}
        /\ \A i \in 1..Len(Batches) : Batches[i] \in Seq(Esport)
        /\ Esports \in Seq(Esport) /\ Len(Esports) \in Nat \ {0}
<1>1. Esports \in Seq(Esport) /\ Len(Esports) \in Nat \ {0}
  BY CollectionAssumption, LenProperties, EmptySeq
<1>2. CASE provider = "bet365" /\ mode = "loop"
  <2>1. Batches = [i \in 1..Len(Esports) |-> <<Esports[i]>>]
    BY <1>2 DEF Batches
  <2>2. \A i \in 1..Len(Esports) : <<Esports[i]>> \in Seq(Esport)
    <3>1. \A i \in 1..Len(Esports) : Esports[i] \in Esport
      BY <1>1, ElementOfSeq
    <3> QED
      BY <3>1
  <2>3. Batches \in [1..Len(Esports) -> Seq(Esport)]
    BY <2>1, <2>2, Zenon
  <2>4. Batches \in Seq(Seq(Esport)) /\ Len(Batches) = Len(Esports)
    BY <1>1, <2>3, AsSequence
  <2> QED
    BY <1>1, <2>1, <2>2, <2>4
<1>3. CASE ~ (provider = "bet365" /\ mode = "loop")
  BY <1>1, <1>3 DEF Batches
<1> QED
  BY <1>1, <1>2, <1>3

\* An operation that begins is an operation.
LEMMA BeginType ==
  ASSUME TypeInv, NEW kind \in {"list", "detail"}, NEW es \in Seq(Esport), NEW v,
         kind = "detail" => v \in Event, NEW n \in 1..MaxPages, Begin(kind, es, v, n)
  PROVE /\ op' \in Op /\ op'.kind = kind /\ op'.es = es /\ Shape(op'.todo, kind, es)
        /\ op'.rounds = <<>> /\ op'.got = Never /\ op'.dropped = FALSE
        /\ op'.aborted = FALSE /\ op'.committing = FALSE
<1>1. n \in Nat \ {0}
  BY CollectionAssumption
<1> DEFINE r == Requesting(kind, es, v, n)
<1>2. Shape(r, kind, es)
  BY <1>1, Requests DEF TypeInv
<1>3. op' = [NoOp EXCEPT !.kind = kind, !.es = es, !.todo = r]
  BY DEF Begin
<1> HIDE DEF r
<1>4. r \in Seq(RequestStep \cup PublishStep)
  <2>1. r \in Seq(RequestStep)
    BY <1>2 DEF Shape
  <2> QED
    BY <2>1, SeqMonotonic
<1> QED
  BY <1>2, <1>3, <1>4, NoOpType DEF NoOp, Op

\* What a store writes for one capture, in order.
Stores(w, k) ==
  /\ w \in Seq(PublishStep)
  /\ \A n \in 1..Len(w) :
       /\ w[n].keys = {k} /\ w[n].do \notin {"ingest", "confirm"}
       /\ w[n].do \in {"outbox", "file"} => w[n].do = Durable
       /\ w[n].do \in {"memory", "file"} /\ ~ OwnJournal(k) =>
            \E m \in 1..(n - 1) : w[m].do = "journal"
       /\ w[n].do = "memory" =>
            \E m \in 1..Len(w) : w[m].do = Durable /\ (remote \/ m \in {n - 1, n + 1})

\* w writes to three places for one key, in this order.
Three(w, k, a, b, c) ==
  /\ w \in Seq(PublishStep) /\ Len(w) = 3
  /\ w[1].do = a /\ w[2].do = b /\ w[3].do = c /\ \A i \in 1..3 : w[i].keys = {k}

LEMMA WritesThree ==
  ASSUME NEW k \in Key,
         NEW a \in {"outbox", "journal", "file", "memory"},
         NEW b \in {"outbox", "journal", "file", "memory"},
         NEW c \in {"outbox", "journal", "file", "memory"}
  PROVE Three(Writes(<<a, b, c>>, k), k, a, b, c)
<1> DEFINE o == <<a, b, c>>
<1>1. o[1] = a /\ o[2] = b /\ o[3] = c /\ Len(o) = 3
  OBVIOUS
<1> HIDE DEF o
<1> DEFINE w == Writes(o, k)
<1>2. w = [i \in 1..3 |-> Step(o[i], {k})]
  BY <1>1 DEF Writes
<1>3. \A i \in 1..3 : o[i] \in {"outbox", "journal", "file", "memory"}
  BY <1>1
<1>4. \A d \in {"outbox", "journal", "file", "memory"} : Step(d, {k}) \in PublishStep
  BY DEF Step, PublishStep
<1>5. w \in [1..3 -> PublishStep]
  BY <1>2, <1>3, <1>4
<1>6. w \in Seq(PublishStep) /\ Len(w) = 3
  BY <1>5, AsSequence
<1>7. \A i \in 1..3 : w[i] = Step(o[i], {k})
  BY <1>2
<1> HIDE DEF w
<1>8. /\ w[1].do = a /\ w[2].do = b /\ w[3].do = c
      /\ \A i \in 1..3 : w[i].keys = {k}
  BY <1>1, <1>7, StepIs
<1> QED
  BY <1>6, <1>8 DEF Three, o, w

\* Every store writes the journal before file and memory, and the durable copy first
\* or beside the memory.
LEMMA IngestStores ==
  ASSUME provider \in Provider, remote \in BOOLEAN, NEW k \in Key
  PROVE Stores(IngestSteps(k), k)
<1> DEFINE w == IngestSteps(k)
<1>1. CASE remote
  <2>1. CASE provider = "bet365" /\ k \in Esport
    <3>1. w = Writes(<<"outbox", "memory">>, k)
      BY <1>1, <2>1, CatalogAssumption DEF IngestSteps, Bet365ListIngest
    <3>2. w = <<Step("outbox", {k}), Step("memory", {k})>>
      BY <3>1 DEF Writes
    <3>3. Step("outbox", {k}) \in PublishStep /\ Step("memory", {k}) \in PublishStep
      BY DEF Step, PublishStep
    <3> HIDE DEF w
    <3>4. w \in Seq(PublishStep) /\ Len(w) = 2 /\ w[1] = Step("outbox", {k})
          /\ w[2] = Step("memory", {k})
      BY <3>2, <3>3
    <3>5. OwnJournal(k) /\ Durable = "outbox"
      BY <1>1, <2>1 DEF OwnJournal, Durable
    <3> QED
      BY <1>1, <3>4, <3>5, StepIs DEF Stores, w
  <2>2. CASE ~ (provider = "bet365" /\ k \in Esport)
    <3>1. w = Writes(<<"outbox", "journal", "memory">>, k)
      BY <1>1, <2>2 DEF IngestSteps, Bet365DetailIngest, BetanoIngest, SuperbetIngest,
                        BlazeIngest, EstrelaBetIngest, Usual, Provider, Key
    <3>2. Three(w, k, "outbox", "journal", "memory")
      BY <3>1, WritesThree
    <3> HIDE DEF w
    <3>3. Durable = "outbox"
      BY <1>1 DEF Durable
    <3> QED
      BY <1>1, <3>2, <3>3 DEF Stores, Three, w
  <2> QED
    BY <2>1, <2>2
<1>2. CASE ~ remote /\ provider = "betano"
  <2>1. w = Writes(<<"journal", "memory", "file">>, k)
    BY <1>2 DEF IngestSteps, BetanoIngest
  <2>2. Three(w, k, "journal", "memory", "file")
    BY <2>1, WritesThree
  <2> HIDE DEF w
  <2>3. Durable = "file"
    BY <1>2 DEF Durable
  <2> QED
    BY <1>2, <2>2, <2>3 DEF Stores, Three, w
<1>3. CASE ~ remote /\ provider # "betano"
  <2>1. w = Writes(<<"journal", "file", "memory">>, k)
    BY <1>3 DEF IngestSteps, Bet365ListIngest, Bet365DetailIngest, SuperbetIngest,
                BlazeIngest, EstrelaBetIngest, Usual, Provider, Key
  <2>2. Three(w, k, "journal", "file", "memory")
    BY <2>1, WritesThree
  <2> HIDE DEF w
  <2>3. Durable = "file"
    BY <1>3 DEF Durable
  <2> QED
    BY <1>3, <2>2, <2>3 DEF Stores, Three, w
<1> QED
  BY <1>1, <1>2, <1>3

\* What is to be done from the commit point on.
LEMMA Committed ==
  ASSUME TypeInv, Commit
  PROVE /\ op' \in Op /\ op'.todo \in Seq(PublishStep) /\ op'.committing
        /\ op'.kind = op.kind /\ op'.es = op.es /\ op'.rounds = op.rounds /\ op'.got = op.got
        /\ op'.dropped = op.dropped /\ op'.aborted = op.aborted
        /\ \A n \in 1..Len(op'.todo) :
             /\ op'.todo[n].do = "ingest" \/ (op'.todo[n].do = "confirm" /\ n = Len(op'.todo))
             /\ op'.todo[n].keys \subseteq ToSet(op.rounds)
<1>1. op \in Op /\ op.rounds \in Seq(Key) /\ Len(op.rounds) \in Nat
      /\ \A i \in 1..Len(op.rounds) : op.rounds[i] \in Key
  BY LenProperties, ElementOfSeq DEF TypeInv, Op
<1> DEFINE a == [i \in 1..Len(op.rounds) |-> Step("ingest", {op.rounds[i]})]
           z == <<Step("confirm", ToSet(op.rounds))>>
           r == a \o z
<1>2. \A i \in 1..Len(op.rounds) : Step("ingest", {op.rounds[i]}) \in PublishStep
  BY <1>1 DEF Step, PublishStep
<1>3. a \in Seq(PublishStep) /\ Len(a) = Len(op.rounds)
      /\ \A i \in 1..Len(op.rounds) : a[i] = Step("ingest", {op.rounds[i]})
  <2>1. a \in [1..Len(op.rounds) -> PublishStep]
    BY <1>2, Zenon
  <2>2. \A i \in 1..Len(op.rounds) : a[i] = Step("ingest", {op.rounds[i]})
    OBVIOUS
  <2> HIDE DEF a
  <2>3. a \in Seq(PublishStep) /\ Len(a) = Len(op.rounds)
    BY <1>1, <2>1, AsSequence
  <2> QED
    BY <2>2, <2>3
<1>4. z \in Seq(PublishStep) /\ Len(z) = 1 /\ z[1] = Step("confirm", ToSet(op.rounds))
  <2>1. ToSet(op.rounds) \subseteq Key
    BY <1>1 DEF ToSet
  <2>2. Step("confirm", ToSet(op.rounds)) \in PublishStep
    BY <2>1 DEF Step, PublishStep
  <2> QED
    BY <2>2
<1>5. op' = [op EXCEPT !.committing = TRUE, !.todo = r]
  BY DEF Commit
<1> HIDE DEF a, z
<1>6. r \in Seq(PublishStep) /\ Len(r) = Len(a) + Len(z)
      /\ (\A i \in 1..Len(a) : r[i] = a[i]) /\ \A i \in 1..Len(z) : r[Len(a) + i] = z[i]
  BY <1>3, <1>4, Joined
<1> HIDE DEF r
<1>7. r \in Seq(RequestStep \cup PublishStep)
  BY <1>6, SeqMonotonic
<1>8. op' \in Op /\ op'.todo = r /\ op'.committing
      /\ op'.kind = op.kind /\ op'.es = op.es /\ op'.rounds = op.rounds /\ op'.got = op.got
      /\ op'.dropped = op.dropped /\ op'.aborted = op.aborted
  BY <1>1, <1>5, <1>7 DEF Op
<1>9. ASSUME NEW n \in 1..Len(r)
      PROVE /\ r[n].do = "ingest" \/ (r[n].do = "confirm" /\ n = Len(r))
            /\ r[n].keys \subseteq ToSet(op.rounds)
  <2>1. CASE n \in 1..Len(op.rounds)
    <3>1. r[n] = Step("ingest", {op.rounds[n]})
      BY <1>3, <1>6, <2>1
    <3>2. op.rounds[n] \in ToSet(op.rounds)
      BY <2>1 DEF ToSet
    <3> QED
      BY <3>1, <3>2, StepIs
  <2>2. CASE n \notin 1..Len(op.rounds)
    <3>1. n = Len(a) + 1 /\ n = Len(r)
      BY <1>1, <1>3, <1>4, <1>6, <2>2
    <3>2. r[n] = Step("confirm", ToSet(op.rounds))
      BY <1>4, <1>6, <3>1
    <3> QED
      BY <3>1, <3>2, StepIs
  <2> QED
    BY <2>1, <2>2
<1> QED
  BY <1>6, <1>8, <1>9

\* What an ingest adds to the steps is typed.
LEMMA Ingested ==
  ASSUME TypeInv, Ingest, ~ Ignored(TheKey, op.got[TheKey])
  PROVE /\ op' = [Went EXCEPT !.todo = IngestSteps(TheKey) \o Tail(op.todo)]
        /\ op' \in Op /\ op'.todo = IngestSteps(TheKey) \o Tail(op.todo)
        /\ op'.kind = op.kind /\ op'.es = op.es /\ op'.rounds = op.rounds /\ op'.got = op.got
        /\ op'.dropped = op.dropped /\ op'.aborted = op.aborted
        /\ op'.committing = op.committing
        /\ Stores(IngestSteps(TheKey), TheKey)
<1>1. op \in Op /\ op.todo # <<>> /\ Head(op.todo).do = "ingest"
  BY DEF TypeInv, Ingest, At
<1>2. TheKey \in Key
  BY <1>1, HeadType
<1>3. Stores(IngestSteps(TheKey), TheKey)
  BY <1>2, IngestStores DEF TypeInv
<1> DEFINE r == IngestSteps(TheKey) \o Tail(op.todo)
<1>4. r \in Seq(RequestStep \cup PublishStep)
  <2>1. IngestSteps(TheKey) \in Seq(RequestStep \cup PublishStep)
    <3>1. IngestSteps(TheKey) \in Seq(PublishStep)
      BY <1>3 DEF Stores
    <3> QED
      BY <3>1, SeqMonotonic
  <2>2. Tail(op.todo) \in Seq(RequestStep \cup PublishStep)
    BY <1>1, Popped DEF Op
  <2> QED
    BY <2>1, <2>2, Joined
<1>5. op' = [Went EXCEPT !.todo = r]
  BY <1>1, WentType DEF Ingest
<1> HIDE DEF r
<1>6. op' \in Op /\ op'.todo = r
      /\ op'.kind = op.kind /\ op'.es = op.es /\ op'.rounds = op.rounds /\ op'.got = op.got
      /\ op'.dropped = op.dropped /\ op'.aborted = op.aborted
      /\ op'.committing = op.committing
  BY <1>1, <1>4, <1>5, WentType DEF Op
<1> QED
  BY <1>3, <1>5, <1>6 DEF r

\* An operation that captured is an operation.
LEMMA CapturedType ==
  ASSUME TypeInv, Capture
  PROVE /\ op' \in Op /\ now' \in Nat /\ op'.todo = Tail(op.todo) /\ op'.kind = op.kind
        /\ op'.es = op.es /\ op'.rounds = op.rounds /\ op'.dropped = op.dropped
        /\ op'.aborted = op.aborted /\ op'.committing = op.committing
        /\ now' = IF Keys = {} THEN now ELSE now + 1
        /\ \A k \in Key : op'.got[k] = IF k \in Keys THEN now + 1 ELSE op.got[k]
<1>1. op \in Op /\ op.todo # <<>> /\ now \in Nat
  BY DEF TypeInv, Capture, At
<1>2. now' = (IF Keys = {} THEN now ELSE now + 1) /\ now' \in Nat
  BY <1>1 DEF Capture
<1> DEFINE g == [k \in Key |-> IF k \in Keys THEN now' ELSE op.got[k]]
           c == [k \in Key |-> IF k \in Keys /\ op.since[k] = 0 THEN now' ELSE op.since[k]]
<1>3. Went.got = op.got /\ Went.since = op.since /\ Went \in Op
  BY <1>1, WentType
<1>4. op' = [Went EXCEPT !.got = g, !.since = c]
  <2>1. op' = [Went EXCEPT !.got = [k \in Key |-> IF k \in Keys THEN now' ELSE Went.got[k]],
                           !.since = [k \in Key |-> IF k \in Keys /\ Went.since[k] = 0
                                                       THEN now' ELSE Went.since[k]]]
    BY <1>3 DEF Capture, Op
  <2> QED
    BY <1>3, <2>1
<1>5. g \in [Key -> Nat] /\ c \in [Key -> Nat]
  BY <1>1, <1>2 DEF Op
<1>6. \A k \in Key : g[k] = IF k \in Keys THEN now + 1 ELSE op.got[k]
  BY <1>2
<1> HIDE DEF g, c
<1>7. op' \in Op /\ op'.got = g /\ op'.todo = Went.todo /\ op'.kind = Went.kind /\ op'.es = Went.es
      /\ op'.rounds = Went.rounds /\ op'.dropped = Went.dropped
      /\ op'.aborted = Went.aborted /\ op'.committing = Went.committing
  BY <1>3, <1>4, <1>5 DEF Op
<1> QED
  BY <1>1, <1>2, <1>6, <1>7, WentType

\* A collector that closed its tab keeps the types.
LEMMA CloseType ==
  ASSUME TypeInv, Close \/ UNCHANGED transport
  PROVE handle' \in {"none", "current", "lost"} /\ ctx' \in [Esport -> Nat]
  BY DEF TypeInv, Close, transport

\* A failure keeps the types.
LEMMA FailType ==
  ASSUME TypeInv, NEW why, Fail(why)
  PROVE TypeInv'
<1>1. Close \/ UNCHANGED transport
  BY DEF Fail
<1>2. handle' \in {"none", "current", "lost"} /\ ctx' \in [Esport -> Nat]
  BY <1>1, CloseType
<1>3. provider' = provider /\ mode' = mode /\ Cycle' = Cycle
  BY DEF Fail, config, Cycle, Batches
<1>4. cycle' \in Cycle'
  <2>1. cycle' \in Cycle
    BY EmptySeq DEF Fail, TypeInv, Cycle
  <2> QED
    BY <1>3, <2>1
<1>5. op' \in Op /\ ready' \in BOOLEAN
  BY NoOpType DEF Fail, TypeInv
<1> QED
  BY <1>2, <1>4, <1>5 DEF TypeInv, Fail, config, store

\* Every step keeps the types.
LEMMA TypeStep ==
  TypeInv /\ [Next]_vars => TypeInv'
<1> SUFFICES ASSUME TypeInv, [Next]_vars PROVE TypeInv'
  OBVIOUS
<1>1. ASSUME UNCHANGED config PROVE Cycle' = Cycle
  BY <1>1 DEF config, Cycle, Batches
<1>2. CASE UNCHANGED vars
  BY <1>1, <1>2 DEF TypeInv, vars, config, store, transport
<1>3. ASSUME op.todo # <<>> PROVE Went \in Op
  BY <1>3, WentType DEF TypeInv
<1>4. CASE \/ ReadSwitch \/ Need \/ CheckRound
  BY <1>1, <1>3, <1>4 DEF ReadSwitch, Need, CheckRound, At, TypeInv, config, store, transport
<1>5. CASE Refresh
  <2>1. Restored \in [Key -> Nat]
    BY NoOpType DEF Restored, TypeInv
  <2> QED
    BY <1>1, <1>3, <1>5, <2>1 DEF Refresh, At, TypeInv, config, transport
<1>6. CASE Open
  BY <1>1, <1>3, <1>6 DEF Open, At, OpenedTab, TypeInv, config, store
<1>7. CASE Capture
  BY <1>1, <1>7, CapturedType DEF Capture, TypeInv, config, store, transport
<1>8. CASE Push
  <2>1. Pushed \in Op
    BY <1>8, PushedType DEF Push, At, TypeInv
  <2> QED
    BY <1>1, <1>8, <2>1 DEF Push, TypeInv, config, store, transport
<1>9. CASE Remember
  <2>1. op.got \in [Key -> Nat] /\ Esport \subseteq Key
    BY DEF TypeInv, Op, Key
  <2>2. ctx' \in [Esport -> Nat]
    BY <1>9, <2>1 DEF Remember, TypeInv
  <2> QED
    BY <1>1, <1>3, <1>9, <2>2 DEF Remember, At, TypeInv, config, store
<1>10. CASE StepFails \/ GiveUp \/ NotAccepted
  BY <1>10, FailType DEF StepFails, GiveUp, NotAccepted
<1>11. CASE Commit
  BY <1>1, <1>11, Committed DEF Commit, TypeInv, config, store, transport
<1>12. CASE Ingest
  <2>1. op' \in Op
    <3>1. CASE Ignored(TheKey, op.got[TheKey])
      BY <1>3, <1>12, <3>1 DEF Ingest, At
    <3> QED
      BY <1>12, <3>1, Ingested
  <2> QED
    BY <1>1, <1>12, <2>1 DEF Ingest, TypeInv, config, store, transport
<1>13. CASE WriteOutbox \/ AppendJournal \/ WriteFile \/ SetMemory
  <2>1. TheKey \in Key /\ op.got \in [Key -> Nat] /\ op.got[TheKey] \in Nat /\ op.todo # <<>>
    <3>1. op.todo # <<>> /\ op \in Op
          /\ Head(op.todo).do \in {"outbox", "journal", "file", "memory"}
      BY <1>13 DEF WriteOutbox, AppendJournal, WriteFile, SetMemory, At, TypeInv
    <3>2. TheKey \in Key
      BY <3>1, HeadType
    <3> QED
      BY <3>1, <3>2 DEF Op
  <2>2. Saved(TheKey, op.got[TheKey]) \in [Key -> Nat]
    BY <2>1 DEF Saved, TypeInv
  <2>3. /\ mem' \in [Key -> Nat] /\ disk' \in [Key -> Nat] /\ journal' \in [Key -> Nat]
        /\ op' = Went
        /\ UNCHANGED <<config, now, up, stopping, loaded, transport, ready, cycle, acked>>
    <3>1. CASE WriteOutbox
      BY <3>1, <2>1 DEF WriteOutbox, TypeInv
    <3>2. CASE AppendJournal
      BY <3>2, <2>1 DEF AppendJournal, TypeInv
    <3>3. CASE WriteFile
      BY <3>3, <2>2 DEF WriteFile, TypeInv
    <3>4. CASE SetMemory
      BY <3>4, <2>1 DEF SetMemory, TypeInv
    <3> QED
      BY <1>13, <3>1, <3>2, <3>3, <3>4
  <2>4. op' \in Op
    BY <1>3, <2>1, <2>3
  <2> QED
    BY <1>1, <2>3, <2>4 DEF TypeInv, config, transport
<1>14. CASE Confirm
  <2>1. acked' \in [Key -> Nat]
    BY <1>14 DEF Confirm, TypeInv, Op
  <2> QED
    BY <1>1, <1>14, <2>1, NoOpType DEF Confirm, TypeInv, config, store, transport
<1>15. CASE Start
  <2>1. mem' \in [Key -> Nat] /\ loaded' \in BOOLEAN
    <3>1. Restored \in [Key -> Nat]
      BY NoOpType DEF Restored, TypeInv
    <3>2. mem' = Restored \/ mem' = Never
      BY <1>15 DEF Start
    <3>3. loaded' \in BOOLEAN
      BY <1>15 DEF Start, Active, TypeInv
    <3> QED
      BY <3>1, <3>2, <3>3, NoOpType
  <2> QED
    BY <1>1, <1>15, <2>1 DEF Start, TypeInv, config, transport
<1>16. CASE Crash \/ Exit
  <2>1. NoCycle \in Cycle
    BY BatchesType, EmptySeq DEF NoCycle, Cycle
  <2>2. Gone
    BY <1>16 DEF Crash, Exit
  <2>3. ctx' \in [Esport -> Nat]
    BY <2>2 DEF Gone
  <2> QED
    BY <1>1, <2>1, <2>2, <2>3, NoOpType DEF Gone, TypeInv, config
<1>17. CASE ScheduleList
  <2>1. PICK n \in 1..MaxPages : Begin("list", Esports, CHOOSE v \in Event : TRUE, n)
    BY <1>17 DEF ScheduleList
  <2>2. op' \in Op
    BY <2>1, BeginType, BatchesType
  <2> QED
    BY <1>1, <1>17, <2>2 DEF ScheduleList, TypeInv, config, store, transport
<1>18. CASE ScheduleDetail
  <2>1. PICK v \in Event, n \in 1..MaxPages : Begin("detail", <<EsportOf[v]>>, v, n)
    BY <1>18 DEF ScheduleDetail
  <2>2. <<EsportOf[v]>> \in Seq(Esport)
    BY CatalogAssumption
  <2>3. op' \in Op
    BY <2>1, <2>2, BeginType
  <2> QED
    BY <1>1, <1>18, <2>3 DEF ScheduleDetail, TypeInv, config, store, transport
<1>19. CASE Timeout
  <2>1. op' \in Op
    BY <1>19 DEF Timeout, TypeInv, Op
  <2> QED
    BY <1>1, <1>19, <2>1 DEF Timeout, TypeInv, config, store, transport
<1>20. CASE Stop
  <2>1. op' \in Op
    BY <1>20 DEF Stop, TypeInv, Op
  <2> QED
    BY <1>1, <1>20, <2>1 DEF Stop, TypeInv, config, store, transport
<1>21. CASE StartCycle
  <2>1. PICK details \in BOOLEAN, n \in 1..MaxPages :
          /\ cycle' = [cycle EXCEPT !.on = TRUE, !.ok = TRUE,
                         !.games = IF details THEN Batches[cycle.turn] ELSE <<>>]
          /\ Begin("list", Batches[cycle.turn], CHOOSE v \in Event : TRUE, n)
    BY <1>21 DEF StartCycle
  <2>2. cycle \in Cycle /\ Batches[cycle.turn] \in Seq(Esport) /\ <<>> \in Seq(Esport)
    BY BatchesType, EmptySeq DEF TypeInv, Cycle
  <2>3. op' \in Op
    BY <2>1, <2>2, BeginType
  <2>4. cycle' \in Cycle
    BY <2>1, <2>2 DEF Cycle
  <2> QED
    BY <1>1, <1>21, <2>3, <2>4 DEF StartCycle, TypeInv, config, store, transport
<1>22. CASE CycleDetail
  <2>1. cycle \in Cycle /\ cycle.games \in Seq(Esport) /\ <<>> \in Seq(Esport)
    BY EmptySeq DEF TypeInv, Cycle
  <2>2. op' \in Op /\ cycle' \in Cycle
    <3>1. CASE \E v \in Event, n \in 1..MaxPages :
                 /\ cycle' = [cycle EXCEPT !.games = Tail(@)]
                 /\ Begin("detail", <<EsportOf[v]>>, v, n)
      <4>1. PICK v \in Event, n \in 1..MaxPages :
                 /\ cycle' = [cycle EXCEPT !.games = Tail(@)]
                 /\ Begin("detail", <<EsportOf[v]>>, v, n)
        BY <3>1
      <4>2. <<EsportOf[v]>> \in Seq(Esport)
        BY CatalogAssumption
      <4>3. op' \in Op
        BY <4>1, <4>2, BeginType
      <4>4. Tail(cycle.games) \in Seq(Esport)
        BY <1>22, <2>1, Popped DEF CycleDetail
      <4> QED
        BY <2>1, <4>1, <4>3, <4>4 DEF Cycle
    <3>2. CASE cycle' = [cycle EXCEPT !.games = <<>>, !.ok = FALSE] /\ UNCHANGED op
      BY <2>1, <3>2 DEF Cycle, TypeInv
    <3> QED
      BY <1>22, <3>1, <3>2 DEF CycleDetail
  <2> QED
    BY <1>1, <1>22, <2>2 DEF CycleDetail, TypeInv, config, store, transport
<1>23. CASE EndCycle
  <2>1. cycle' \in Cycle
    <3>1. cycle \in Cycle /\ cycle.turn \in Nat /\ Len(Batches) \in Nat \ {0}
      BY BatchesType DEF TypeInv, Cycle
    <3>2. (cycle.turn % Len(Batches)) + 1 \in 1..Len(Batches)
      BY <3>1
    <3> QED
      BY <1>23, <3>1, <3>2 DEF EndCycle, Cycle
  <2>2. stopping' \in BOOLEAN
    BY <1>23 DEF EndCycle, TypeInv
  <2>3. handle' \in {"none", "current", "lost"} /\ ctx' \in [Esport -> Nat]
    BY <1>23, CloseType DEF EndCycle
  <2> QED
    BY <1>1, <1>23, <2>1, <2>2, <2>3 DEF EndCycle, TypeInv, config, store
<1>24. CASE DropTab
  <2>1. op' \in Op
    BY <1>24 DEF DropTab, TypeInv, Op
  <2> QED
    BY <1>1, <1>24, <2>1 DEF DropTab, TypeInv, config, store
<1> QED
  BY <1>2, <1>4, <1>5, <1>6, <1>7, <1>8, <1>9, <1>10, <1>11, <1>12, <1>13, <1>14, <1>15, <1>16,
     <1>17, <1>18, <1>19, <1>20, <1>21, <1>22, <1>23, <1>24 DEF Next, OpStep, Driver

-----------------------------------------------------------------------------
(* What the steps of an operation have in common.                          *)

Base == TypeInv /\ IdleInv /\ RequestInv /\ PublishInv

\* A step's name tells whether the operation has committed.
LEMMA Phase ==
  ASSUME Base, op.todo # <<>>
  PROVE /\ op \in Op /\ up /\ op.kind # "none"
        /\ Head(op.todo).do \in Collecting \cup {"refresh", "commit"} =>
             ~ op.committing /\ op.todo \in Seq(RequestStep)
        /\ Head(op.todo).do \in {"ingest", "outbox", "journal", "file", "memory", "confirm"} =>
             op.committing /\ loaded /\ op.todo \in Seq(PublishStep)
<1>1. op \in Op /\ op # NoOp /\ up /\ op.kind # "none"
  BY NoOpType DEF Base, TypeInv, IdleInv
<1>2. CASE op.committing
  <2>1. op.todo \in Seq(PublishStep) /\ loaded
    BY <1>2 DEF Base, PublishInv
  <2>2. Head(op.todo) \in PublishStep
    BY <2>1, Popped
  <2>3. Head(op.todo).do \notin Collecting \cup {"refresh", "commit"}
    BY <2>2 DEF PublishStep, Collecting
  <2> QED
    BY <1>1, <1>2, <2>1, <2>3
<1>3. CASE ~ op.committing
  <2>1. op.todo \in Seq(RequestStep)
    BY <1>1, <1>3 DEF Base, RequestInv
  <2>2. Head(op.todo) \in RequestStep
    BY <2>1, Popped
  <2>3. Head(op.todo).do \notin {"ingest", "outbox", "journal", "file", "memory", "confirm"}
    BY <2>2 DEF RequestStep, CollectStep
  <2> QED
    BY <1>1, <1>3, <2>1, <2>3
<1> QED
  BY <1>2, <1>3

\* One step further.
Popping ==
  /\ op \in Op /\ up /\ op.kind # "none" /\ op.todo # <<>>
  /\ op'.todo = Tail(op.todo) /\ op'.kind = op.kind /\ op'.es = op.es
  /\ op'.dropped = op.dropped /\ op'.aborted = op.aborted /\ op'.committing = op.committing
  /\ UNCHANGED <<config, up, stopping, ready, cycle, acked, late>>

\* A step of the collector.
Collects ==
  /\ Popping /\ ~ op.committing /\ op.todo \in Seq(RequestStep)
  /\ UNCHANGED <<disk, journal>>
  /\ \/ loaded' = loaded /\ mem' = mem /\ Head(op.todo).do # "refresh"
     \/ loaded' /\ mem' = (IF loaded THEN mem ELSE Restored)
  /\ \/ now' = now /\ op'.got = op.got /\ Head(op.todo).do # "capture"
     \/ /\ Head(op.todo).do = "capture" /\ ~ op.aborted
        /\ provider \in Chrome => handle = "current"
        /\ now' = IF Keys = {} THEN now ELSE now + 1
        /\ \A k \in Key : op'.got[k] = IF k \in Keys THEN now + 1 ELSE op.got[k]
  /\ \/ op'.rounds = op.rounds
     \/ /\ Head(op.todo).do = "push" /\ TheKey \in Key /\ TheKey \in Keys
        /\ op'.rounds = Append(op.rounds, TheKey)
  /\ \/ ctx' = ctx /\ Head(op.todo).do # "remember"
     \/ /\ Head(op.todo).do = "remember"
        /\ ctx' = [e \in Esport |-> IF e \in Keys THEN op.got[e] ELSE ctx[e]]
  /\ handle' = handle \/ handle' = "current"
  /\ Head(op.todo).do \in Opening => handle' = "current"

\* The steps of a request.
LEMMA CollectsOf ==
  ASSUME Base, \/ Refresh \/ ReadSwitch \/ Need \/ Open \/ Capture \/ CheckRound
               \/ Push \/ Remember
  PROVE Collects
<1>1. /\ op \in Op /\ up /\ op.kind # "none" /\ op.todo # <<>>
      /\ ~ op.committing /\ op.todo \in Seq(RequestStep)
  <2>1. op.todo # <<>> /\ Head(op.todo).do \in Collecting \cup {"refresh", "commit"}
    BY DEF Refresh, ReadSwitch, Need, Open, Capture, CheckRound, Push, Remember, At, Collecting
  <2> QED
    BY <2>1, Phase
<1>2. CASE Refresh
  BY <1>1, <1>2, WentType DEF Refresh, At, Collects, Popping, Opening, transport
<1>3. CASE ReadSwitch \/ CheckRound
  BY <1>1, <1>3, WentType DEF ReadSwitch, CheckRound, At, Collects, Popping, Opening, transport, store
<1>4. CASE Need
  BY <1>1, <1>4, WentType DEF Need, HasContext, At, Collects, Popping, Opening, transport, store
<1>5. CASE Open
  BY <1>1, <1>5, WentType DEF Open, OpenedTab, At, Collects, Popping, Opening, store
<1>6. CASE Capture
  <2>1. TypeInv
    BY DEF Base
  <2> QED
    BY <1>1, <1>6, <2>1, CapturedType DEF Capture, At, Collects, Popping, Opening, transport, store
<1>7. CASE Push
  <2>1. TheKey \in Key /\ TheKey \in Keys
    BY <1>1, <1>7, HeadType DEF Push, At
  <2> QED
    BY <1>1, <1>7, <2>1, PushedType DEF Push, At, Collects, Popping, Opening, transport, store
<1>8. CASE Remember
  BY <1>1, <1>8, WentType DEF Remember, At, Collects, Popping, Opening, store
<1> QED
  BY <1>2, <1>3, <1>4, <1>5, <1>6, <1>7, <1>8

\* A write of the store, or a capture it ignores.
Publishes ==
  /\ Popping /\ op.committing /\ loaded /\ op.todo \in Seq(PublishStep)
  /\ op'.got = op.got /\ op'.rounds = op.rounds
  /\ UNCHANGED <<now, loaded, handle, ctx>>
  /\ TheKey \in Key /\ Keys = {TheKey} /\ op.got[TheKey] > 0 /\ op.got[TheKey] \in Nat
  /\ \/ Head(op.todo).do = "ingest" /\ UNCHANGED <<mem, disk, journal>>
     \/ /\ Head(op.todo).do = "outbox" /\ UNCHANGED <<mem, journal>>
        /\ disk' = [disk EXCEPT ![TheKey] = op.got[TheKey]]
     \/ /\ Head(op.todo).do = "journal" /\ UNCHANGED <<mem, disk>>
        /\ journal' = [journal EXCEPT ![TheKey] = op.got[TheKey]]
     \/ /\ Head(op.todo).do = "file" /\ UNCHANGED <<mem, journal>>
        /\ disk' = Saved(TheKey, op.got[TheKey])
     \/ /\ Head(op.todo).do = "memory" /\ UNCHANGED <<disk, journal>>
        /\ mem' = [mem EXCEPT ![TheKey] = op.got[TheKey]]

\* The steps after a commit.
LEMMA PublishesOf ==
  ASSUME Base,
         \/ Ingest /\ Ignored(TheKey, op.got[TheKey])
         \/ WriteOutbox \/ AppendJournal \/ WriteFile \/ SetMemory
  PROVE Publishes
<1>1. /\ op.todo # <<>>
      /\ Head(op.todo).do \in {"ingest", "outbox", "journal", "file", "memory"}
  BY DEF Ingest, WriteOutbox, AppendJournal, WriteFile, SetMemory, At
<1>2. /\ op \in Op /\ up /\ op.kind # "none"
      /\ op.committing /\ loaded /\ op.todo \in Seq(PublishStep)
  BY <1>1, Phase
<1>3. TheKey \in Key /\ Keys = {TheKey} /\ op.got[TheKey] > 0 /\ op.got[TheKey] \in Nat
  <2>1. TheKey \in Key /\ Keys = {TheKey} /\ op.got[TheKey] \in Nat
    BY <1>1, <1>2, HeadType DEF Op
  <2>2. 1 \in 1..Len(op.todo) /\ op.todo[1] = Head(op.todo)
    BY <1>1, <1>2, Popped
  <2>3. TheKey \in op.todo[1].keys
    BY <2>1, <2>2 DEF Keys
  <2>4. op.got[TheKey] > 0
    BY <1>2, <2>2, <2>3 DEF Base, PublishInv
  <2> QED
    BY <2>1, <2>4
<1>4. CASE Ingest /\ Ignored(TheKey, op.got[TheKey])
  BY <1>1, <1>2, <1>3, <1>4, WentType DEF Ingest, At, Publishes, Popping, store, transport
<1>5. CASE WriteOutbox
  BY <1>1, <1>2, <1>3, <1>5, WentType DEF WriteOutbox, At, Publishes, Popping, transport
<1>6. CASE AppendJournal
  BY <1>1, <1>2, <1>3, <1>6, WentType DEF AppendJournal, At, Publishes, Popping, transport
<1>7. CASE WriteFile
  BY <1>1, <1>2, <1>3, <1>7, WentType DEF WriteFile, At, Publishes, Popping, transport
<1>8. CASE SetMemory
  BY <1>1, <1>2, <1>3, <1>8, WentType DEF SetMemory, At, Publishes, Popping, transport
<1> QED
  BY <1>4, <1>5, <1>6, <1>7, <1>8

\* Only what is to be done changes.
Plans ==
  /\ op \in Op /\ op' \in Op /\ up /\ op.kind # "none"
  /\ op'.kind = op.kind /\ op'.es = op.es /\ op'.rounds = op.rounds /\ op'.got = op.got
  /\ op'.dropped = op.dropped /\ op'.aborted = op.aborted /\ op'.committing /\ loaded
  /\ UNCHANGED <<config, now, up, stopping, store, transport, ready, cycle, acked, late>>
  /\ op'.todo \in Seq(PublishStep) /\ op.todo # <<>>
  /\ ~ op.aborted \/ op.committing

\* The commit, and the ingest it plans.
LEMMA PlansOf ==
  ASSUME Base, Commit \/ (Ingest /\ ~ Ignored(TheKey, op.got[TheKey]))
  PROVE Plans
<1>0. TypeInv
  BY DEF Base
<1>1. CASE Commit
  <2>1. op.todo # <<>> /\ Head(op.todo).do = "commit" /\ ~ op.aborted
    BY <1>1 DEF Commit, MayCommit, At
  <2>2. op \in Op /\ up /\ op.kind # "none" /\ ~ op.committing /\ op.todo \in Seq(RequestStep)
    BY <2>1, Phase
  <2>3. loaded
    BY <2>1, <2>2 DEF Base, RequestInv
  <2> QED
    BY <1>0, <1>1, <2>1, <2>2, <2>3, Committed DEF Commit, Plans
<1>2. CASE Ingest /\ ~ Ignored(TheKey, op.got[TheKey])
  <2>1. op.todo # <<>> /\ Head(op.todo).do = "ingest"
    BY <1>2 DEF Ingest, At
  <2>2. /\ op \in Op /\ up /\ op.kind # "none" /\ op.committing /\ loaded
        /\ op.todo \in Seq(PublishStep)
    BY <2>1, Phase
  <2>3. IngestSteps(TheKey) \o Tail(op.todo) \in Seq(PublishStep)
    <3>1. IngestSteps(TheKey) \in Seq(PublishStep)
      BY <1>0, <1>2, Ingested DEF Stores
    <3>2. Tail(op.todo) \in Seq(PublishStep)
      BY <2>1, <2>2, Popped
    <3> QED
      BY <3>1, <3>2, Joined
  <2> QED
    BY <1>0, <1>2, <2>1, <2>2, <2>3, Ingested DEF Ingest, Plans
<1> QED
  BY <1>1, <1>2

\* An operation that ends without a result.
Fails ==
  /\ up /\ op' = NoOp /\ UNCHANGED <<config, now, up, stopping, store, acked>>
  /\ late' = IF op.committing THEN late ELSE late \cup Captured
  /\ ready' => ready /\ UNCHANGED transport
  /\ Close \/ UNCHANGED transport

\* The ends of an operation by failure.
LEMMA FailsOf ==
  ASSUME StepFails \/ GiveUp \/ NotAccepted
  PROVE Fails
<1>1. PICK why : up /\ Fail(why)
  BY DEF StepFails, GiveUp, NotAccepted, At
<1> QED
  BY <1>1 DEF Fail, Fails, Invalidates

\* A request that is taken up.
Begins ==
  /\ up /\ op.kind = "none" /\ op' \in Op
  /\ op'.kind \in {"list", "detail"} /\ Shape(op'.todo, op'.kind, op'.es)
  /\ op'.rounds = <<>> /\ op'.got = Never
  /\ ~ op'.dropped /\ ~ op'.aborted /\ ~ op'.committing
  /\ mode = "agent" /\ op'.kind = "list" => op'.es = Esports
  /\ UNCHANGED <<config, now, up, stopping, store, transport, ready, acked, late>>

\* The beginnings of an operation.
LEMMA BeginsOf ==
  ASSUME TypeInv, \/ ScheduleList \/ ScheduleDetail \/ StartCycle
                  \/ CycleDetail /\ op' # op
  PROVE Begins
<1>1. CASE ScheduleList
  <2>1. PICK n \in 1..MaxPages : Begin("list", Esports, CHOOSE v \in Event : TRUE, n)
    BY <1>1 DEF ScheduleList
  <2> QED
    BY <1>1, <2>1, BeginType, BatchesType DEF ScheduleList, Idle, Begins
<1>2. CASE ScheduleDetail
  <2>1. PICK v \in Event, n \in 1..MaxPages : Begin("detail", <<EsportOf[v]>>, v, n)
    BY <1>2 DEF ScheduleDetail
  <2>2. <<EsportOf[v]>> \in Seq(Esport)
    BY CatalogAssumption
  <2> QED
    BY <1>2, <2>1, <2>2, BeginType DEF ScheduleDetail, Idle, Begins
<1>3. CASE StartCycle
  <2>1. PICK n \in 1..MaxPages :
          Begin("list", Batches[cycle.turn], CHOOSE v \in Event : TRUE, n)
    BY <1>3 DEF StartCycle
  <2>2. Batches[cycle.turn] \in Seq(Esport) /\ mode # "agent"
    BY <1>3, BatchesType DEF TypeInv, Cycle, StartCycle
  <2> QED
    BY <1>3, <2>1, <2>2, BeginType DEF StartCycle, Idle, Begins
<1>4. CASE CycleDetail /\ op' # op
  <2>1. PICK v \in Event, n \in 1..MaxPages : Begin("detail", <<EsportOf[v]>>, v, n)
    BY <1>4 DEF CycleDetail
  <2>2. <<EsportOf[v]>> \in Seq(Esport)
    BY CatalogAssumption
  <2> QED
    BY <1>4, <2>1, <2>2, BeginType DEF CycleDetail, Idle, Begins
<1> QED
  BY <1>1, <1>2, <1>3, <1>4

\* A signal that is given.
Aborts ==
  /\ up /\ op \in Op /\ op' \in Op
  /\ op'.kind = op.kind /\ op'.es = op.es /\ op'.todo = op.todo /\ op'.rounds = op.rounds
  /\ op'.got = op.got /\ op'.dropped = op.dropped /\ op'.committing = op.committing
  /\ op'.aborted => op.aborted \/ (op.kind # "none" /\ ~ op.committing)
  /\ ~ op'.aborted => op' = op /\ ~ op.aborted
  /\ op.kind = "none" => op' = op
  /\ late' = IF op'.aborted THEN late \cup Captured ELSE late
  /\ stopping => stopping'
  /\ UNCHANGED <<config, now, up, store, transport, ready, cycle, acked>>

\* The aborts of an operation that goes on.
LEMMA AbortsOf ==
  ASSUME TypeInv, Timeout \/ Stop
  PROVE Aborts
<1>1. op \in Op
  BY DEF TypeInv
<1>2. ASSUME op' = [op EXCEPT !.aborted = TRUE]
      PROVE /\ op' \in Op /\ op'.aborted
            /\ op'.kind = op.kind /\ op'.es = op.es /\ op'.todo = op.todo
            /\ op'.rounds = op.rounds /\ op'.got = op.got /\ op'.dropped = op.dropped
            /\ op'.committing = op.committing
  BY <1>1, <1>2 DEF Op
<1>3. CASE Timeout
  BY <1>1, <1>2, <1>3 DEF Timeout, BeforeCommit, Idle, Aborts
<1>4. CASE Stop
  <2>1. CASE mode = "agent" /\ BeforeCommit
    BY <1>1, <1>2, <1>4, <2>1 DEF Stop, BeforeCommit, Idle, Aborts
  <2>2. CASE ~ (mode = "agent" /\ BeforeCommit)
    <3>1. op' = op
      BY <1>4, <2>2 DEF Stop
    <3> QED
      BY <1>1, <1>4, <3>1 DEF Stop, Aborts
  <2> QED
    BY <2>1, <2>2
<1> QED
  BY <1>3, <1>4

\* Nothing happens to the operation and the store.
Rests ==
  /\ op' = op /\ UNCHANGED <<config, now, up, store, ready, acked, late>>
  /\ stopping => stopping'
  /\ UNCHANGED transport \/ (op.kind = "none" /\ stopping' /\ Close)

\* The steps that touch no operation.
LEMMA RestsOf ==
  ASSUME EndCycle \/ (CycleDetail /\ op' = op) \/ UNCHANGED vars
  PROVE Rests
<1>1. CASE EndCycle
  BY <1>1 DEF EndCycle, Idle, Rests
<1>2. CASE CycleDetail /\ op' = op
  BY <1>2 DEF CycleDetail, Rests
<1>3. CASE UNCHANGED vars
  BY <1>3 DEF vars, Rests
<1> QED
  BY <1>1, <1>2, <1>3

\* Every step is one of these.
LEMMA Moves ==
  ASSUME Base, [Next]_vars
  PROVE \/ Collects \/ Publishes
        \/ Commit /\ Plans
        \/ Ingest /\ ~ Ignored(TheKey, op.got[TheKey]) /\ Plans
        \/ Confirm \/ Fails \/ Begins \/ Aborts \/ DropTab \/ Rests \/ Start \/ (up /\ Gone /\ late' = late)
<1>1. TypeInv
  BY DEF Base
<1>2. CASE \/ Refresh \/ ReadSwitch \/ Need \/ Open \/ Capture \/ CheckRound
           \/ Push \/ Remember
  BY <1>2, CollectsOf
<1>3. CASE StepFails \/ GiveUp \/ NotAccepted
  BY <1>3, FailsOf
<1>4. CASE Commit \/ Ingest \/ WriteOutbox \/ AppendJournal \/ WriteFile \/ SetMemory
  BY <1>4, PlansOf, PublishesOf
<1>5. CASE ScheduleList \/ ScheduleDetail \/ StartCycle \/ CycleDetail
  BY <1>1, <1>5, BeginsOf, RestsOf
<1>6. CASE Timeout \/ Stop
  BY <1>1, <1>6, AbortsOf
<1>7. CASE EndCycle \/ UNCHANGED vars
  BY <1>7, RestsOf
<1>8. CASE Crash \/ Exit
  BY <1>8 DEF Crash, Exit
<1>9. CASE Confirm \/ Start \/ DropTab
  BY <1>9
<1> QED
  BY <1>2, <1>3, <1>4, <1>5, <1>6, <1>7, <1>8, <1>9 DEF Next, OpStep, Driver

-----------------------------------------------------------------------------
(* The invariant, one part after the other.                                *)

\* Nothing is left of an operation that is over.
LEMMA IdleStep ==
  ASSUME Base, [Next]_vars
  PROVE IdleInv'
<1>1. IdleInv /\ TypeInv
  BY DEF Base
<1>2. CASE Collects \/ Publishes
  BY <1>2, NoOpType DEF Collects, Publishes, Popping, IdleInv
<1>3. CASE Plans
  BY <1>3 DEF Plans, IdleInv
<1>4. CASE Confirm
  BY <1>4, <1>1 DEF Confirm, At, IdleInv
<1>5. CASE Fails
  BY <1>5 DEF Fails, IdleInv
<1>6. CASE Begins
  BY <1>6 DEF Begins, IdleInv
<1>7. CASE Aborts
  BY <1>1, <1>7 DEF Aborts, IdleInv
<1>8. CASE DropTab
  <2>1. op.kind # "none" => op'.kind = op.kind
    BY <1>1, <1>8 DEF DropTab, Idle, TypeInv, Op
  <2> QED
    BY <1>1, <1>8, <2>1 DEF DropTab, Idle, IdleInv
<1>9. CASE Rests
  BY <1>1, <1>9 DEF Rests, IdleInv
<1>10. CASE Start
  BY <1>1, <1>10 DEF Start, IdleInv
<1>11. CASE Gone
  BY <1>11 DEF Gone, IdleInv
<1> QED
  BY <1>2, <1>3, <1>4, <1>5, <1>6, <1>7, <1>8, <1>9, <1>10, <1>11, Moves

\* What one write changes of a map.
LEMMA SavedIs ==
  ASSUME TypeInv, NEW k \in Key, NEW t
  PROVE /\ Saved(k, t)[k] = t
        /\ \A j \in Key \ {k} : Saved(k, t)[j] \in {mem[j], disk[j]}
  BY DEF Saved, TypeInv

\* What the store holds comes from what it held or from what is published.
Held(k) == {mem[k], disk[k], journal[k]}

\* What is held after a publishing step was held or captured before it.
LEMMA PublishedHeld ==
  ASSUME TypeInv, Publishes, NEW k \in Key
  PROVE /\ {mem'[k], disk'[k], journal'[k]} \subseteq Held(k) \cup {op.got[k]}
        /\ op.got[k] = 0 => {mem'[k], disk'[k], journal'[k]} \subseteq Held(k)
<1>1. TheKey \in Key /\ op.got[TheKey] > 0 /\ (op.got[k] = 0 => k # TheKey)
  BY DEF Publishes
<1>2. CASE Head(op.todo).do = "file"
  <2>1. disk' = Saved(TheKey, op.got[TheKey]) /\ UNCHANGED <<mem, journal>>
    BY <1>2 DEF Publishes
  <2>2. disk'[k] \in {op.got[k], mem[k], disk[k]} /\ (k # TheKey => disk'[k] \in {mem[k], disk[k]})
    BY <1>1, <2>1, SavedIs
  <2> QED
    BY <1>1, <2>1, <2>2 DEF Held
<1>3. CASE Head(op.todo).do # "file"
  BY <1>1, <1>3 DEF Publishes, Held, TypeInv
<1> QED
  BY <1>2, <1>3

\* A request's own steps hold nothing new.
LEMMA CollectedHeld ==
  ASSUME TypeInv, Collects, NEW k \in Key
  PROVE {mem'[k], disk'[k], journal'[k]} \subseteq Held(k) \cup {0}
  BY DEF Collects, Held, Restored, Never, TypeInv

\* What came late stays in aborted operations.
LEMMA LateStep ==
  ASSUME Base, LateInv, FreshInv, [Next]_vars
  PROVE LateInv'
<1>1. IdleInv /\ TypeInv /\ now \in Nat /\ op \in Op
  BY DEF Base, TypeInv
<1>2. /\ late \subseteq 1..now /\ 0 \notin late
      /\ \A k \in Key : /\ Held(k) \subseteq 0..now /\ Held(k) \cap late = {}
                        /\ acked[k] \in 0..now /\ op.got[k] \in 0..now
                        /\ ~ op.aborted => op.got[k] \notin late
      /\ op.committing => ~ op.aborted
  BY <1>1 DEF LateInv, Held
<1>3. /\ Captured \subseteq 1..now
      /\ ~ op.committing => \A k \in Key : Held(k) \cap Captured = {}
  <2>1. ASSUME NEW x \in Captured
        PROVE x \in 1..now /\ (~ op.committing => \A k \in Key : x \notin Held(k))
    <3>1. PICK j \in Key : x = op.got[j] /\ x # 0
      BY <2>1 DEF Captured
    <3>2. x \in 1..now
      BY <1>1, <1>2, <3>1
    <3> QED
      BY <3>1, <3>2 DEF FreshInv, Held
  <2> QED
    BY <2>1
<1>4. CASE Collects
  <2>1. late' = late /\ acked' = acked /\ op'.aborted = op.aborted /\ op'.committing = op.committing
    BY <1>4 DEF Collects, Popping
  <2>2. now' \in Nat /\ now <= now'
    BY <1>1, <1>4 DEF Collects
  <2>3. \A k \in Key : op'.got[k] \in 0..now' /\ (~ op.aborted => op'.got[k] \notin late)
    BY <1>1, <1>2, <1>4 DEF Collects
  <2>4. \A k \in Key : {mem'[k], disk'[k], journal'[k]} \subseteq Held(k) \cup {0}
    BY <1>1, <1>4, CollectedHeld
  <2> QED
    BY <1>1, <1>2, <2>1, <2>2, <2>3, <2>4 DEF LateInv
<1>5. CASE Publishes
  <2>1. late' = late /\ acked' = acked /\ now' = now
        /\ op'.aborted = op.aborted /\ op'.committing = op.committing
        /\ op.committing /\ op'.got = op.got
    BY <1>5 DEF Publishes, Popping
  <2>2. \A k \in Key : {mem'[k], disk'[k], journal'[k]} \subseteq Held(k) \cup {op.got[k]}
    BY <1>1, <1>5, PublishedHeld
  <2> QED
    BY <1>1, <1>2, <2>1, <2>2 DEF LateInv
<1>6. CASE Plans
  BY <1>1, <1>6 DEF Plans, store, LateInv
<1>7. CASE Confirm
  <2>1. op.todo # <<>> /\ Keys \subseteq Key
    BY <1>1, <1>7, HeadType DEF Confirm, At
  <2>2. \A k \in Key : acked'[k] \in {acked[k], op.got[k]}
    BY <1>7 DEF Confirm
  <2>3. op' = NoOp /\ UNCHANGED <<now, mem, disk, journal, late>>
    BY <1>7 DEF Confirm, store
  <2> QED
    BY <1>1, <1>2, <2>2, <2>3, NoOpType DEF LateInv, Held, Never
<1>8. CASE Fails
  <2>1. op' = NoOp /\ UNCHANGED <<now, mem, disk, journal, acked>>
        /\ late' = IF op.committing THEN late ELSE late \cup Captured
    BY <1>8 DEF Fails, store
  <2>2. late' \subseteq 1..now /\ \A k \in Key : Held(k) \cap late' = {}
    BY <1>2, <1>3, <2>1
  <2> QED
    BY <1>1, <1>2, <2>1, <2>2, NoOpType DEF LateInv, Held, Never
<1>9. CASE Begins
  BY <1>1, <1>2, <1>9 DEF Begins, store, LateInv, Never, Held
<1>10. CASE Aborts
  <2>1. late' \subseteq 1..now /\ \A k \in Key : Held(k) \cap late' = {}
    <3>1. op'.aborted => ~ op.committing
      BY <1>2, <1>10 DEF Aborts
    <3> QED
      BY <1>2, <1>3, <1>10, <3>1 DEF Aborts
  <2>2. op'.got = op.got /\ op'.committing = op.committing
        /\ UNCHANGED <<now, mem, disk, journal, acked>>
        /\ (op'.committing => ~ op'.aborted) /\ (~ op'.aborted => ~ op.aborted /\ late' = late)
    BY <1>2, <1>10 DEF Aborts, store
  <2> QED
    BY <1>1, <1>2, <2>1, <2>2 DEF LateInv, Held
<1>11. CASE DropTab
  <2>1. op'.got = op.got /\ op'.aborted = op.aborted /\ op'.committing = op.committing
    BY <1>1, <1>11 DEF DropTab, Idle, Op
  <2> QED
    BY <1>11, <2>1 DEF DropTab, store, LateInv
<1>12. CASE Rests
  BY <1>12 DEF Rests, store, LateInv
<1>13. CASE Start
  <2>1. mem' = disk \/ mem' = Never
    BY <1>13 DEF Start, Restored
  <2>2. UNCHANGED <<now, disk, journal, op, acked, late>>
    BY <1>13 DEF Start
  <2> QED
    BY <1>1, <1>2, <2>1, <2>2 DEF LateInv, Held, Never
<1>14. CASE Gone /\ late' = late
  <2>1. mem' = Never /\ (journal' = Never \/ journal' = journal) /\ op' = NoOp
        /\ UNCHANGED <<now, disk, acked, late>>
    BY <1>14 DEF Gone
  <2> QED
    BY <1>1, <1>2, <2>1, NoOpType DEF LateInv, Held, Never
<1> QED
  BY <1>4, <1>5, <1>6, <1>7, <1>8, <1>9, <1>10, <1>11, <1>12, <1>13, <1>14, Moves

\* What is captured stays newer than what is held.
LEMMA FreshStep ==
  ASSUME Base, LateInv, FreshInv, [Next]_vars
  PROVE FreshInv'
<1>1. TypeInv /\ now \in Nat /\ op \in Op
  BY DEF Base, TypeInv
<1>2. \A k \in Key : /\ Held(k) \cup {acked[k]} \subseteq 0..now /\ op.got[k] \in 0..now
  BY DEF LateInv, Held
<1>3. \A k \in Key : op.got[k] > 0 =>
        /\ Held(k) \cup {acked[k]} \subseteq 0..op.got[k]
        /\ ~ op.committing => \A j \in Key : op.got[k] \notin Held(j)
  BY DEF FreshInv, Held
<1>4. ASSUME op'.got = Never PROVE FreshInv'
  BY <1>4 DEF FreshInv, Never
<1>5. CASE Collects
  <2>1. acked' = acked /\ op'.committing = op.committing
    BY <1>5 DEF Collects, Popping
  <2>2. \A k \in Key : {mem'[k], disk'[k], journal'[k]} \subseteq Held(k) \cup {0}
    BY <1>1, <1>5, CollectedHeld
  <2>3. \A k \in Key : op'.got[k] \in {op.got[k], now + 1}
    BY <1>5 DEF Collects
  <2>4. ASSUME NEW k \in Key, op'.got[k] > 0
        PROVE /\ {mem'[k], disk'[k], journal'[k], acked[k]} \subseteq 0..op'.got[k]
              /\ ~ op.committing =>
                   \A j \in Key : op'.got[k] \notin {mem'[j], disk'[j], journal'[j]}
    <3>1. CASE op'.got[k] = op.got[k]
      BY <1>2, <1>3, <2>2, <2>4, <3>1
    <3>2. CASE op'.got[k] = now + 1
      BY <1>1, <1>2, <2>2, <3>2
    <3> QED
      BY <2>3, <2>4, <3>1, <3>2
  <2> QED
    BY <2>1, <2>4 DEF FreshInv
<1>6. CASE Publishes
  <2>1. acked' = acked /\ op'.committing /\ op'.got = op.got
    BY <1>6 DEF Publishes, Popping
  <2>2. \A k \in Key : {mem'[k], disk'[k], journal'[k]} \subseteq Held(k) \cup {op.got[k]}
    BY <1>1, <1>6, PublishedHeld
  <2> QED
    BY <1>2, <1>3, <2>1, <2>2 DEF FreshInv
<1>7. CASE Plans
  BY <1>7 DEF Plans, store, FreshInv
<1>8. CASE Confirm \/ Fails \/ Begins \/ Gone
  BY <1>4, <1>8, NoOpType DEF Confirm, Fails, Begins, Gone
<1>9. CASE Aborts \/ Rests
  BY <1>9 DEF Aborts, Rests, store, FreshInv
<1>10. CASE DropTab
  <2>1. op'.got = op.got /\ op'.committing = op.committing
    BY <1>1, <1>10 DEF DropTab, Idle, Op
  <2> QED
    BY <1>10, <2>1 DEF DropTab, store, FreshInv
<1>11. CASE Start
  <2>1. op' = NoOp
    BY <1>11 DEF Start, Base, IdleInv
  <2> QED
    BY <1>4, <2>1, NoOpType
<1> QED
  BY <1>5, <1>6, <1>7, <1>8, <1>9, <1>10, <1>11, Moves

\* What was planned for the write under way.
LEMMA Planned ==
  ASSUME Base, Publishes
  PROVE /\ Head(op.todo).do \in {"outbox", "file"} => Head(op.todo).do = Durable
        /\ Head(op.todo).do \in {"memory", "file"} /\ ~ OwnJournal(TheKey) =>
             journal[TheKey] = op.got[TheKey]
        /\ Head(op.todo).do = "outbox" => remote
        /\ Head(op.todo).do = "file" => ~ remote /\ ~ OwnJournal(TheKey)
<1>1. /\ op.committing /\ op.todo \in Seq(PublishStep) /\ op.todo # <<>>
      /\ TheKey \in Key /\ Keys = {TheKey}
  BY DEF Publishes, Popping
<1>2. 1 \in 1..Len(op.todo) /\ op.todo[1] = Head(op.todo)
  BY <1>1, Popped
<1>3. TheKey \in op.todo[1].keys
  BY <1>1, <1>2 DEF Keys
<1>4. op.todo[1].do \in {"outbox", "file"} => op.todo[1].do = Durable
  BY <1>1, <1>2 DEF Base, PublishInv
<1>5. op.todo[1].do \in {"memory", "file"} /\ ~ OwnJournal(TheKey) =>
        journal[TheKey] = op.got[TheKey]
  <2>1. ~ \E m \in 1..(1 - 1) : Does(op.todo, m, {"journal"}, TheKey)
    OBVIOUS
  <2> QED
    BY <1>1, <1>2, <1>3, <2>1 DEF Base, PublishInv, Does
<1> QED
  BY <1>2, <1>4, <1>5 DEF Durable, OwnJournal

\* Nothing acknowledged is lost.
LEMMA AcknowledgedStep ==
  ASSUME Base, LateInv, FreshInv, WriteInv, AcknowledgedSurvives, [Next]_vars
  PROVE AcknowledgedSurvives'
<1>1. TypeInv /\ op \in Op /\ now \in Nat
  BY DEF Base, TypeInv
<1>2. \A k \in Key : /\ acked[k] \in Nat /\ mem[k] \in Nat /\ disk[k] \in Nat
                     /\ op.got[k] \in Nat
  BY <1>1 DEF TypeInv, Op
<1>3. CASE Collects
  <2>1. acked' = acked /\ disk' = disk /\ remote' = remote
    BY <1>3 DEF Collects, Popping, config
  <2>2. loaded' /\ ~ remote => mem' = IF loaded THEN mem ELSE disk
    BY <1>3 DEF Collects, Restored
  <2> QED
    BY <2>1, <2>2 DEF AcknowledgedSurvives
<1>4. CASE Publishes
  <2>1. /\ acked' = acked /\ loaded' = loaded /\ loaded /\ remote' = remote
        /\ TheKey \in Key /\ op.got[TheKey] > 0 /\ acked[TheKey] <= op.got[TheKey]
    BY <1>4 DEF Publishes, Popping, config, FreshInv
  <2>2. ASSUME NEW k \in Key PROVE acked[k] <= disk'[k]
    <3>1. CASE Head(op.todo).do = "file"
      <4>1. ~ remote /\ disk' = Saved(TheKey, op.got[TheKey])
        BY <1>4, <3>1, Planned DEF Publishes
      <4>2. acked[k] <= mem[k] /\ acked[k] <= disk[k]
        BY <2>1, <4>1 DEF AcknowledgedSurvives
      <4> QED
        BY <1>1, <2>1, <4>1, <4>2, SavedIs
    <3>2. CASE Head(op.todo).do = "outbox"
      BY <1>1, <1>4, <2>1, <3>2 DEF Publishes, AcknowledgedSurvives, TypeInv
    <3>3. CASE Head(op.todo).do \notin {"file", "outbox"}
      BY <1>4, <3>3 DEF Publishes, AcknowledgedSurvives
    <3> QED
      BY <3>1, <3>2, <3>3
  <2>3. ASSUME NEW k \in Key, ~ remote PROVE acked[k] <= mem'[k]
    <3>1. acked[k] <= mem[k]
      BY <2>1, <2>3 DEF AcknowledgedSurvives
    <3> QED
      BY <1>1, <1>4, <2>1, <3>1 DEF Publishes, TypeInv
  <2> QED
    BY <2>1, <2>2, <2>3 DEF AcknowledgedSurvives
<1>5. CASE Plans
  BY <1>5 DEF Plans, store, config, AcknowledgedSurvives
<1>6. CASE Confirm
  <2>1. /\ op.todo # <<>> /\ Head(op.todo).do = "confirm" /\ Accepted
        /\ UNCHANGED <<loaded, mem, disk, remote>>
        /\ acked' = [k \in Key |-> IF k \in Keys THEN op.got[k] ELSE acked[k]]
    BY <1>6 DEF Confirm, At, store, config
  <2>2. op.committing /\ op.todo \in Seq(PublishStep)
    BY <2>1, Phase
  <2>3. 1 \in 1..Len(op.todo) /\ op.todo[1] = Head(op.todo) /\ Len(op.todo) \in Nat
    BY <2>1, <2>2, Popped
  <2>4. Len(op.todo) = 1
    BY <2>1, <2>2, <2>3 DEF Base, PublishInv
  <2>5. ASSUME NEW k \in Key, k \in Keys PROVE mem[k] = op.got[k] /\ disk[k] = op.got[k]
    <3>1. op.got[k] > 0
      BY <2>2, <2>3, <2>5 DEF Base, PublishInv, Keys
    <3>2. mem[k] = op.got[k]
      BY <1>2, <2>1, <2>5, <3>1 DEF Accepted, FreshInv
    <3>3. ~ \E m \in 1..Len(op.todo) : Does(op.todo, m, {Durable}, k)
      BY <2>1, <2>3, <2>4 DEF Does, Durable
    <3> QED
      BY <3>1, <3>2, <3>3 DEF WriteInv
  <2>6. \A k \in Key : /\ acked'[k] <= disk[k] /\ (loaded /\ ~ remote => acked'[k] <= mem[k])
    BY <1>2, <2>1, <2>5 DEF AcknowledgedSurvives
  <2> QED
    BY <2>1, <2>6 DEF AcknowledgedSurvives
<1>7. CASE Fails \/ Begins \/ Aborts \/ DropTab \/ Rests
  <2>1. UNCHANGED <<acked, loaded, mem, disk, remote>>
    BY <1>7 DEF Fails, Begins, Aborts, DropTab, Rests, store, config
  <2> QED
    BY <2>1 DEF AcknowledgedSurvives
<1>8. CASE Start
  <2>1. UNCHANGED <<acked, disk, remote>> /\ (loaded' => mem' = Restored)
    BY <1>8 DEF Start, config
  <2> QED
    BY <2>1 DEF AcknowledgedSurvives, Restored
<1>9. CASE Gone
  BY <1>9 DEF Gone, config, AcknowledgedSurvives
<1> QED
  BY <1>3, <1>4, <1>5, <1>6, <1>7, <1>8, <1>9, Moves

\* The journals stay ahead of the state.
LEMMA JournalStep ==
  ASSUME Base, FreshInv, JournalBeforeState, [Next]_vars
  PROVE JournalBeforeState'
<1>1. TypeInv /\ op \in Op
  BY DEF Base, TypeInv
<1>2. \A k \in Key : OwnJournal(k) \/ (mem[k] <= journal[k] /\ (remote \/ disk[k] <= journal[k]))
  BY DEF JournalBeforeState, OwnJournal
<1>3. ASSUME config' = config,
             \A k \in Key : OwnJournal(k) \/ (mem'[k] <= journal'[k] /\ (remote \/ disk'[k] <= journal'[k]))
      PROVE JournalBeforeState'
  BY <1>3 DEF JournalBeforeState, OwnJournal, config
<1>4. \A k \in Key : mem[k] \in Nat /\ disk[k] \in Nat /\ journal[k] \in Nat /\ Never[k] = 0
  BY <1>1 DEF TypeInv, Never
<1>5. config' = config
  BY Moves DEF Collects, Publishes, Popping, Plans, Confirm, Fails, Begins, Aborts, DropTab, Rests, Start, Gone
<1>6. CASE Collects
  <2>1. UNCHANGED <<disk, journal>> /\ (mem' = mem \/ mem' = Restored)
    BY <1>6 DEF Collects
  <2> QED
    BY <1>2, <1>3, <1>4, <1>5, <2>1 DEF Restored
<1>7. CASE Publishes
  <2>1. TheKey \in Key /\ op.got[TheKey] > 0 /\ op.got[TheKey] \in Nat
        /\ mem[TheKey] <= op.got[TheKey] /\ disk[TheKey] <= op.got[TheKey]
    BY <1>7 DEF Publishes, FreshInv
  <2>2. ASSUME NEW k \in Key, ~ OwnJournal(k)
        PROVE mem'[k] <= journal'[k] /\ (remote \/ disk'[k] <= journal'[k])
    <3>1. CASE Head(op.todo).do = "file"
      <4>1. ~ remote /\ disk' = Saved(TheKey, op.got[TheKey]) /\ UNCHANGED <<mem, journal>>
            /\ journal[TheKey] = op.got[TheKey]
        BY <1>7, <3>1, Planned DEF Publishes
      <4>2. disk'[k] = journal[k] \/ disk'[k] \in {mem[k], disk[k]}
        BY <1>1, <2>1, <4>1, SavedIs
      <4> QED
        BY <1>2, <1>4, <2>2, <4>1, <4>2
    <3>2. CASE Head(op.todo).do = "outbox"
      BY <1>2, <1>7, <2>2, <3>2, Planned DEF Publishes
    <3>3. CASE Head(op.todo).do = "journal"
      BY <1>1, <1>2, <1>7, <2>1, <2>2, <3>3 DEF Publishes, TypeInv
    <3>4. CASE Head(op.todo).do = "memory"
      <4>1. k = TheKey => journal[k] = op.got[k]
        BY <1>7, <2>2, <3>4, Planned
      <4>2. mem' = [mem EXCEPT ![TheKey] = op.got[TheKey]] /\ UNCHANGED <<disk, journal>>
        BY <1>7, <3>4 DEF Publishes
      <4> QED
        BY <1>1, <1>2, <1>4, <2>1, <2>2, <4>1, <4>2 DEF TypeInv
    <3>5. CASE Head(op.todo).do = "ingest"
      BY <1>2, <1>7, <2>2, <3>5 DEF Publishes
    <3> QED
      BY <1>7, <3>1, <3>2, <3>3, <3>4, <3>5 DEF Publishes
  <2> QED
    BY <1>3, <1>5, <2>2
<1>8. CASE Plans \/ Confirm \/ Fails \/ Begins \/ Aborts \/ DropTab \/ Rests
  <2>1. UNCHANGED <<mem, disk, journal>>
    BY <1>8 DEF Plans, Confirm, Fails, Begins, Aborts, DropTab, Rests, store
  <2> QED
    BY <1>2, <1>3, <1>5, <2>1
<1>9. CASE Start
  <2>1. UNCHANGED <<disk, journal>> /\ (mem' = Never \/ mem' = Restored)
    BY <1>9 DEF Start
  <2> QED
    BY <1>2, <1>3, <1>4, <1>5, <2>1 DEF Restored
<1>10. CASE Gone
  <2>1. mem' = Never /\ disk' = disk /\ journal' = IF remote THEN Never ELSE journal
    BY <1>10 DEF Gone
  <2> QED
    BY <1>2, <1>3, <1>4, <1>5, <2>1
<1> QED
  BY <1>6, <1>7, <1>8, <1>9, <1>10, Moves

\* A step still to come is still to come after the first.
LEMMA StillToCome ==
  ASSUME NEW S, NEW s \in Seq(S), s # <<>>, NEW k, NEW dos,
         \E m \in 1..Len(s) : Does(s, m, dos, k),
         ~ Does(s, 1, dos, k)
  PROVE \E m \in 1..Len(Tail(s)) : Does(Tail(s), m, dos, k)
<1>1. PICK m \in 1..Len(s) : Does(s, m, dos, k)
  OBVIOUS
<1>2. m # 1
  BY <1>1
<1>3. m - 1 \in 1..Len(Tail(s)) /\ Tail(s)[m - 1] = s[m]
  BY <1>2, Popped
<1> QED
  BY <1>1, <1>3 DEF Does

\* What memory has stays durable or about to be.
LEMMA WriteStep ==
  ASSUME Base, FreshInv, WriteInv, FreshInv', [Next]_vars
  PROVE WriteInv'
<1>1. TypeInv /\ op \in Op
  BY DEF Base, TypeInv
<1>2. ASSUME ~ op'.committing PROVE WriteInv'
  <2>1. ASSUME NEW k \in Key, op'.got[k] > 0, mem'[k] = op'.got[k] PROVE FALSE
    <3>1. op'.got[k] \notin {mem'[k], disk'[k], journal'[k]}
      BY <1>2, <2>1 DEF FreshInv
    <3> QED
      BY <2>1, <3>1
  <2> QED
    BY <2>1 DEF WriteInv
<1>3. CASE Collects \/ Confirm \/ Fails \/ Begins \/ Gone
  BY <1>2, <1>3, NoOpType DEF Collects, Popping, Confirm, Fails, Begins, Gone
<1>4. CASE Start
  BY <1>2, <1>4, NoOpType DEF Start, Base, IdleInv
<1>5. CASE Aborts \/ Rests \/ DropTab
  <2>1. op'.got = op.got /\ op'.todo = op.todo /\ UNCHANGED <<mem, disk, remote>>
    BY <1>1, <1>5 DEF Aborts, Rests, DropTab, Idle, Op, store, config
  <2> QED
    BY <2>1 DEF WriteInv, Does, Durable
<1>6. CASE Publishes
  <2>1. /\ op'.got = op.got /\ op'.todo = Tail(op.todo) /\ op.todo # <<>>
        /\ op.todo \in Seq(PublishStep) /\ op.committing /\ remote' = remote
        /\ TheKey \in Key /\ Keys = {TheKey} /\ op.got[TheKey] > 0
    BY <1>6 DEF Publishes, Popping, config
  <2>2. 1 \in 1..Len(op.todo) /\ op.todo[1] = Head(op.todo)
    BY <2>1, Popped
  <2>3. ASSUME NEW k \in Key, \E m \in 1..Len(op.todo) : Does(op.todo, m, {Durable}, k),
               k # TheKey \/ Head(op.todo).do # Durable
        PROVE \E m \in 1..Len(op'.todo) : Does(op'.todo, m, {Durable}, k)
    <3>1. ~ Does(op.todo, 1, {Durable}, k)
      BY <2>1, <2>2, <2>3 DEF Does, Keys
    <3> QED
      BY <2>1, <2>3, <3>1, StillToCome
  <2>4. ASSUME NEW k \in Key, op.got[k] > 0, mem'[k] = op.got[k]
        PROVE \/ disk'[k] = op.got[k]
              \/ \E m \in 1..Len(op'.todo) : Does(op'.todo, m, {Durable}, k)
    <3>1. CASE k = TheKey /\ Head(op.todo).do \in {"file", "outbox"}
      BY <1>1, <1>6, <2>1, <3>1, SavedIs DEF Publishes, TypeInv
    <3>2. CASE k = TheKey /\ Head(op.todo).do = "memory"
      <4>1. Does(op.todo, 1, {"memory"}, k)
        BY <2>1, <2>2, <3>2 DEF Does, Keys
      <4>2. \/ disk[k] = op.got[k]
            \/ \E m \in 1..Len(op.todo) : Does(op.todo, m, {Durable}, k)
        <5>1. \/ (remote \/ 1 = 1) /\ disk[k] = op.got[k]
              \/ \E m \in 1..Len(op.todo) : /\ Does(op.todo, m, {Durable}, k)
                                           /\ (remote \/ m \in {1 - 1, 1 + 1})
          BY <2>1, <2>2, <4>1 DEF Base, PublishInv
        <5> QED
          BY <5>1
      <4>3. disk' = disk /\ Head(op.todo).do # Durable
        BY <1>6, <3>2 DEF Publishes, Durable
      <4> QED
        BY <2>3, <2>4, <4>2, <4>3
    <3>3. CASE k = TheKey /\ Head(op.todo).do \in {"ingest", "journal"}
      <4>1. mem' = mem /\ disk' = disk /\ Head(op.todo).do # Durable
        BY <1>6, <3>3 DEF Publishes, Durable
      <4> QED
        BY <2>3, <2>4, <4>1 DEF WriteInv
    <3>4. CASE k # TheKey
      <4>1. mem'[k] = mem[k] /\ disk'[k] \in {mem[k], disk[k]}
        <5>1. CASE Head(op.todo).do = "file"
          BY <1>1, <1>6, <2>1, <3>4, <5>1, SavedIs DEF Publishes
        <5>2. CASE Head(op.todo).do # "file"
          BY <1>1, <1>6, <2>1, <3>4, <5>2 DEF Publishes, TypeInv
        <5> QED
          BY <5>1, <5>2
      <4>2. \/ disk[k] = op.got[k]
            \/ \E m \in 1..Len(op.todo) : Does(op.todo, m, {Durable}, k)
        BY <2>4, <4>1 DEF WriteInv
      <4> QED
        BY <2>3, <2>4, <3>4, <4>1, <4>2
    <3> QED
      BY <1>6, <3>1, <3>2, <3>3, <3>4 DEF Publishes
  <2> QED
    BY <2>1, <2>4 DEF WriteInv, Durable
<1>7. CASE Commit /\ Plans
  <2>1. op'.got = op.got /\ UNCHANGED <<mem, disk>> /\ ~ op.committing
    <3>1. op.todo # <<>> /\ Head(op.todo).do = "commit"
      BY <1>7 DEF Commit, MayCommit, At
    <3> QED
      BY <1>7, <3>1, Phase DEF Plans, store
  <2>2. \A k \in Key : op.got[k] > 0 => mem[k] # op.got[k]
    BY <2>1 DEF FreshInv
  <2> QED
    BY <2>1, <2>2 DEF WriteInv
<1>8. CASE Ingest /\ ~ Ignored(TheKey, op.got[TheKey]) /\ Plans
  <2> DEFINE w == IngestSteps(TheKey)
             t == Tail(op.todo)
  <2>1. /\ op'.got = op.got /\ op'.todo = w \o t /\ UNCHANGED <<mem, disk, remote>>
        /\ w \in Seq(PublishStep)
    BY <1>1, <1>8, Ingested DEF Plans, Stores, store, config
  <2>2. op.todo # <<>> /\ Head(op.todo).do = "ingest"
    BY <1>8 DEF Ingest, At
  <2>3. op.todo \in Seq(PublishStep)
    BY <2>2, Phase
  <2>4. t \in Seq(PublishStep) /\ op.todo[1] = Head(op.todo)
    BY <2>2, <2>3, Popped
  <2>5. ASSUME NEW k \in Key, \E m \in 1..Len(op.todo) : Does(op.todo, m, {Durable}, k)
        PROVE \E m \in 1..Len(op'.todo) : Does(op'.todo, m, {Durable}, k)
    <3>1. ~ Does(op.todo, 1, {Durable}, k)
      BY <2>2, <2>4 DEF Does, Durable
    <3>2. PICK m \in 1..Len(t) : Does(t, m, {Durable}, k)
      BY <2>2, <2>3, <2>5, <3>1, StillToCome
    <3> HIDE DEF w, t
    <3>3. Len(w) + m \in 1..Len(op'.todo) /\ op'.todo[Len(w) + m] = t[m]
      BY <2>1, <2>4, Joined
    <3> QED
      BY <3>2, <3>3 DEF Does
  <2> QED
    BY <2>1, <2>5 DEF WriteInv, Durable
<1> QED
  BY <1>3, <1>4, <1>5, <1>6, <1>7, <1>8, Moves

\* Captures keep their tab.
LEMMA OpenStep ==
  ASSUME Base, OpenInv, [Next]_vars
  PROVE OpenInv'
<1>1. TypeInv /\ op \in Op
  BY DEF Base, TypeInv
<1>2. provider' = provider /\ Opening' = Opening
  BY Moves DEF Collects, Publishes, Popping, Plans, Confirm, Fails, Begins, Aborts, DropTab, Rests,
     Start, Gone, config, Opening
<1>3. ASSUME op'.todo \in Seq(PublishStep) PROVE OpenInv'
  <2>1. \A n \in 1..Len(op'.todo) : op'.todo[n] \in PublishStep
    BY <1>3, ElementOfSeq
  <2>2. \A x \in PublishStep : x.do # "capture"
    BY DEF PublishStep
  <2> QED
    BY <2>1, <2>2 DEF OpenInv
<1>4. CASE Collects
  <2>1. /\ op'.todo = Tail(op.todo) /\ op.todo # <<>> /\ op.todo \in Seq(RequestStep)
        /\ op'.dropped = op.dropped /\ (handle' = handle \/ handle' = "current")
        /\ Head(op.todo).do \in Opening => handle' = "current"
    BY <1>4 DEF Collects, Popping
  <2>2. ASSUME provider \in Chrome, handle' # "current", ~ op.dropped,
               NEW n \in 1..Len(Tail(op.todo)), Tail(op.todo)[n].do = "capture"
        PROVE \E m \in 1..(n - 1) : Tail(op.todo)[m].do \in Opening
    <3>1. n + 1 \in 1..Len(op.todo) /\ op.todo[n + 1].do = "capture" /\ op.todo[1] = Head(op.todo)
      BY <2>1, <2>2, Popped
    <3>2. PICK m \in 1..((n + 1) - 1) : op.todo[m].do \in Opening
      BY <2>1, <2>2, <3>1 DEF OpenInv
    <3>3. m # 1
      BY <2>1, <2>2, <3>1, <3>2
    <3>4. m \in 1..Len(op.todo) /\ m - 1 \in 1..(n - 1)
      BY <3>1, <3>2, <3>3
    <3>5. Tail(op.todo)[m - 1] = op.todo[m]
      BY <2>1, <3>3, <3>4, Popped
    <3> QED
      BY <3>2, <3>4, <3>5
  <2> QED
    BY <1>2, <2>1, <2>2 DEF OpenInv
<1>5. CASE Publishes
  <2>1. op'.todo \in Seq(PublishStep)
    BY <1>5, Popped DEF Publishes, Popping
  <2> QED
    BY <1>3, <2>1
<1>6. CASE Plans
  BY <1>3, <1>6 DEF Plans
<1>7. CASE Confirm \/ Fails \/ Gone \/ Start
  <2>1. op'.todo = <<>>
    BY <1>7, NoOpType DEF Confirm, Fails, Gone, Start, Base, IdleInv
  <2> QED
    BY <1>3, <2>1, EmptySeq
<1>8. CASE Begins
  BY <1>2, <1>8 DEF Begins, Shape, OpenInv
<1>9. CASE Aborts
  BY <1>2, <1>9 DEF Aborts, OpenInv, transport
<1>10. CASE DropTab
  <2>1. CASE op.kind = "none"
    <3>1. op'.todo = <<>>
      BY <1>10, <2>1, NoOpType DEF DropTab, Idle, Base, IdleInv
    <3> QED
      BY <1>3, <3>1, EmptySeq
  <2>2. CASE op.kind # "none"
    <3>1. op'.dropped
      BY <1>1, <1>10, <2>2 DEF DropTab, Idle, Op
    <3> QED
      BY <3>1 DEF OpenInv
  <2> QED
    BY <2>1, <2>2
<1>11. CASE Rests
  <2>1. CASE UNCHANGED transport
    BY <1>2, <1>11, <2>1 DEF Rests, transport, OpenInv
  <2>2. CASE op.kind = "none"
    <3>1. op'.todo = <<>>
      BY <1>11, <2>2, NoOpType DEF Rests, Base, IdleInv
    <3> QED
      BY <1>3, <3>1, EmptySeq
  <2> QED
    BY <1>11, <2>1, <2>2 DEF Rests
<1> QED
  BY <1>4, <1>5, <1>6, <1>7, <1>8, <1>9, <1>10, <1>11, Moves

\* The steps still to come of a request keep their order.
LEMMA RequestInvStep ==
  ASSUME Base, [Next]_vars
  PROVE RequestInv'
<1>1. TypeInv /\ op \in Op /\ now \in Nat /\ RequestInv
  BY DEF Base, TypeInv
<1>2. ASSUME op'.kind = "none" \/ op'.committing PROVE RequestInv'
  BY <1>2 DEF RequestInv
<1>3. CASE Collects
  <2>1. /\ op'.todo = Tail(op.todo) /\ op.todo # <<>> /\ op.todo \in Seq(RequestStep)
        /\ op.kind # "none" /\ ~ op.committing
    BY <1>3 DEF Collects, Popping
  <2>2. /\ loaded \/ Head(op.todo).do = "refresh"
        /\ \A n \in 1..Len(op.todo) : op.todo[n].do = "commit" => n = Len(op.todo)
        /\ \A n \in 1..Len(op.todo), k \in Key :
             Does(op.todo, n, {"push", "remember"}, k) =>
               op.got[k] > 0 \/ \E m \in 1..(n - 1) : Does(op.todo, m, {"capture"}, k)
        /\ \A i \in 1..Len(op.rounds) : op.got[op.rounds[i]] > 0
    BY <1>1, <2>1 DEF RequestInv
  <2>3. /\ op.todo[1] = Head(op.todo) /\ 1 \in 1..Len(op.todo) /\ Len(op.todo) \in Nat
        /\ Tail(op.todo) \in Seq(RequestStep) /\ Len(Tail(op.todo)) = Len(op.todo) - 1
        /\ \A i \in 1..Len(Tail(op.todo)) : i + 1 \in 1..Len(op.todo) /\ Tail(op.todo)[i] = op.todo[i + 1]
    BY <2>1, Popped
  <2>4. \A k \in Key : /\ op.got[k] > 0 => op'.got[k] > 0
                       /\ Does(op.todo, 1, {"capture"}, k) => op'.got[k] > 0
    BY <1>1, <1>3, <2>3 DEF Collects, Does, Keys
  <2>5. loaded'
    BY <1>3, <2>2 DEF Collects
  <2>6. ASSUME NEW n \in 1..Len(Tail(op.todo)), Tail(op.todo)[n].do = "commit"
        PROVE n = Len(Tail(op.todo))
    BY <2>2, <2>3, <2>6
  <2>7. ASSUME NEW n \in 1..Len(Tail(op.todo)), NEW k \in Key,
               Does(Tail(op.todo), n, {"push", "remember"}, k), ~ (op'.got[k] > 0)
        PROVE \E m \in 1..(n - 1) : Does(Tail(op.todo), m, {"capture"}, k)
    <3>1. n + 1 \in 1..Len(op.todo) /\ Does(op.todo, n + 1, {"push", "remember"}, k)
      BY <2>3, <2>7 DEF Does
    <3>2. PICK m \in 1..((n + 1) - 1) : Does(op.todo, m, {"capture"}, k)
      BY <2>2, <2>4, <2>7, <3>1
    <3>3. m # 1
      BY <2>4, <2>7, <3>2
    <3>4. m - 1 \in 1..(n - 1) /\ m - 1 \in 1..Len(Tail(op.todo)) /\ (m - 1) + 1 = m
      BY <2>3, <3>1, <3>2, <3>3
    <3>5. Tail(op.todo)[m - 1] = op.todo[m]
      BY <2>3, <3>4
    <3> QED
      BY <3>2, <3>4, <3>5 DEF Does
  <2>8. ASSUME NEW i \in 1..Len(op'.rounds) PROVE op'.got[op'.rounds[i]] > 0
    <3>1. op.rounds \in Seq(Key) /\ \A j \in 1..Len(op.rounds) : op.rounds[j] \in Key
      BY <1>1, ElementOfSeq DEF Op
    <3>2. CASE op'.rounds = op.rounds
      BY <2>2, <2>4, <2>8, <3>1, <3>2
    <3>3. CASE /\ Head(op.todo).do = "push" /\ TheKey \in Key /\ TheKey \in Keys
               /\ op'.rounds = Append(op.rounds, TheKey)
      <4>1. op.got[TheKey] > 0
        <5>1. Does(op.todo, 1, {"push", "remember"}, TheKey)
          BY <2>3, <3>3 DEF Does, Keys
        <5>2. ~ \E m \in 1..(1 - 1) : Does(op.todo, m, {"capture"}, TheKey)
          OBVIOUS
        <5> QED
          BY <2>2, <2>3, <3>3, <5>1, <5>2
      <4>2. i \in 1..Len(op.rounds) \/ op'.rounds[i] = TheKey
        BY <2>8, <3>1, <3>3, AppendProperties
      <4>3. i \in 1..Len(op.rounds) => op'.rounds[i] = op.rounds[i]
        BY <3>1, <3>3, AppendProperties
      <4> QED
        BY <2>2, <2>4, <3>1, <3>3, <4>1, <4>2, <4>3
    <3> QED
      BY <1>3, <3>2, <3>3 DEF Collects
  <2> QED
    BY <2>1, <2>3, <2>5, <2>6, <2>7, <2>8 DEF RequestInv
<1>4. CASE Publishes \/ Plans
  BY <1>2, <1>4 DEF Publishes, Popping, Plans
<1>5. CASE Confirm \/ Fails \/ Gone \/ Start
  BY <1>2, <1>5, NoOpType DEF Confirm, Fails, Gone, Start, Base, IdleInv
<1>6. CASE Begins
  BY <1>6, EmptySeq DEF Begins, Shape, Sourced, RequestInv
<1>7. CASE Aborts \/ Rests \/ DropTab
  <2>1. /\ op'.got = op.got /\ op'.todo = op.todo /\ op'.kind = op.kind
        /\ op'.rounds = op.rounds /\ op'.committing = op.committing /\ loaded' = loaded
    BY <1>1, <1>7 DEF Aborts, Rests, DropTab, Idle, Op, store
  <2> QED
    BY <1>1, <2>1 DEF RequestInv, Does
<1> QED
  BY <1>3, <1>4, <1>5, <1>6, <1>7, Moves

\* A detail, or an empty program, remembers nothing.
LEMMA NothingToRemember ==
  ASSUME Base, op.todo # <<>>,
         Head(op.todo).do \in {"commit", "ingest", "outbox", "journal", "file", "memory", "confirm"}
  PROVE \A n \in 1..Len(op.todo) : op.todo[n].do # "remember"
<1>1. CASE Head(op.todo).do = "commit"
  <2>1. op.kind # "none" /\ ~ op.committing /\ op.todo \in Seq(RequestStep)
    BY <1>1, Phase
  <2>2. 1 \in 1..Len(op.todo) /\ op.todo[1] = Head(op.todo) /\ Len(op.todo) \in Nat
    BY <2>1, Popped
  <2>3. Len(op.todo) = 1
    BY <1>1, <2>1, <2>2 DEF Base, RequestInv
  <2> QED
    BY <1>1, <2>2, <2>3
<1>2. CASE Head(op.todo).do # "commit"
  <2>1. op.todo \in Seq(PublishStep)
    BY <1>2, Phase
  <2>2. \A n \in 1..Len(op.todo) : op.todo[n] \in PublishStep
    BY <2>1, ElementOfSeq
  <2>3. \A x \in PublishStep : x.do # "remember"
    BY DEF PublishStep
  <2> QED
    BY <2>2, <2>3
<1> QED
  BY <1>1, <1>2

\* Contexts are held as long as they are counted on.
LEMMA ContextStep ==
  ASSUME Base, ContextInv, [Next]_vars
  PROVE ContextInv'
<1>1. TypeInv /\ op \in Op /\ RequestInv
  BY DEF Base, TypeInv
<1>2. config' = config
  BY Moves DEF Collects, Publishes, Popping, Plans, Confirm, Fails, Begins, Aborts, DropTab, Rests,
     Start, Gone
<1>3. CASE provider \notin KeepsContext
  BY <1>2, <1>3 DEF ContextInv, config, KeepsContext, Chrome
<1>4. CASE provider \in KeepsContext
  <2> USE <1>4
  <2>1. /\ up /\ ready /\ ~ stopping => \A e \in Esport : ctx[e] > 0
        /\ op.kind = "list" =>
             /\ mode = "agent" => op.es = Esports
             /\ \A e \in ToSet(op.es) :
                  ctx[e] > 0 \/ \E n \in 1..Len(op.todo) : Does(op.todo, n, {"remember"}, e)
    BY DEF ContextInv, ReadyMeansContext, KeepsContext
  <2>2. ASSUME up' /\ ready' /\ ~ stopping' => \A e \in Esport : ctx'[e] > 0,
               op'.kind = "list" =>
                 /\ mode = "agent" => op'.es = Esports
                 /\ \A e \in ToSet(op'.es) :
                      ctx'[e] > 0 \/ \E n \in 1..Len(op'.todo) : Does(op'.todo, n, {"remember"}, e)
        PROVE ContextInv'
    BY <1>2, <2>2 DEF ContextInv, ReadyMeansContext, config, Does, ToSet
  <2>3. ASSUME op.todo # <<>>,
               Head(op.todo).do \in {"commit", "ingest", "outbox", "journal", "file", "memory", "confirm"},
               op.kind = "list"
        PROVE \A e \in ToSet(op.es) : ctx[e] > 0
    BY <2>1, <2>3, NothingToRemember DEF Does
  <2>4. op.kind = "list" => \A e \in ToSet(op.es) : e \in Esport /\ e \in Key
    <3>1. op.es \in Seq(Esport)
      BY <1>1 DEF Op
    <3>2. \A i \in 1..Len(op.es) : op.es[i] \in Esport
      BY <3>1, ElementOfSeq
    <3> QED
      BY <3>2 DEF ToSet, Key
  <2>5. CASE Collects
    <3>1. /\ op'.todo = Tail(op.todo) /\ op.todo # <<>> /\ op.todo \in Seq(RequestStep)
          /\ op.kind # "none" /\ ~ op.committing /\ op'.kind = op.kind /\ op'.es = op.es
          /\ UNCHANGED <<up, ready, stopping>>
      BY <2>5 DEF Collects, Popping
    <3>2. 1 \in 1..Len(op.todo) /\ op.todo[1] = Head(op.todo)
      BY <3>1, Popped
    <3>3. ASSUME NEW e \in Esport
          PROVE /\ ctx[e] > 0 => ctx'[e] > 0
                /\ Does(op.todo, 1, {"remember"}, e) => ctx'[e] > 0
      <4>1. CASE ctx' = ctx /\ Head(op.todo).do # "remember"
        BY <3>2, <4>1 DEF Does
      <4>2. CASE /\ Head(op.todo).do = "remember"
                 /\ ctx' = [d \in Esport |-> IF d \in Keys THEN op.got[d] ELSE ctx[d]]
        <5>1. e \in Keys => op.got[e] > 0
          <6>1. e \in Keys => Does(op.todo, 1, {"push", "remember"}, e) /\ e \in Key
            BY <3>2, <4>2 DEF Does, Keys, Key
          <6>2. ~ \E m \in 1..(1 - 1) : Does(op.todo, m, {"capture"}, e)
            OBVIOUS
          <6> QED
            BY <1>1, <3>1, <3>2, <6>1, <6>2 DEF RequestInv
        <5> QED
          BY <3>2, <4>2, <5>1 DEF Does, Keys
      <4> QED
        BY <2>5, <4>1, <4>2 DEF Collects
    <3>4. ASSUME op.kind = "list", NEW e \in ToSet(op.es), ~ (ctx'[e] > 0)
          PROVE \E n \in 1..Len(op'.todo) : Does(op'.todo, n, {"remember"}, e)
      <4>1. e \in Esport
        BY <2>4, <3>4
      <4>2. \E n \in 1..Len(op.todo) : Does(op.todo, n, {"remember"}, e)
        BY <2>1, <3>3, <3>4, <4>1
      <4>3. ~ Does(op.todo, 1, {"remember"}, e)
        BY <3>3, <3>4, <4>1
      <4> QED
        BY <3>1, <4>2, <4>3, StillToCome
    <3>5. up' /\ ready' /\ ~ stopping' => \A e \in Esport : ctx'[e] > 0
      BY <2>1, <3>1, <3>3
    <3> QED
      BY <2>1, <2>2, <3>1, <3>4, <3>5
  <2>6. CASE Publishes
    <3>1. /\ op.todo # <<>> /\ op'.kind = op.kind /\ op'.es = op.es
          /\ Head(op.todo).do \in {"commit", "ingest", "outbox", "journal", "file", "memory", "confirm"}
          /\ UNCHANGED <<up, ready, stopping, ctx>>
      BY <2>6 DEF Publishes, Popping
    <3> QED
      BY <2>1, <2>2, <2>3, <3>1
  <2>7. CASE (Commit \/ Ingest) /\ Plans
    <3>1. /\ op.todo # <<>> /\ op'.kind = op.kind /\ op'.es = op.es
          /\ Head(op.todo).do \in {"commit", "ingest", "outbox", "journal", "file", "memory", "confirm"}
          /\ UNCHANGED <<up, ready, stopping, ctx>>
      BY <2>7 DEF Plans, Commit, MayCommit, Ingest, At, transport
    <3> QED
      BY <2>1, <2>2, <2>3, <3>1
  <2>8. CASE Confirm
    <3>1. /\ op.todo # <<>> /\ Head(op.todo).do = "confirm" /\ up /\ op' = NoOp
          /\ UNCHANGED <<stopping, ctx>>
          /\ ready' = (mode = "agent" /\ (ready \/ op.kind = "list"))
      BY <2>8 DEF Confirm, At, transport
    <3>2. mode = "agent" /\ op.kind = "list" => \A e \in Esport : ctx[e] > 0
      BY <2>1, <2>3, <3>1, CollectionAssumption
    <3> QED
      BY <2>1, <2>2, <3>1, <3>2, NoOpType
  <2>9. CASE Fails
    BY <2>1, <2>2, <2>9, NoOpType DEF Fails, transport
  <2>10. CASE Begins
    <3>1. UNCHANGED <<up, ready, stopping, ctx, mode>>
      BY <2>10 DEF Begins, transport, config
    <3>2. op'.kind = "list" => (mode = "agent" => op'.es = Esports) /\ Remembers(op'.todo, op'.es)
      BY <2>10 DEF Begins, Shape
    <3> QED
      BY <2>1, <2>2, <3>1, <3>2 DEF Remembers
  <2>11. CASE Aborts
    BY <2>1, <2>2, <2>11 DEF Aborts, transport
  <2>12. CASE DropTab
    <3>1. /\ op'.kind = op.kind /\ op'.es = op.es /\ op'.todo = op.todo
          /\ UNCHANGED <<up, ready, stopping, ctx>>
      BY <1>1, <2>12 DEF DropTab, Idle, Op
    <3> QED
      BY <2>1, <2>2, <3>1
  <2>13. CASE Rests
    BY <2>1, <2>2, <2>13 DEF Rests, transport
  <2>14. CASE Start
    BY <2>2, <2>14, NoOpType DEF Start, Base, IdleInv
  <2>15. CASE Gone
    BY <2>2, <2>15, NoOpType DEF Gone
  <2> QED
    BY <2>5, <2>6, <2>7, <2>8, <2>9, <2>10, <2>11, <2>12, <2>13, <2>14, <2>15, Moves
<1> QED
  BY <1>3, <1>4

\* What PublishInv asks of the step n of s.
Ordered(s, n) ==
  \A k \in Key :
    /\ Does(s, n, {"memory", "file"}, k) /\ ~ OwnJournal(k) =>
         \/ journal[k] = op.got[k]
         \/ \E m \in 1..(n - 1) : Does(s, m, {"journal"}, k)
    /\ Does(s, n, {"memory"}, k) =>
         \/ (remote \/ n = 1) /\ disk[k] = op.got[k]
         \/ \E m \in 1..Len(s) : /\ Does(s, m, {Durable}, k)
                                 /\ (remote \/ m \in {n - 1, n + 1})

Publishable(s, n) ==
  /\ \A k \in s[n].keys : op.got[k] > 0
  /\ s[n].do = "confirm" => n = Len(s)
  /\ s[n].do \in {"outbox", "file"} => s[n].do = Durable

\* PublishInv, one step at a time.
LEMMA PublishInvIs ==
  PublishInv <=> (op.committing => /\ op.todo \in Seq(PublishStep) /\ loaded
                                   /\ \A n \in 1..Len(op.todo) :
                                        Publishable(op.todo, n) /\ Ordered(op.todo, n))
  BY DEF PublishInv, Publishable, Ordered

\* A write leaves the rest of the publication in order.
LEMMA PublishInvWrites ==
  ASSUME Base, Publishes
  PROVE PublishInv'
<1>1. /\ op'.got = op.got /\ op'.todo = Tail(op.todo) /\ op.todo # <<>> /\ op'.committing
      /\ op.todo \in Seq(PublishStep) /\ op.committing /\ loaded' /\ TypeInv
      /\ TheKey \in Key /\ Keys = {TheKey} /\ op.got[TheKey] > 0
      /\ UNCHANGED <<provider, remote>>
  BY DEF Publishes, Popping, Base, config
<1>2. \A n \in 1..Len(op.todo) : Publishable(op.todo, n) /\ Ordered(op.todo, n)
  BY <1>1, PublishInvIs DEF Base
<1> DEFINE s == op.todo
           t == Tail(op.todo)
<1>3. /\ s[1] = Head(s) /\ 1 \in 1..Len(s) /\ Len(s) \in Nat
      /\ t \in Seq(PublishStep) /\ Len(t) = Len(s) - 1
      /\ \A i \in 1..Len(t) : i + 1 \in 1..Len(s) /\ t[i] = s[i + 1]
      /\ \A i \in 1..Len(s) : i = 1 \/ (i - 1 \in 1..Len(t) /\ t[i - 1] = s[i])
  BY <1>1, Popped
<1>4. s[1].do = Head(op.todo).do /\ s[1].keys = {TheKey}
  BY <1>1, <1>3 DEF Keys
<1> HIDE DEF s, t
<1>5. ASSUME NEW n \in 1..Len(t)
      PROVE /\ \A k \in t[n].keys : op.got[k] > 0
            /\ t[n].do = "confirm" => n = Len(t)
            /\ t[n].do \in {"outbox", "file"} => t[n].do = Durable
  <2>1. n + 1 \in 1..Len(s) /\ t[n] = s[n + 1]
    BY <1>3
  <2>2. Publishable(s, n + 1)
    BY <1>2, <2>1 DEF s
  <2> QED
    BY <1>3, <2>1, <2>2 DEF Publishable
<1>6. ASSUME NEW n \in 1..Len(t), NEW k \in Key, Does(t, n, {"memory", "file"}, k), ~ OwnJournal(k)
      PROVE \/ journal'[k] = op.got[k]
            \/ \E m \in 1..(n - 1) : Does(t, m, {"journal"}, k)
  <2>1. n + 1 \in 1..Len(s) /\ Does(s, n + 1, {"memory", "file"}, k)
    BY <1>3, <1>6 DEF Does
  <2>2. \/ journal[k] = op.got[k]
        \/ \E m \in 1..((n + 1) - 1) : Does(s, m, {"journal"}, k)
    BY <1>2, <1>6, <2>1 DEF Ordered, s
  <2>3. CASE journal[k] = op.got[k]
    BY <1>1, <2>3 DEF Publishes, TypeInv
  <2>4. CASE \E m \in 1..((n + 1) - 1) : Does(s, m, {"journal"}, k)
    <3>1. PICK m \in 1..((n + 1) - 1) : Does(s, m, {"journal"}, k)
      BY <2>4
    <3>2. CASE m = 1
      <4>1. k = TheKey /\ Head(op.todo).do = "journal"
        BY <1>4, <3>1, <3>2 DEF Does
      <4> QED
        BY <1>1, <4>1 DEF Publishes, TypeInv
    <3>3. CASE m # 1
      <4>1. m \in 1..Len(s) /\ m - 1 \in 1..(n - 1)
        BY <1>3, <2>1, <3>1, <3>3
      <4>2. t[m - 1] = s[m]
        BY <1>3, <3>3, <4>1
      <4> QED
        BY <3>1, <4>1, <4>2 DEF Does
    <3> QED
      BY <3>2, <3>3
  <2> QED
    BY <2>2, <2>3, <2>4
<1>7. ASSUME NEW n \in 1..Len(t), NEW k \in Key, Does(t, n, {"memory"}, k)
      PROVE \/ (remote \/ n = 1) /\ disk'[k] = op.got[k]
            \/ \E m \in 1..Len(t) : /\ Does(t, m, {Durable}, k)
                                    /\ (remote \/ m \in {n - 1, n + 1})
  <2>1. n + 1 \in 1..Len(s) /\ Does(s, n + 1, {"memory"}, k)
    BY <1>3, <1>7 DEF Does
  <2>2. \/ (remote \/ n + 1 = 1) /\ disk[k] = op.got[k]
        \/ \E m \in 1..Len(s) : /\ Does(s, m, {Durable}, k)
                                /\ (remote \/ m \in {(n + 1) - 1, (n + 1) + 1})
    BY <1>2, <1>7, <2>1 DEF Ordered, s
  <2>3. CASE remote /\ disk[k] = op.got[k]
    <3>1. Head(op.todo).do # "file"
      BY <2>3, Planned
    <3> QED
      BY <1>1, <2>3, <3>1 DEF Publishes, TypeInv
  <2>4. CASE \E m \in 1..Len(s) : /\ Does(s, m, {Durable}, k)
                                 /\ (remote \/ m \in {(n + 1) - 1, (n + 1) + 1})
    <3>1. PICK m \in 1..Len(s) : /\ Does(s, m, {Durable}, k)
                                 /\ (remote \/ m \in {(n + 1) - 1, (n + 1) + 1})
      BY <2>4
    <3>2. CASE m = 1
      <4>1. k = TheKey /\ Head(op.todo).do = Durable
        BY <1>4, <3>1, <3>2 DEF Does
      <4>2. Head(op.todo).do \in {"outbox", "file"}
        BY <4>1 DEF Durable
      <4>3. disk'[k] = op.got[k]
        <5>1. \/ disk' = [disk EXCEPT ![k] = op.got[k]]
              \/ disk' = Saved(k, op.got[k])
          BY <4>1, <4>2 DEF Publishes
        <5>2. k \in Key /\ disk \in [Key -> Nat]
          BY <1>1, <4>1 DEF TypeInv
        <5>3. Saved(k, op.got[k])[k] = op.got[k]
          BY <1>1, <5>2, SavedIs
        <5> QED
          BY <5>1, <5>2, <5>3
      <4>4. remote \/ n = 1
        BY <3>1, <3>2
      <4> QED
        BY <4>3, <4>4
    <3>3. CASE m # 1
      <4>1. m - 1 \in 1..Len(t) /\ t[m - 1] = s[m]
        BY <1>3, <3>3
      <4>2. remote \/ m - 1 \in {n - 1, n + 1}
        BY <1>3, <3>1
      <4> QED
        BY <3>1, <4>1, <4>2 DEF Does
    <3> QED
      BY <3>2, <3>3
  <2>5. n + 1 # 1
    OBVIOUS
  <2> QED
    BY <2>2, <2>3, <2>4, <2>5, Zenon
<1>8. op'.todo = t
  BY <1>1 DEF t
<1>9. PICK v : v = t
  OBVIOUS
<1>10. \A n \in 1..Len(v) : Publishable(v, n)'
  BY <1>1, <1>5, <1>9 DEF Publishable, Durable
<1>11. \A n \in 1..Len(v) : Ordered(v, n)'
  BY <1>1, <1>6, <1>7, <1>9 DEF Ordered, Durable, OwnJournal, Does
<1> QED
  BY <1>1, <1>3, <1>8, <1>9, <1>10, <1>11 DEF PublishInv, Publishable, Ordered

\* So does an ingest, which puts its writes where it was.
LEMMA PublishInvIngests ==
  ASSUME Base, Ingest, ~ Ignored(TheKey, op.got[TheKey]), Plans
  PROVE PublishInv'
<1>1. /\ op.todo # <<>> /\ Head(op.todo).do = "ingest" /\ TypeInv /\ op \in Op
  BY DEF Ingest, At, Base, TypeInv
<1>2. op.committing /\ loaded /\ op.todo \in Seq(PublishStep)
  BY <1>1, Phase
<1>3. \A n \in 1..Len(op.todo) : Publishable(op.todo, n) /\ Ordered(op.todo, n)
  BY <1>2, PublishInvIs DEF Base
<1> DEFINE s == op.todo
           t == Tail(op.todo)
           w == IngestSteps(TheKey)
           u == op'.todo
<1>4. /\ s[1] = Head(s) /\ 1 \in 1..Len(s) /\ Len(s) \in Nat
      /\ t \in Seq(PublishStep) /\ Len(t) = Len(s) - 1
      /\ \A i \in 1..Len(t) : i + 1 \in 1..Len(s) /\ t[i] = s[i + 1]
      /\ \A i \in 1..Len(s) : i = 1 \/ (i - 1 \in 1..Len(t) /\ t[i - 1] = s[i])
  BY <1>1, <1>2, Popped
<1>5. TheKey \in Key /\ Keys = {TheKey} /\ op.got[TheKey] > 0
  <2>1. TheKey \in Key /\ Keys = {TheKey}
    BY <1>1, HeadType
  <2>2. Publishable(s, 1)
    BY <1>3, <1>4
  <2> QED
    BY <1>4, <2>1, <2>2 DEF Publishable, Keys
<1>6. Stores(w, TheKey) /\ u = w \o t
  BY <1>1, Ingested
<1>7. /\ UNCHANGED <<provider, remote, journal, disk, loaded>> /\ op'.got = op.got
      /\ op'.committing /\ u \in Seq(PublishStep)
  BY DEF Plans, config, store
<1> HIDE DEF s, t, w, u
<1>8. /\ Len(u) = Len(w) + Len(t) /\ Len(w) \in Nat /\ Len(t) \in Nat
      /\ \A i \in 1..Len(w) : u[i] = w[i]
      /\ \A i \in 1..Len(t) : u[Len(w) + i] = t[i]
  <2>1. w \in Seq(PublishStep)
    BY <1>6 DEF Stores
  <2>2. t \in Seq(PublishStep)
    BY <1>4
  <2>3. /\ Len(w \o t) = Len(w) + Len(t) /\ Len(w) \in Nat /\ Len(t) \in Nat
        /\ \A i \in 1..Len(w) : (w \o t)[i] = w[i]
        /\ \A i \in 1..Len(t) : (w \o t)[Len(w) + i] = t[i]
    BY <2>1, <2>2, Joined
  <2> QED
    BY <1>6, <2>3
<1>9. ASSUME NEW n \in 1..Len(w)
      PROVE Publishable(u, n) /\ Ordered(u, n)
  <2>1. /\ u[n] = w[n] /\ w[n].keys = {TheKey} /\ w[n].do \notin {"ingest", "confirm"}
        /\ w[n].do \in {"outbox", "file"} => w[n].do = Durable
        /\ w[n].do \in {"memory", "file"} /\ ~ OwnJournal(TheKey) =>
             \E m \in 1..(n - 1) : w[m].do = "journal"
        /\ w[n].do = "memory" =>
             \E m \in 1..Len(w) : w[m].do = Durable /\ (remote \/ m \in {n - 1, n + 1})
    BY <1>6, <1>8 DEF Stores
  <2>2. \A m \in 1..Len(w) : m \in 1..Len(u) /\ u[m] = w[m] /\ u[m].keys = {TheKey}
    BY <1>6, <1>8 DEF Stores
  <2>3. Publishable(u, n)
    BY <1>5, <2>1 DEF Publishable
  <2>4. ASSUME NEW k \in Key, Does(u, n, {"memory", "file"}, k), ~ OwnJournal(k)
        PROVE \E m \in 1..(n - 1) : Does(u, m, {"journal"}, k)
    <3>1. k = TheKey
      BY <2>1, <2>4 DEF Does
    <3>2. PICK m \in 1..(n - 1) : w[m].do = "journal"
      BY <2>1, <2>4, <3>1 DEF Does
    <3>3. m \in 1..Len(w)
      BY <1>8, <3>2
    <3> QED
      BY <2>2, <3>1, <3>2, <3>3 DEF Does
  <2>5. ASSUME NEW k \in Key, Does(u, n, {"memory"}, k)
        PROVE \E m \in 1..Len(u) : /\ Does(u, m, {Durable}, k)
                                   /\ (remote \/ m \in {n - 1, n + 1})
    <3>1. k = TheKey /\ w[n].do = "memory"
      BY <2>1, <2>5 DEF Does
    <3>2. PICK m \in 1..Len(w) : w[m].do = Durable /\ (remote \/ m \in {n - 1, n + 1})
      BY <2>1, <3>1
    <3> QED
      BY <2>2, <3>1, <3>2 DEF Does
  <2>6. Ordered(u, n)
    BY <2>4, <2>5 DEF Ordered
  <2> QED
    BY <2>3, <2>6
<1>10. ASSUME NEW n \in 1..Len(t)
       PROVE Publishable(u, Len(w) + n) /\ Ordered(u, Len(w) + n)
  <2>1. n + 1 \in 1..Len(s) /\ u[Len(w) + n] = s[n + 1]
    BY <1>4, <1>8
  <2>2. Publishable(s, n + 1) /\ Ordered(s, n + 1)
    BY <1>3, <2>1 DEF s
  <2>3. Publishable(u, Len(w) + n)
    BY <1>4, <1>8, <2>1, <2>2 DEF Publishable
  <2>4. \A m \in 1..Len(s) : \A dos, k :
          Does(s, m, dos, k) /\ "ingest" \notin dos =>
            /\ m # 1 /\ Len(w) + (m - 1) \in 1..Len(u)
            /\ Does(u, Len(w) + (m - 1), dos, k)
    <3>1. ASSUME NEW m \in 1..Len(s), NEW dos, NEW k, Does(s, m, dos, k), "ingest" \notin dos
          PROVE /\ m # 1 /\ Len(w) + (m - 1) \in 1..Len(u)
                /\ Does(u, Len(w) + (m - 1), dos, k)
      <4>1. m # 1
        BY <1>1, <1>4, <3>1 DEF Does, s
      <4>2. m - 1 \in 1..Len(t) /\ t[m - 1] = s[m]
        BY <1>4, <4>1
      <4>3. Len(w) + (m - 1) \in 1..Len(u) /\ u[Len(w) + (m - 1)] = s[m]
        BY <1>8, <4>2
      <4> QED
        BY <3>1, <4>1, <4>3 DEF Does
    <3> QED
      BY <3>1
  <2>5. ASSUME NEW k \in Key, Does(u, Len(w) + n, {"memory", "file"}, k), ~ OwnJournal(k),
               journal[k] # op.got[k]
        PROVE \E m \in 1..((Len(w) + n) - 1) : Does(u, m, {"journal"}, k)
    <3>1. Does(s, n + 1, {"memory", "file"}, k)
      BY <2>1, <2>5 DEF Does
    <3>2. PICK m \in 1..((n + 1) - 1) : Does(s, m, {"journal"}, k)
      BY <2>2, <2>5, <3>1 DEF Ordered
    <3>3. m \in 1..Len(s)
      BY <1>4, <2>1, <3>2
    <3>4. m # 1 /\ Does(u, Len(w) + (m - 1), {"journal"}, k)
      BY <2>4, <3>2, <3>3
    <3>5. Len(w) + (m - 1) \in 1..((Len(w) + n) - 1)
      BY <1>8, <3>2, <3>4
    <3> QED
      BY <3>4, <3>5
  <2>6. ASSUME NEW k \in Key, Does(u, Len(w) + n, {"memory"}, k)
        PROVE \/ (remote \/ Len(w) + n = 1) /\ disk[k] = op.got[k]
              \/ \E m \in 1..Len(u) : /\ Does(u, m, {Durable}, k)
                                      /\ (remote \/ m \in {(Len(w) + n) - 1, (Len(w) + n) + 1})
    <3>1. Does(s, n + 1, {"memory"}, k)
      BY <2>1, <2>6 DEF Does
    <3>2. \/ (remote \/ n + 1 = 1) /\ disk[k] = op.got[k]
          \/ \E m \in 1..Len(s) : /\ Does(s, m, {Durable}, k)
                                  /\ (remote \/ m \in {(n + 1) - 1, (n + 1) + 1})
      BY <2>2, <3>1 DEF Ordered
    <3>3. ASSUME NEW m \in 1..Len(s), Does(s, m, {Durable}, k),
                 remote \/ m \in {(n + 1) - 1, (n + 1) + 1}
          PROVE \E l \in 1..Len(u) : /\ Does(u, l, {Durable}, k)
                                     /\ (remote \/ l \in {(Len(w) + n) - 1, (Len(w) + n) + 1})
      <4>1. "ingest" \notin {Durable}
        BY DEF Durable
      <4>2. Len(w) + (m - 1) \in 1..Len(u) /\ Does(u, Len(w) + (m - 1), {Durable}, k)
        BY <2>4, <3>3, <4>1, Zenon
      <4> DEFINE l == Len(w) + (m - 1)
      <4>3. remote \/ l \in {(Len(w) + n) - 1, (Len(w) + n) + 1}
        <5>1. \A a \in Nat, b \in Int : b \in {(n + 1) - 1, (n + 1) + 1} =>
                a + (b - 1) \in {(a + n) - 1, (a + n) + 1}
          OBVIOUS
        <5>2. Len(w) \in Nat /\ m \in Int
          BY <1>8
        <5> QED
          BY <3>3, <5>1, <5>2, Zenon
      <4>4. l \in 1..Len(u) /\ Does(u, l, {Durable}, k)
        BY <4>2
      <4> HIDE DEF l
      <4> QED
        BY <4>3, <4>4
    <3>4. n + 1 # 1
      OBVIOUS
    <3>5. remote /\ disk[k] = op.got[k] => (remote \/ Len(w) + n = 1) /\ disk[k] = op.got[k]
      OBVIOUS
    <3> QED
      BY <3>2, <3>3, <3>4, <3>5, Zenon
  <2>7. Ordered(u, Len(w) + n)
    BY <2>5, <2>6 DEF Ordered
  <2> QED
    BY <2>3, <2>7
<1>11. \A n \in 1..Len(u) : Publishable(u, n) /\ Ordered(u, n)
  <2>1. ASSUME NEW n \in 1..Len(u), n \notin 1..Len(w) PROVE Publishable(u, n) /\ Ordered(u, n)
    <3>1. n - Len(w) \in 1..Len(t) /\ Len(w) + (n - Len(w)) = n
      BY <1>8, <2>1
    <3> QED
      BY <1>10, <3>1
  <2> QED
    BY <1>9, <2>1
<1>12. PICK v : v = u
  OBVIOUS
<1>13. \A n \in 1..Len(v) : Publishable(v, n)'
  BY <1>7, <1>11, <1>12 DEF Publishable, Durable
<1>14. \A n \in 1..Len(v) : Ordered(v, n)'
  BY <1>7, <1>11, <1>12 DEF Ordered, Durable, OwnJournal, Does
<1>15. op'.todo = v
  BY <1>12 DEF u
<1> QED
  BY <1>2, <1>7, <1>12, <1>13, <1>14, <1>15 DEF PublishInv, Publishable, Ordered

\* A commit plans a publication in order.
LEMMA PublishInvCommits ==
  ASSUME Base, Commit, Plans
  PROVE PublishInv'
<1>1. /\ op'.todo \in Seq(PublishStep) /\ op'.committing /\ op'.got = op.got /\ loaded'
      /\ \A n \in 1..Len(op'.todo) :
           /\ op'.todo[n].do = "ingest" \/ (op'.todo[n].do = "confirm" /\ n = Len(op'.todo))
           /\ op'.todo[n].keys \subseteq ToSet(op.rounds)
  BY Committed DEF Base, Plans, store
<1>2. \A k \in ToSet(op.rounds) : op.got[k] > 0
  <2>1. op.todo # <<>> /\ Head(op.todo).do = "commit"
    BY DEF Commit, MayCommit, At
  <2>2. op.kind # "none" /\ ~ op.committing
    BY <2>1, Phase
  <2>3. \A i \in 1..Len(op.rounds) : op.got[op.rounds[i]] > 0
    BY <2>2 DEF Base, RequestInv
  <2>4. \A k \in ToSet(op.rounds) : \E i \in DOMAIN op.rounds : k = op.rounds[i]
    BY DEF ToSet
  <2>5. DOMAIN op.rounds = 1..Len(op.rounds)
    <3>1. op.rounds \in Seq(Key)
      BY <2>1, Phase DEF Op
    <3> QED
      BY <3>1
  <2> QED
    BY <2>3, <2>4, <2>5
<1> QED
  BY <1>1, <1>2 DEF PublishInv, Does

\* Publications stay in order.
LEMMA PublishInvStep ==
  ASSUME Base, [Next]_vars
  PROVE PublishInv'
<1>1. TypeInv /\ op \in Op /\ PublishInv
  BY DEF Base, TypeInv
<1>2. ASSUME ~ op'.committing PROVE PublishInv'
  BY <1>2 DEF PublishInv
<1>3. CASE Collects \/ Confirm \/ Fails \/ Begins \/ Gone \/ Start
  BY <1>2, <1>3, NoOpType DEF Collects, Popping, Confirm, Fails, Begins, Gone, Start, Base, IdleInv
<1>4. CASE Aborts \/ Rests \/ DropTab
  <2>1. /\ op'.got = op.got /\ op'.todo = op.todo /\ op'.committing = op.committing
        /\ UNCHANGED <<loaded, journal, disk, remote, provider>>
    BY <1>1, <1>4 DEF Aborts, Rests, DropTab, Idle, Op, store, config
  <2> QED
    BY <1>1, <2>1 DEF PublishInv, Does, Durable, OwnJournal
<1> QED
  BY <1>3, <1>4, Moves, PublishInvWrites, PublishInvIngests, PublishInvCommits

-----------------------------------------------------------------------------
(* The theorems.                                                           *)

\* The parts together, with the two properties the publishing steps are about.
Inv ==
  /\ TypeInv /\ IdleInv /\ RequestInv /\ PublishInv
  /\ LateInv /\ FreshInv /\ WriteInv /\ ContextInv /\ OpenInv
  /\ AcknowledgedSurvives /\ JournalBeforeState

\* The invariant holds, for every provider and driver, when nothing has run yet.
LEMMA InvInit == Init => Inv
<1> SUFFICES ASSUME Init PROVE Inv
  OBVIOUS
<1>1. op = NoOp /\ op.got = Never /\ op.kind = "none" /\ ~ op.committing /\ op.todo = <<>>
      /\ ~ op.aborted /\ \A k \in Key : Never[k] = 0
  BY NoOpType DEF Init, Never
<1>2. TypeInv
  <2>1. Len(Batches) \in Nat \ {0}
    <3>1. Esports \in Seq(Esport) /\ Len(Esports) \in Nat \ {0}
      BY CollectionAssumption, LenProperties, EmptySeq
    <3>2. Len(<<Esports>>) = 1 /\ Len([i \in 1..Len(Esports) |-> <<Esports[i]>>]) = Len(Esports)
      BY <3>1
    <3> QED
      BY <3>1, <3>2 DEF Batches
  <2>2. NoCycle \in Cycle
    BY <2>1, EmptySeq DEF NoCycle, Cycle
  <2> QED
    BY <2>2, NoOpType DEF Init, TypeInv
<1>3. IdleInv /\ RequestInv /\ PublishInv
  BY <1>1 DEF Init, IdleInv, RequestInv, PublishInv
<1>4. LateInv /\ FreshInv /\ WriteInv
  BY <1>1 DEF Init, LateInv, FreshInv, WriteInv
<1>5. ContextInv /\ OpenInv
  BY <1>1, EmptySeq DEF Init, ContextInv, ReadyMeansContext, OpenInv
<1>6. AcknowledgedSurvives /\ JournalBeforeState
  BY <1>1 DEF Init, AcknowledgedSurvives, JournalBeforeState
<1> QED
  BY <1>2, <1>3, <1>4, <1>5, <1>6 DEF Inv

\* Every step keeps the invariant.
LEMMA InvStep == Inv /\ [Next]_vars => Inv'
<1> SUFFICES ASSUME Inv, [Next]_vars PROVE Inv'
  OBVIOUS
<1>1. Base
  BY DEF Inv, Base
<1>2. TypeInv' /\ IdleInv' /\ RequestInv' /\ PublishInv'
  BY <1>1, TypeStep, IdleStep, RequestInvStep, PublishInvStep DEF Inv
<1>3. LateInv' /\ FreshInv'
  BY <1>1, LateStep, FreshStep DEF Inv
<1>4. WriteInv' /\ ContextInv' /\ OpenInv'
  BY <1>1, <1>3, WriteStep, ContextStep, OpenStep DEF Inv
<1>5. AcknowledgedSurvives' /\ JournalBeforeState'
  BY <1>1, AcknowledgedStep, JournalStep DEF Inv
<1> QED
  BY <1>2, <1>3, <1>4, <1>5 DEF Inv

\* The invariant the five properties follow from.
THEOREM Invariant == Spec => []Inv
BY InvInit, InvStep, PTL DEF Spec

\* What a collection answered as published is in the state file or the outbox,
\* and in the maps of a store that was restored.
THEOREM AcknowledgedIsKept == Spec => []AcknowledgedSurvives
<1>1. Inv => AcknowledgedSurvives
  BY DEF Inv
<1> QED
  BY <1>1, Invariant, PTL

\* "Late/partial results never reach a store" (scheduled-operation.ts:10),
\* whichever signal, error or crash ended the operation.
THEOREM LateIsNeverStored == Spec => []LateNeverStored
<1>1. Inv => LateNeverStored
  BY DEF Inv, LateInv, LateNeverStored
<1> QED
  BY <1>1, Invariant, PTL

\* No store keeps, and no crash leaves, a state its journal does not have.
THEOREM JournalIsFirst == Spec => []JournalBeforeState
<1>1. Inv => JournalBeforeState
  BY DEF Inv
<1> QED
  BY <1>1, Invariant, PTL

\* The scheduler's contextReady is about a context the collector still holds.
THEOREM ReadyHasContext == Spec => []ReadyMeansContext
<1>1. Inv => ReadyMeansContext
  <2>1. CASE provider \in KeepsContext
    BY <2>1 DEF Inv, ContextInv
  <2>2. CASE provider \notin KeepsContext
    BY <2>2 DEF ReadyMeansContext, KeepsContext
  <2> QED
    BY <2>1, <2>2
<1> QED
  BY <1>1, Invariant, PTL

\* No capture is taken from a tab that was lost before its operation began.
THEOREM LostTabIsReplaced == Spec => []LostTabIsNotUsed
<1>1. Inv => LostTabIsNotUsed
  <2> SUFFICES ASSUME Inv, At("capture"), provider \in Chrome, handle # "current", ~ op.dropped
               PROVE FALSE
    BY DEF LostTabIsNotUsed, Inv, TypeInv, Op
  <2>1. op.todo # <<>> /\ Head(op.todo).do = "capture" /\ op \in Op
    BY DEF At, Inv, TypeInv
  <2>2. 1 \in 1..Len(op.todo) /\ op.todo[1].do = "capture"
    BY <2>1, Popped DEF Op
  <2>3. PICK m \in 1..(1 - 1) : op.todo[m].do \in Opening
    BY <2>2 DEF Inv, OpenInv
  <2> QED
    BY <2>3
<1> QED
  BY <1>1, Invariant, PTL
=============================================================================
