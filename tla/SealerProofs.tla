---------------------------- MODULE SealerProofs ----------------------------
(***************************************************************************)
(* Proofs about Sealer, for every value of its constants: the write path   *)
(* implements DurableLog, publishes only what is on stable storage, tells  *)
(* the truth, and commits a key again only once its window outgrew it.     *)
(***************************************************************************)
EXTENDS Sealer, ExtremeElements, SequenceTheorems

(***************************************************************************)
(* The inductive invariant.                                                *)
(***************************************************************************)

Shapes ==
    /\ file \in Seq(Seq(Keys))
    /\ synced \in 0 .. Len(file)
    /\ visible \in 0 .. Len(file)
    /\ queue \in Seq(Clients)
    /\ fresh \in Seq(Clients)
    /\ deferred \in SUBSET Clients
    /\ DOMAIN client = Clients

\* Whoever is in the queue or in the batch waits, for a key, in one place.
Waits ==
    /\ \A c \in Clients : IsWaiting(c) => client[c].key \in Keys
    /\ \A i \in 1 .. Len(queue) : IsWaiting(queue[i]) /\ queue[i] \notin BatchClients
    /\ \A i, j \in 1 .. Len(queue) : queue[i] = queue[j] => i = j
    /\ \A c \in BatchClients : IsWaiting(c)

\* From the write of a batch to its answer, its record is the last one.
Recorded == pc \in {"append_sync", "appended", "sync", "publish", "answer"}
BatchRecorded == Recorded => file # <<>> /\ file[Len(file)] = KeysOf(fresh)

\* The sync comes before the publication, from append or from the sealer.
SyncedInTime ==
    \/ pc \in {"publish", "answer"}
    \/ pc = "appended" /\ policy = Always
    => synced = Len(file)

\* Every key acknowledged is in a record that no power loss can take.
AcksKept == \A a \in acks : \E e \in 1 .. synced : \E key \in Range(file[e]) :
                a = <<key, e>>

IInv == Shapes /\ Waits /\ BatchRecorded /\ SyncedInTime /\ AcksKept

(***************************************************************************)
(* Helpers.                                                                *)
(***************************************************************************)

LEMMA MinOfTwo ==
    ASSUME NEW a \in Int, NEW b \in Int
    PROVE  Min({a, b}) \in {a, b} /\ Min({a, b}) <= a /\ Min({a, b}) <= b
<1> \E x \in {a, b} : \A y \in {a, b} : x =< y
  OBVIOUS
<1> QED
  BY DEF Min

LEMMA MaxOfTwo ==
    ASSUME NEW a \in Int, NEW b \in Int
    PROVE  Max({a, b}) \in {a, b} /\ (a <= b => Max({a, b}) = b)
<1> \E x \in {a, b} : \A y \in {a, b} : x >= y
  OBVIOUS
<1> QED
  BY DEF Max

\* A prefix of a sequence, element by element.
LEMMA PrefixFacts ==
    ASSUME NEW S, NEW s \in Seq(S), NEW n \in 0 .. Len(s)
    PROVE  /\ SubSeq(s, 1, n) \in Seq(S)
           /\ Len(SubSeq(s, 1, n)) = n
           /\ \A i \in 1 .. n : SubSeq(s, 1, n)[i] = s[i]
<1>1. \A i \in 1 .. n : s[i] \in S
  OBVIOUS
<1>2. n \in Int /\ 1 \in Int /\ n >= 0
  OBVIOUS
<1> QED
  BY <1>1, <1>2, SubSeqProperties

\* A history that agrees with an older one as far as that one went extends it.
LEMMA IsPrefixFacts ==
    ASSUME NEW S, NEW s \in Seq(S), NEW t \in Seq(S),
           NEW m \in 0 .. Len(s), NEW n \in 0 .. Len(t), m <= n,
           \A i \in 1 .. m : s[i] = t[i]
    PROVE  IsPrefix(SubSeq(s, 1, m), SubSeq(t, 1, n))
<1> DEFINE u == SubSeq(s, 1, m)
           v == SubSeq(t, 1, n)
<1>1. u \in Seq(S) /\ Len(u) = m /\ \A i \in 1 .. m : u[i] = s[i]
  BY PrefixFacts
<1>2. v \in Seq(S) /\ Len(v) = n /\ \A i \in 1 .. n : v[i] = t[i]
  BY PrefixFacts
<1> HIDE DEF u, v
<1>3. m \in 0 .. Len(u) /\ m \in 0 .. Len(v)
  BY <1>1, <1>2
<1>4. SubSeq(u, 1, m) \in Seq(S) /\ Len(SubSeq(u, 1, m)) = m
      /\ \A i \in 1 .. m : SubSeq(u, 1, m)[i] = u[i]
  BY <1>1, <1>3, PrefixFacts
<1>5. SubSeq(v, 1, m) \in Seq(S) /\ Len(SubSeq(v, 1, m)) = m
      /\ \A i \in 1 .. m : SubSeq(v, 1, m)[i] = v[i]
  BY <1>2, <1>3, PrefixFacts
<1>6. SubSeq(u, 1, m) = SubSeq(v, 1, m)
  BY <1>1, <1>2, <1>4, <1>5, SeqEqual
<1>7. IsPrefix(u, v)
  BY <1>1, <1>2, <1>6 DEF IsPrefix
<1> QED
  BY <1>7 DEF u, v

\* A batch taken in queue order: its members come from the positions chosen.
LEMMA InOrderFacts ==
    ASSUME queue \in Seq(Clients), NEW at \in SUBSET (1 .. Len(queue)),
           NEW b \in InOrder(at)
    PROVE  /\ b \in Seq(Clients)
           /\ \E f \in [1 .. Len(b) -> at] :
                 /\ \A i \in 1 .. Len(b) : b[i] = queue[f[i]]
                 /\ \A i, j \in 1 .. Len(b) : i < j => f[i] < f[j]
                 /\ \A p \in at : \E i \in 1 .. Len(b) : f[i] = p
<1>1. Cardinality(at) \in Nat /\ IsFiniteSet(at)
  <2>1. Len(queue) \in Int
    OBVIOUS
  <2>2. IsFiniteSet(1 .. Len(queue))
    BY <2>1, FS_Interval
  <2>3. IsFiniteSet(at)
    BY <2>2, FS_Subset
  <2> QED
    BY <2>3, FS_CardinalityType
<1>2. PICK f \in [1 .. Cardinality(at) -> at] :
        /\ \A i, j \in DOMAIN f : i < j => f[i] < f[j]
        /\ b = [i \in DOMAIN f |-> queue[f[i]]]
  BY DEF InOrder
<1>3. b = [i \in 1 .. Cardinality(at) |-> queue[f[i]]]
  BY <1>2
<1>4. \A i \in 1 .. Cardinality(at) : f[i] \in 1 .. Len(queue) /\ queue[f[i]] \in Clients
  <2>1. \A p \in 1 .. Len(queue) : queue[p] \in Clients
    OBVIOUS
  <2>2. \A i \in 1 .. Cardinality(at) : f[i] \in at
    OBVIOUS
  <2> QED
    BY <2>1, <2>2
<1>5. b \in Seq(Clients) /\ Len(b) = Cardinality(at)
  BY <1>1, <1>3, <1>4
<1>6. \A p \in at : \E i \in 1 .. Cardinality(at) : f[i] = p
  <2>1. \A i, j \in 1 .. Cardinality(at) : f[i] = f[j] => i = j
    <3> TAKE i, j \in 1 .. Cardinality(at)
    <3>1. f[i] \in 1 .. Len(queue) /\ f[j] \in 1 .. Len(queue)
      BY <1>4
    <3>2. i \in Int /\ j \in Int /\ (i = j \/ i < j \/ j < i)
      BY <1>1
    <3> QED
      BY <1>2, <3>1, <3>2
  <2>2. f \in Injection(1 .. Cardinality(at), at)
    BY <2>1 DEF Injection, IsInjective
  <2>3. Cardinality(1 .. Cardinality(at)) = Cardinality(at)
    BY <1>1, FS_Interval
  <2>4. f \in Surjection(1 .. Cardinality(at), at)
    BY <1>1, <2>2, <2>3, FS_Injection
  <2> QED
    BY <2>4 DEF Surjection
<1> QED
  BY <1>2, <1>3, <1>5, <1>6

\* What Drain does to the first n of the queue, member by member, when the keys
\* at the positions new are not in the window.
DrainedAs(n, new) ==
    /\ \A i \in new : i <= n /\ seen[client[queue[i]].key] = Absent
    /\ queue' = SubSeq(queue, n + 1, Len(queue))
    /\ DOMAIN client' = Clients
    /\ \A c \in Clients :
          \/ client'[c] = client[c]
          \/ (\E i \in (1 .. n) \ new : c = queue[i]) /\ client'[c].st # "waiting"
    /\ fresh' \in Seq(Clients)
    /\ \E f \in [1 .. Len(fresh') -> FirstCopies(new)] :
          /\ \A i \in 1 .. Len(fresh') : fresh'[i] = queue[f[i]]
          /\ \A i, j \in 1 .. Len(fresh') : i < j => f[i] < f[j]
          /\ \A p \in FirstCopies(new) : \E i \in 1 .. Len(fresh') : f[i] = p
    /\ deferred' = {queue[i] : i \in new \ FirstCopies(new)}

\* What the others of the first n are told, and where the sealer goes.
AnsweredAs(n, new) ==
    /\ \A i \in (1 .. n) \ new :
          /\ seen[client[queue[i]].key] # Absent
          /\ client'[queue[i]].st = "duplicate"
          /\ client'[queue[i]].epoch = seen[client[queue[i]].key]
    /\ pc' = IF new = {} THEN "idle" ELSE "write"

LEMMA DrainFacts ==
    ASSUME Shapes, Drain, SealerAssumption
    PROVE  \E n \in 1 .. Len(queue), new \in SUBSET (1 .. Len(queue)) :
              DrainedAs(n, new) /\ AnsweredAs(n, new)
<1> DEFINE n == Min({Len(queue), MaxBatch})
           new == {i \in 1 .. n : seen[client[queue[i]].key] = Absent}
<1>1. n \in 1 .. Len(queue)
  <2>1. Len(queue) \in Nat /\ Len(queue) > 0
    BY DEF Shapes, Drain
  <2> QED
    BY <2>1, MinOfTwo DEF SealerAssumption
<1>2. new \in SUBSET (1 .. Len(queue)) /\ FirstCopies(new) \in SUBSET new
  BY <1>1 DEF FirstCopies
<1>3. /\ queue' = SubSeq(queue, n + 1, Len(queue))
      /\ client' = [c \in Clients |->
                     IF c \in {queue[i] : i \in (1 .. n) \ new}
                     THEN Reply("duplicate", c, SeenEpoch(client[c].key))
                     ELSE client[c]]
      /\ fresh' \in InOrder(FirstCopies(new))
      /\ deferred' = {queue[i] : i \in new \ FirstCopies(new)}
      /\ pc' = IF new = {} THEN "idle" ELSE "write"
  BY DEF Drain
<1>4. \A c \in Clients :
         \/ client'[c] = client[c]
         \/ /\ \E i \in (1 .. n) \ new : c = queue[i]
            /\ client'[c].st # "waiting"
  BY <1>3 DEF Reply
<1>5. /\ fresh' \in Seq(Clients)
      /\ \E f \in [1 .. Len(fresh') -> FirstCopies(new)] :
            /\ \A i \in 1 .. Len(fresh') : fresh'[i] = queue[f[i]]
            /\ \A i, j \in 1 .. Len(fresh') : i < j => f[i] < f[j]
            /\ \A p \in FirstCopies(new) : \E i \in 1 .. Len(fresh') : f[i] = p
  <2>1. queue \in Seq(Clients) /\ FirstCopies(new) \in SUBSET (1 .. Len(queue))
        /\ fresh' \in InOrder(FirstCopies(new))
    BY <1>2, <1>3 DEF Shapes
  <2> HIDE DEF n, new
  <2> QED
    BY <2>1, InOrderFacts, Zenon
<1>6. DOMAIN client' = Clients
  BY <1>3
<1>7. \A i \in new : i <= n /\ seen[client[queue[i]].key] = Absent
  BY <1>1
<1>8. \A i \in (1 .. n) \ new :
         /\ seen[client[queue[i]].key] # Absent
         /\ client'[queue[i]].st = "duplicate"
         /\ client'[queue[i]].epoch = seen[client[queue[i]].key]
  <2> TAKE i \in (1 .. n) \ new
  <2>1. queue[i] \in Clients /\ queue[i] \in {queue[j] : j \in (1 .. n) \ new}
    <3>1. Len(queue) \in Nat /\ \A j \in 1 .. Len(queue) : queue[j] \in Clients
      BY DEF Shapes
    <3> HIDE DEF n, new
    <3>2. i \in 1 .. Len(queue)
      BY <1>1, <3>1
    <3> QED
      BY <3>1, <3>2
  <2>2. client'[queue[i]] = Reply("duplicate", queue[i], SeenEpoch(client[queue[i]].key))
    BY <1>3, <2>1
  <2> QED
    BY <2>2 DEF Reply, SeenEpoch
<1> HIDE DEF n, new
<1> QED
  BY <1>1, <1>2, <1>3, <1>4, <1>5, <1>6, <1>7, <1>8 DEF DrainedAs, AnsweredAs

\* The record of a batch is a sequence of keys, one for each of its members.
LEMMA KeysOfFacts ==
    ASSUME Shapes, Waits
    PROVE  /\ KeysOf(fresh) \in Seq(Keys)
           /\ Len(KeysOf(fresh)) = Len(fresh)
           /\ \A i \in 1 .. Len(fresh) : KeysOf(fresh)[i] = client[fresh[i]].key
<1>1. KeysOf(fresh) = [i \in 1 .. Len(fresh) |-> client[fresh[i]].key]
  BY DEF Shapes, KeysOf
<1>2. \A i \in 1 .. Len(fresh) : fresh[i] \in Clients /\ fresh[i] \in BatchClients
  BY DEF Shapes, BatchClients, Range
<1>3. \A i \in 1 .. Len(fresh) : client[fresh[i]].key \in Keys
  BY <1>2 DEF Waits
<1>4. Len(fresh) \in Nat
  BY DEF Shapes
<1> QED
  BY <1>1, <1>3, <1>4

(***************************************************************************)
(* Each part of the invariant is kept by every step.                       *)
(***************************************************************************)

USE DEF chosen, segment, frontier, index, batch, counters

LEMMA ShapesStep ==
    ASSUME Shapes, Waits, [Next]_vars, SealerAssumption
    PROVE  Shapes'
<1>1. ASSUME NEW c \in Clients, NEW key \in Keys, Submit(c, key)
      PROVE  Shapes'
  <2>1. queue' \in {queue, Append(queue, c)} /\ Append(queue, c) \in Seq(Clients)
    BY <1>1 DEF Submit, Shapes
  <2>2. DOMAIN client' = Clients
    BY <1>1 DEF Submit, Shapes
  <2> QED
    BY <1>1, <2>1, <2>2 DEF Submit, Shapes
<1>2. CASE Drain
  <2>1. \A n \in 1 .. Len(queue) : SubSeq(queue, n + 1, Len(queue)) \in Seq(Clients)
    BY DEF Shapes
  <2>0. PICK n \in 1 .. Len(queue), new \in SUBSET (1 .. Len(queue)) : DrainedAs(n, new)
    BY <1>2, DrainFacts
  <2>2. queue' \in Seq(Clients) /\ fresh' \in Seq(Clients) /\ DOMAIN client' = Clients
    BY <2>0, <2>1 DEF DrainedAs
  <2>3. deferred' \in SUBSET Clients
    <3>1. deferred' = {queue[i] : i \in new \ FirstCopies(new)} /\ new \in SUBSET (1 .. Len(queue))
      BY <2>0 DEF DrainedAs
    <3>2. \A i \in 1 .. Len(queue) : queue[i] \in Clients
      BY DEF Shapes
    <3> QED
      BY <3>1, <3>2 DEF DrainedAs
  <2> QED
    BY <1>2, <2>2, <2>3 DEF Shapes, Drain
<1>3. CASE Write
  BY <1>3, KeysOfFacts DEF Write, Shapes
<1>4. CASE SealerEnds \/ WriteFails \/ AppendSyncFails
  <2>1. queue' = <<>> /\ fresh' = <<>> /\ deferred' = {} /\ DOMAIN client' = Clients
    BY <1>4 DEF SealerEnds, WriteFails, AppendSyncFails, Stop, HangUp
  <2> QED
    BY <1>4, <2>1 DEF SealerEnds, WriteFails, AppendSyncFails, Shapes
<1>5. CASE SyncFails
  BY <1>5 DEF SyncFails, IoReplies, Shapes
<1>6. CASE AppendSync \/ Sync \/ Seal
  BY <1>6 DEF AppendSync, Sync, Seal, SyncAll, Shapes
<1>7. CASE Publish
  <2>1. visible' \in {visible, Len(file)}
    <3>1. visible \in Int /\ Len(file) \in Int
      BY DEF Shapes
    <3> QED
      BY <1>7, <3>1, MaxOfTwo DEF Publish
  <2> QED
    BY <1>7, <2>1 DEF Publish, Shapes
<1>8. CASE Answer
  BY <1>8 DEF Answer, Shapes
<1>9. CASE ProcessCrash
  BY <1>9 DEF ProcessCrash, Die, Shapes
<1>10. CASE PowerLoss
  <2>1. PICK kept \in synced .. Len(file) :
          file' = SubSeq(file, 1, kept) /\ synced' = kept
    BY <1>10 DEF PowerLoss
  <2>2. file' \in Seq(Seq(Keys)) /\ Len(file') = kept
    BY <2>1 DEF Shapes
  <2> QED
    BY <1>10, <2>1, <2>2 DEF PowerLoss, Die, Shapes
<1>11. CASE Restart \/ RestartFails \/ Shutdown
  BY <1>11 DEF Restart, RecoverSegment, RestartFails, Shutdown, Shapes
<1>12. CASE UNCHANGED vars
  BY <1>12 DEF vars, Shapes
<1> QED
  BY <1>1, <1>2, <1>3, <1>4, <1>5, <1>6, <1>7, <1>8, <1>9, <1>10, <1>11, <1>12
     DEF Next, Seals

\* A step that leaves the queue and the batch alone keeps Waits when whoever waited
\* waits on.
LEMMA KeptWaits ==
    ASSUME Shapes, Waits, UNCHANGED <<queue, fresh, deferred>>,
           \A c \in Clients : \/ client'[c] = client[c]
                              \/ ~IsWaiting(c) /\ client'[c].st # "waiting"
    PROVE  Waits'
<1>1. BatchClients' = BatchClients /\ BatchClients \in SUBSET Clients
  BY DEF BatchClients, Shapes, Range
<1>2. \A i \in 1 .. Len(queue) : queue[i] \in Clients
  BY DEF Shapes
<1> QED
  BY <1>1, <1>2 DEF Waits, IsWaiting

\* A step that ends the batch, and perhaps the queue, keeps Waits when it answers
\* no one else in the queue.
LEMMA NobodyElseWaits ==
    ASSUME Shapes, Waits, queue' \in {queue, <<>>}, fresh' = <<>>, deferred' = {},
           \A c \in Clients :
              \/ client'[c] = client[c]
              \/ /\ c \in BatchClients \/ queue' = <<>>
                 /\ client'[c].st # "waiting"
    PROVE  Waits'
<1>1. BatchClients' = {}
  BY DEF BatchClients, Range
<1>2. \A i \in 1 .. Len(queue) : queue[i] \in Clients
  BY DEF Shapes
<1>3. \A i \in 1 .. Len(queue') : client'[queue'[i]] = client[queue[i]] /\ queue' = queue
  BY <1>2 DEF Waits
<1> QED
  BY <1>1, <1>2, <1>3 DEF Waits, IsWaiting

LEMMA WaitsStep ==
    ASSUME Shapes, Waits, [Next]_vars, SealerAssumption
    PROVE  Waits'
<1> USE DEF IsWaiting
<1>1. ASSUME NEW c \in Clients, NEW key \in Keys, Submit(c, key)
      PROVE  Waits'
  <2>1. CASE pc = "stopped"
    <3>1. /\ UNCHANGED <<queue, fresh, deferred>>
          /\ ~IsWaiting(c)
          /\ \A d \in Clients : d = c \/ client'[d] = client[d]
          /\ client'[c].st = "shutting_down"
      BY <1>1, <2>1 DEF Submit, Shapes
    <3> QED
      BY <3>1, KeptWaits
  <2>2. CASE pc # "stopped"
    <3>1. /\ queue' = Append(queue, c)
          /\ client' = [client EXCEPT ![c] = Waiting(key)]
          /\ UNCHANGED <<fresh, deferred>>
          /\ ~IsWaiting(c)
      BY <1>1, <2>2 DEF Submit
    <3>2. \A i \in 1 .. Len(queue) : queue[i] # c
      BY <3>1 DEF Waits
    <3>3. c \notin BatchClients
      BY <3>1 DEF Waits
    <3>4. \A d \in Clients : client'[d] = IF d = c THEN Waiting(key) ELSE client[d]
      BY <3>1 DEF Shapes
    <3>5. /\ Len(queue') = Len(queue) + 1 /\ Len(queue) \in Nat
          /\ \A i \in 1 .. Len(queue) : queue'[i] = queue[i] /\ queue[i] \in Clients
          /\ queue'[Len(queue) + 1] = c
      BY <3>1 DEF Shapes
    <3>6. BatchClients' = BatchClients /\ BatchClients \in SUBSET Clients
      BY <3>1 DEF BatchClients, Shapes, Range
    <3>7. \A d \in Clients : client'[d].st = "waiting" => client'[d].key \in Keys
      BY <3>4 DEF Waits, Waiting
    <3>8. \A i \in 1 .. Len(queue') :
             client'[queue'[i]].st = "waiting" /\ queue'[i] \notin BatchClients'
      <4> TAKE i \in 1 .. Len(queue')
      <4>1. CASE i = Len(queue) + 1
        BY <3>3, <3>4, <3>5, <3>6, <4>1 DEF Waiting
      <4>2. CASE i \in 1 .. Len(queue)
        BY <3>2, <3>4, <3>5, <3>6, <4>2 DEF Waits
      <4> QED
        BY <3>5, <4>1, <4>2
    <3>9. \A i, j \in 1 .. Len(queue') : queue'[i] = queue'[j] => i = j
      BY <3>2, <3>5 DEF Waits
    <3>10. \A d \in BatchClients' : client'[d].st = "waiting"
      BY <3>3, <3>4, <3>6 DEF Waits
    <3> QED
      BY <3>7, <3>8, <3>9, <3>10 DEF Waits
  <2> QED
    BY <2>1, <2>2
<1>2. CASE Drain
  <2>1. PICK n \in 1 .. Len(queue), new \in SUBSET (1 .. Len(queue)) : DrainedAs(n, new)
    BY <1>2, DrainFacts
  <2>2. Len(queue) \in Nat /\ \A i \in 1 .. Len(queue) : queue[i] \in Clients
    BY DEF Shapes
  <2>3. /\ Len(queue') = Len(queue) - n
        /\ \A i \in 1 .. Len(queue') : queue'[i] = queue[n + i]
    BY <2>1, <2>2 DEF Shapes, DrainedAs
  <2>4. \A c \in BatchClients' : \E i \in new : c = queue[i]
    <3>1. FirstCopies(new) \in SUBSET new
      BY DEF FirstCopies
    <3>2. DOMAIN fresh' = 1 .. Len(fresh')
      BY <2>1 DEF DrainedAs
    <3>3. \A c \in Range(fresh') : \E i \in new : c = queue[i]
      <4>1. PICK f \in [1 .. Len(fresh') -> FirstCopies(new)] :
              \A i \in 1 .. Len(fresh') : fresh'[i] = queue[f[i]]
        BY <2>1 DEF DrainedAs
      <4>2. \A i \in 1 .. Len(fresh') : f[i] \in new
        BY <3>1
      <4>3. \A c \in Range(fresh') : \E i \in 1 .. Len(fresh') : c = fresh'[i]
        BY <3>2 DEF Range
      <4>4. \A i \in 1 .. Len(fresh') : \E j \in new : fresh'[i] = queue[j]
        BY <4>1, <4>2
      <4> QED
        BY <4>3, <4>4
    <3>4. \A c \in deferred' : \E i \in new : c = queue[i]
      BY <2>1 DEF DrainedAs
    <3> QED
      BY <3>3, <3>4 DEF BatchClients
  <2>5. \A i \in new : client'[queue[i]] = client[queue[i]]
    BY <2>1, <2>2 DEF Waits, DrainedAs
  <2>6. \A i \in n + 1 .. Len(queue) : client'[queue[i]] = client[queue[i]]
    BY <2>1, <2>2 DEF Waits, DrainedAs
  <2>7. \A c \in Clients : client'[c].st = "waiting" => client'[c].key \in Keys
    BY <2>1 DEF Waits, DrainedAs
  <2>8. \A i \in 1 .. Len(queue') :
           client'[queue'[i]].st = "waiting" /\ queue'[i] \notin BatchClients'
    <3> TAKE i \in 1 .. Len(queue')
    <3>1. n + i \in n + 1 .. Len(queue) /\ n + i \in 1 .. Len(queue)
      BY <2>2, <2>3
    <3>2. client'[queue'[i]].st = "waiting"
      BY <2>3, <2>6, <3>1 DEF Waits
    <3>3. \A j \in new : queue[n + i] # queue[j]
      BY <2>1, <2>2, <3>1 DEF Waits, DrainedAs
    <3> QED
      BY <2>3, <2>4, <3>2, <3>3
  <2>9. \A i, j \in 1 .. Len(queue') : queue'[i] = queue'[j] => i = j
    BY <2>2, <2>3 DEF Waits
  <2>10. \A c \in BatchClients' : client'[c].st = "waiting"
    BY <2>4, <2>5 DEF Waits
  <2> QED
    BY <2>7, <2>8, <2>9, <2>10 DEF Waits
<1>3. CASE SealerEnds \/ WriteFails \/ AppendSyncFails
  <2>1. /\ queue' = <<>> /\ fresh' = <<>> /\ deferred' = {}
        /\ \A c \in Clients : client'[c] = client[c] \/ client'[c].st # "waiting"
    BY <1>3 DEF SealerEnds, WriteFails, AppendSyncFails, Stop, HangUp, IoReplies, Reply
  <2> QED
    BY <2>1, NobodyElseWaits
<1>4. CASE SyncFails
  <2>1. /\ queue' = queue /\ fresh' = <<>> /\ deferred' = {}
        /\ \A c \in Clients : \/ client'[c] = client[c]
                              \/ c \in BatchClients /\ client'[c].st # "waiting"
    BY <1>4 DEF SyncFails, IoReplies, Reply
  <2> QED
    BY <2>1, NobodyElseWaits
<1>5. CASE Answer
  <2>1. /\ queue' = queue /\ fresh' = <<>> /\ deferred' = {}
        /\ \A c \in Clients : \/ client'[c] = client[c]
                              \/ c \in BatchClients /\ client'[c].st # "waiting"
    BY <1>5 DEF Answer, Reply, BatchClients
  <2> QED
    BY <2>1, NobodyElseWaits
<1>6. CASE ProcessCrash \/ PowerLoss
  <2>1. /\ queue' = <<>> /\ fresh' = <<>> /\ deferred' = {}
        /\ \A c \in Clients : client'[c] = client[c] \/ client'[c].st # "waiting"
    BY <1>6 DEF ProcessCrash, PowerLoss, Die, Nothing
  <2> QED
    BY <2>1, NobodyElseWaits
<1>7. CASE \/ Write \/ AppendSync \/ Seal \/ Sync \/ Publish
           \/ Shutdown \/ Restart \/ RestartFails \/ UNCHANGED vars
  <2>1. UNCHANGED <<queue, fresh, deferred, client>>
    BY <1>7 DEF Write, AppendSync, Seal, Sync, Publish, Shutdown, Restart,
                RestartFails, vars
  <2> QED
    BY <2>1, KeptWaits
<1> QED
  BY <1>1, <1>2, <1>3, <1>4, <1>5, <1>6, <1>7 DEF Next, Seals

\* The keys of the batch stay what they were as long as it is the same batch.
LEMMA SameKeys ==
    ASSUME Shapes, Waits, fresh' = fresh,
           \A c \in Clients : IsWaiting(c) => client'[c] = client[c]
    PROVE  KeysOf(fresh)' = KeysOf(fresh)
<1>1. \A i \in DOMAIN fresh : fresh[i] \in Clients /\ fresh[i] \in BatchClients
  BY DEF Shapes, BatchClients, Range
<1>2. \A i \in DOMAIN fresh : client'[fresh[i]] = client[fresh[i]]
  BY <1>1 DEF Waits
<1> QED
  BY <1>2 DEF KeysOf

\* A submission touches nobody who waits.
LEMMA SubmitFacts ==
    ASSUME Shapes, NEW c \in Clients, NEW key \in Keys, Submit(c, key)
    PROVE  \A d \in Clients : IsWaiting(d) => client'[d] = client[d]
BY DEF Submit, Shapes, IsWaiting

LEMMA RecordedStep ==
    ASSUME Shapes, Waits, BatchRecorded, [Next]_vars
    PROVE  BatchRecorded'
<1>1. ASSUME NEW c \in Clients, NEW key \in Keys, Submit(c, key)
      PROVE  BatchRecorded'
  <2>1. UNCHANGED <<pc, file, fresh>>
    BY <1>1 DEF Submit
  <2> QED
    BY <1>1, <2>1, SubmitFacts, SameKeys DEF BatchRecorded, Recorded
<1>2. CASE Write
  <2>1. file' = Append(file, KeysOf(fresh)) /\ UNCHANGED <<fresh, client>>
    BY <1>2 DEF Write
  <2>2. KeysOf(fresh)' = KeysOf(fresh)
    BY <2>1, SameKeys
  <2>3. file' # <<>> /\ file'[Len(file')] = KeysOf(fresh)
    <3>1. file \in Seq(Seq(Keys)) /\ KeysOf(fresh) \in Seq(Keys)
      BY KeysOfFacts DEF Shapes
    <3> QED
      BY <2>1, <3>1, AppendProperties
  <2> QED
    BY <2>2, <2>3 DEF BatchRecorded
<1>3. CASE \/ AppendSync \/ Seal \/ Sync \/ Publish \/ Shutdown \/ RestartFails
           \/ UNCHANGED vars
  <2>1. UNCHANGED <<file, fresh, client>>
    BY <1>3 DEF AppendSync, Seal, Sync, Publish, Shutdown, RestartFails, vars
  <2>2. Recorded' => Recorded
    BY <1>3 DEF AppendSync, Seal, AfterSeal, Sync, Publish, Shutdown, RestartFails, vars,
                Recorded
  <2> QED
    BY <2>1, <2>2, SameKeys DEF BatchRecorded
<1>4. CASE \/ Drain \/ SealerEnds \/ WriteFails \/ AppendSyncFails \/ SyncFails \/ Answer
           \/ ProcessCrash \/ PowerLoss \/ Restart
  <2>1. ~Recorded'
    BY <1>4 DEF Drain, SealerEnds, WriteFails, AppendSyncFails, Stop, SyncFails, Answer,
                ProcessCrash, PowerLoss, Die, Restart, Recorded
  <2> QED
    BY <2>1 DEF BatchRecorded
<1> QED
  BY <1>1, <1>2, <1>3, <1>4 DEF Next, Seals

LEMMA SyncedStep ==
    ASSUME SyncedInTime, [Next]_vars
    PROVE  SyncedInTime'
<1>1. CASE Write
  BY <1>1 DEF Write, SyncsInAppend, SyncedInTime
<1>2. CASE AppendSync \/ Sync
  BY <1>2 DEF AppendSync, Sync, SyncAll, SyncedInTime
<1>3. CASE Seal
  BY <1>3 DEF Seal, AfterSeal, SyncedInTime
<1>4. CASE Publish
  BY <1>4 DEF Publish, SyncedInTime
<1>5. CASE \/ Drain \/ SealerEnds \/ WriteFails \/ AppendSyncFails \/ SyncFails \/ Answer
           \/ ProcessCrash \/ PowerLoss \/ Restart
  BY <1>5 DEF Drain, SealerEnds, WriteFails, AppendSyncFails, Stop, SyncFails, Answer,
              ProcessCrash, PowerLoss, Die, Restart, SyncedInTime
<1>6. CASE \/ \E c \in Clients, key \in Keys : Submit(c, key)
           \/ Shutdown \/ RestartFails \/ UNCHANGED vars
  BY <1>6 DEF Submit, Shutdown, RestartFails, vars, SyncedInTime
<1> QED
  BY <1>1, <1>2, <1>3, <1>4, <1>5, <1>6 DEF Next, Seals

\* What is on stable storage stays there: no step takes a synced record back.
LEMMA HistoryKept ==
    ASSUME Shapes, Shapes', Waits, [Next]_vars
    PROVE  synced <= synced' /\ \A e \in 1 .. synced : file'[e] = file[e]
<1>1. synced \in Nat /\ Len(file) \in Nat /\ synced <= Len(file)
  BY DEF Shapes
<1>2. CASE Write
  <2>1. file \in Seq(Seq(Keys)) /\ KeysOf(fresh) \in Seq(Keys)
    BY KeysOfFacts DEF Shapes
  <2>2. file' = Append(file, KeysOf(fresh)) /\ synced' = synced
    BY <1>2 DEF Write
  <2> QED
    BY <1>1, <2>1, <2>2, AppendProperties
<1>3. CASE PowerLoss
  <2>1. PICK kept \in synced .. Len(file) :
          file' = SubSeq(file, 1, kept) /\ synced' = kept
    BY <1>3 DEF PowerLoss
  <2> QED
    BY <1>1, <2>1 DEF Shapes
<1>4. CASE \/ WriteFails \/ AppendSync \/ Sync \/ Restart
  BY <1>1, <1>4 DEF WriteFails, AppendSync, Sync, SyncAll, Restart, RecoverSegment
<1>5. CASE \/ \E c \in Clients, key \in Keys : Submit(c, key)
           \/ Shutdown \/ Drain \/ SealerEnds \/ AppendSyncFails \/ Seal \/ SyncFails
           \/ Publish \/ Answer \/ ProcessCrash \/ RestartFails \/ UNCHANGED vars
  <2>1. UNCHANGED <<file, synced>>
    BY <1>5 DEF Submit, Shutdown, Drain, SealerEnds, AppendSyncFails, Seal, SyncFails,
                Publish, Answer, ProcessCrash, RestartFails, vars
  <2> QED
    BY <1>1, <2>1
<1> QED
  BY <1>2, <1>3, <1>4, <1>5 DEF Next, Seals

\* Only Answer acknowledges, and it changes nothing of the segment.
LEMMA AcksChange ==
    ASSUME [Next]_vars
    PROVE  acks' = acks \/ Answer
BY DEF Next, Seals, Submit, Shutdown, Drain, SealerEnds, Write, WriteFails, AppendSync,
       AppendSyncFails, Seal, Sync, SyncFails, Publish, ProcessCrash, PowerLoss,
       Restart, RestartFails, vars

LEMMA AcksStep ==
    ASSUME IInv, Shapes', [Next]_vars
    PROVE  AcksKept'
<1> USE DEF IInv
<1>1. synced \in Nat /\ synced' \in Nat
  BY DEF Shapes
<1>2. synced <= synced' /\ \A e \in 1 .. synced : file'[e] = file[e]
  BY HistoryKept
<1>3. \A a \in acks : \E e \in 1 .. synced' : \E key \in Range(file'[e]) : a = <<key, e>>
  BY <1>1, <1>2 DEF AcksKept
<1>4. CASE acks' = acks
  BY <1>3, <1>4 DEF AcksKept
<1>5. CASE Answer
  <2>1. /\ acks' = acks \union {<<client[c].key, Len(file)>> : c \in Range(fresh)}
        /\ UNCHANGED <<file, synced>>
    BY <1>5 DEF Answer
  <2>2. file[Len(file)] = KeysOf(fresh) /\ synced = Len(file) /\ Len(file) > 0
    BY <1>5 DEF Answer, BatchRecorded, Recorded, SyncedInTime, Shapes
  <2>3. \A c \in Range(fresh) : client[c].key \in Range(KeysOf(fresh))
    BY DEF KeysOf, Range
  <2>4. Len(file) \in 1 .. synced'
    BY <1>1, <2>1, <2>2
  <2>5. \A c \in Range(fresh) : \E e \in 1 .. synced' : \E key \in Range(file'[e]) :
           <<client[c].key, Len(file)>> = <<key, e>>
    BY <2>1, <2>2, <2>3, <2>4
  <2> QED
    BY <1>3, <2>1, <2>5 DEF AcksKept
<1> QED
  BY <1>4, <1>5, AcksChange

(***************************************************************************)
(* The theorems.                                                           *)
(***************************************************************************)

LEMMA InitInv == ASSUME Init PROVE IInv
<1>1. Shapes
  BY DEF Init, Shapes
<1>2. Waits
  BY DEF Init, Waits, BatchClients, Range, IsWaiting, Nothing
<1>3. BatchRecorded /\ SyncedInTime /\ AcksKept
  BY DEF Init, BatchRecorded, Recorded, SyncedInTime, AcksKept
<1> QED
  BY <1>1, <1>2, <1>3 DEF IInv

\* The inductive invariant holds of every behaviour.
THEOREM Inductive == Spec => []IInv
<1>1. Init => IInv
  BY InitInv
<1>2. IInv /\ [Next]_vars => IInv'
  BY ShapesStep, WaitsStep, RecordedStep, SyncedStep, AcksStep, SealerAssumption DEF IInv
<1> QED
  BY <1>1, <1>2, PTL DEF Spec

\* The sealer publishes an epoch only once it is on stable storage, under either
\* policy and whichever writes and syncs failed before (Sequencer::start_gated).
THEOREM PublishesDurable == Spec => PublishIsDurable
<1>1. IInv /\ [Next]_vars => (Publish => visible' <= synced')
  <2> SUFFICES ASSUME IInv, Publish PROVE visible' <= synced'
    OBVIOUS
  <2>1. visible \in Int /\ Len(file) \in Int /\ visible <= Len(file)
    BY DEF IInv, Shapes
  <2>2. visible' = Len(file) /\ synced' = synced
    <3>1. Max({visible, Len(file)}) = Len(file)
      BY <2>1, MaxOfTwo
    <3> QED
      BY <3>1 DEF Publish
  <2>3. synced = Len(file)
    BY DEF IInv, SyncedInTime, Publish
  <2> QED
    BY <2>1, <2>2, <2>3
<1> QED
  BY <1>1, Inductive, PTL DEF Spec, PublishIsDurable

LEMMA CommittedFacts ==
    ASSUME Shapes, NEW e \in 1 .. synced, NEW key \in Range(file[e])
    PROVE  <<key, e>> \in Durable!Committed
<1> DEFINE log == SubSeq(file, 1, synced)
<1>1. file \in Seq(Seq(Keys)) /\ synced \in 0 .. Len(file)
  BY DEF Shapes
<1>2. log \in Seq(Seq(Keys)) /\ Len(log) = synced /\ log[e] = file[e]
  BY <1>1, PrefixFacts
<1>3. Durable!Committed = UNION {{<<k, f>> : k \in Range(log[f])} : f \in DOMAIN log}
  BY DEF Durable!Committed, Durable!Range, Range
<1> HIDE DEF log
<1>4. e \in DOMAIN log
  BY <1>2
<1>5. <<key, e>> \in {<<k, e>> : k \in Range(log[e])}
  BY <1>2
<1> QED
  BY <1>3, <1>4, <1>5

\* The write path keeps its promise: what was answered Ok is on stable storage
\* and stays there through every crash, power loss, failed sync and restart.
THEOREM Implements == Spec => DurableSpec
<1> DEFINE log == SubSeq(file, 1, synced)
<1>1. Init => Durable!Init
  BY DEF Init, Durable!Init
<1>2. ASSUME IInv, IInv', [Next]_vars
      PROVE  [Durable!Next]_<<log, acks>>
  <2>1. /\ file \in Seq(Seq(Keys)) /\ synced \in 0 .. Len(file)
        /\ file' \in Seq(Seq(Keys)) /\ synced' \in 0 .. Len(file')
    BY <1>2 DEF IInv, Shapes
  <2>2. synced <= synced' /\ \A e \in 1 .. synced : file'[e] = file[e]
    BY <1>2, HistoryKept DEF IInv
  <2>3. CASE acks' = acks
    <3>1. IsPrefix(log, log')
      BY <2>1, <2>2, IsPrefixFacts
    <3>2. Durable!Extend
      BY <2>3, <3>1 DEF Durable!Extend, Durable!IsPrefix, IsPrefix
    <3> QED
      BY <3>2 DEF Durable!Next
  <2>4. CASE Answer
    <3>1. log' = log /\ acks \subseteq acks'
      BY <2>4 DEF Answer
    <3>2. acks' \subseteq Durable!Committed
      <4>1. \A a \in acks' : \E e \in 1 .. synced' : \E key \in Range(file'[e]) :
               a = <<key, e>>
        BY <1>2 DEF IInv, AcksKept
      <4>2. file' = file /\ synced' = synced
        BY <2>4 DEF Answer
      <4> QED
        BY <1>2, <4>1, <4>2, CommittedFacts DEF IInv
    <3> QED
      BY <3>1, <3>2 DEF Durable!Next, Durable!Acknowledge
  <2> QED
    BY <1>2, <2>3, <2>4, AcksChange
<1> QED
  BY <1>1, <1>2, Inductive, PTL DEF Spec, DurableSpec, Durable!Spec

(***************************************************************************)
(* The types, and what submitters are told.  The invariant says who owes   *)
(* an answer to whom, that the window lists the keys it remembers, each    *)
(* with the last epoch that holds it, and that the batch is of keys that   *)
(* it does not remember.                                                   *)
(***************************************************************************)

Busy == pc = "write" \/ Recorded

Answers == [st : Outcomes, key : Keys \union {Absent}, epoch : Nat]

\* What TypeOK says of one variable at a time.
Typed ==
    /\ policy \in Policies /\ window \in Windows
    /\ \A e \in 1 .. Len(file) : file[e] # <<>>
    /\ torn \in BOOLEAN /\ open \in BOOLEAN
    /\ since_sync \in 0 .. Len(file)
    /\ pc \in {"idle", "write", "append_sync", "appended", "sync", "publish",
               "answer", "stopped", "down"}
    /\ client \in [Clients -> Answers]

\* The sealed mark is never behind the visible one.
FrontierInv ==
    /\ sealed \in 0 .. Len(file) /\ visible <= sealed
    /\ pc \in {"sync", "publish"} => sealed = Len(file)
    /\ pc = "answer" => visible = Len(file)

\* Where nobody seals there is no batch, and where nobody drains no queue.
Resting ==
    /\ ~Busy => fresh = <<>> /\ deferred = {}
    /\ pc = "down" => ~open
    /\ pc \in {"stopped", "down"} => queue = <<>>

\* The keys of the batch are new to the window and differ, and those deferred
\* wait for one of them.
BatchInv ==
    /\ Busy => fresh # <<>>
    /\ \A i, j \in 1 .. Len(fresh) :
          /\ seen[client[fresh[i]].key] = Absent
          /\ client[fresh[i]].key = client[fresh[j]].key => i = j
    /\ \A c \in deferred :
          /\ \A i \in 1 .. Len(fresh) : fresh[i] # c
          /\ \E i \in 1 .. Len(fresh) : client[fresh[i]].key = client[c].key
    /\ IsFiniteSet(deferred)

\* Somebody owes an answer to whoever waits.
AllOwed ==
    \A c \in Clients : IsWaiting(c) =>
        c \in BatchClients \/ \E i \in 1 .. Len(queue) : queue[i] = c

\* The window is in two forms, and it is right.
WindowInv ==
    /\ seen \in [Keys -> 0 .. Len(file)] /\ order \in Seq(Keys)
    /\ \A key \in Keys : seen[key] # Absent <=> \E i \in 1 .. Len(order) : order[i] = key
    /\ \A i, j \in 1 .. Len(order) : order[i] = order[j] => i = j
    /\ \A key \in Keys : seen[key] # Absent => seen[key] = LastEpoch(key) /\ seen[key] <= visible

TInv == Typed /\ FrontierInv /\ Resting /\ BatchInv /\ AllOwed /\ WindowInv

LEMMA ReplyType ==
    ASSUME Typed, NEW c \in Clients, NEW kind \in Outcomes, NEW e \in Nat
    PROVE  Reply(kind, c, e) \in Answers
BY DEF Typed, Reply, Answers

LEMMA ClientStep ==
    ASSUME Shapes, Waits, Typed, WindowInv, [Next]_vars, SealerAssumption
    PROVE  client' \in [Clients -> Answers]
<1>0. client \in [Clients -> Answers] /\ Len(file) \in Nat
  BY DEF Typed, Shapes
<1>1. ASSUME NEW c \in Clients, NEW key \in Keys, Submit(c, key)
      PROVE  client' \in [Clients -> Answers]
  <2>1. Waiting(key) \in Answers /\ [st |-> "shutting_down", key |-> key, epoch |-> 0] \in Answers
    BY DEF Waiting, Answers, Outcomes
  <2> QED
    BY <1>0, <1>1, <2>1 DEF Submit
<1>2. CASE Drain
  <2>1. \A i \in 1 .. Len(queue) : queue[i] \in Clients /\ client[queue[i]].key \in Keys
    BY DEF Shapes, Waits
  <2>2. \A i \in 1 .. Len(queue) : Reply("duplicate", queue[i], SeenEpoch(client[queue[i]].key)) \in Answers
    <3>1. \A key \in Keys : SeenEpoch(key) \in Nat
      BY <1>0 DEF WindowInv, SeenEpoch
    <3>2. "duplicate" \in Outcomes
      BY DEF Outcomes
    <3> QED
      BY <2>1, <3>1, <3>2, ReplyType
  <2>3. Len(queue) \in Nat /\ Min({Len(queue), MaxBatch}) \in Int
        /\ Min({Len(queue), MaxBatch}) <= Len(queue)
    <3>1. Len(queue) \in Nat
      BY DEF Shapes
    <3>2. Len(queue) \in Int /\ MaxBatch \in Int
      BY <3>1 DEF SealerAssumption
    <3> DEFINE n == Min({Len(queue), MaxBatch})
    <3>3. n \in {Len(queue), MaxBatch} /\ n <= Len(queue)
      BY <3>2, MinOfTwo
    <3> HIDE DEF n
    <3>4. n \in Int /\ n <= Len(queue)
      BY <3>2, <3>3
    <3> QED
      BY <3>1, <3>4 DEF n
  <2>4. PICK old : /\ \A c \in old : \E i \in 1 .. Len(queue) : c = queue[i]
                   /\ client' = [c \in Clients |->
                          IF c \in old
                          THEN Reply("duplicate", c, SeenEpoch(client[c].key))
                          ELSE client[c]]
    <3> DEFINE n == Min({Len(queue), MaxBatch})
               new == {i \in 1..n : seen[client[queue[i]].key] = Absent}
               old == {queue[i] : i \in (1..n) \ new}
    <3>1. client' = [c \in Clients |->
                          IF c \in old
                          THEN Reply("duplicate", c, SeenEpoch(client[c].key))
                          ELSE client[c]]
      BY <1>2 DEF Drain
    <3>2. \A c \in old : \E i \in 1 .. Len(queue) : c = queue[i]
      <4> HIDE DEF n
      <4>1. 1 .. n \subseteq 1 .. Len(queue)
        BY <2>3 DEF n
      <4> QED
        BY <4>1
    <3> HIDE DEF old
    <3> QED
      BY <3>1, <3>2
  <2> QED
    BY <1>0, <2>2, <2>4
<1>3. CASE SealerEnds \/ WriteFails \/ AppendSyncFails \/ SyncFails
  <2>1. "io" \in Outcomes /\ "shutting_down" \in Outcomes
    BY DEF Outcomes
  <2>2. \A c \in Clients : Reply("io", c, 0) \in Answers /\ Reply("shutting_down", c, 0) \in Answers
    BY <2>1, ReplyType
  <2>3. IoReplies \in [Clients -> Answers]
    BY <1>0, <2>2 DEF IoReplies
  <2>4. HangUp(client) \in [Clients -> Answers] /\ HangUp(IoReplies) \in [Clients -> Answers]
    BY <1>0, <2>2, <2>3 DEF HangUp
  <2> QED
    BY <1>3, <2>3, <2>4 DEF SealerEnds, WriteFails, AppendSyncFails, SyncFails, Stop
<1>4. CASE Answer
  <2>1. "ok" \in Outcomes /\ "duplicate" \in Outcomes
    BY DEF Outcomes
  <2>2. \A c \in Clients : Reply("ok", c, Len(file)) \in Answers
                           /\ Reply("duplicate", c, Len(file)) \in Answers
    BY <1>0, <2>1, ReplyType
  <2> QED
    BY <1>0, <1>4, <2>2 DEF Answer
<1>5. CASE ProcessCrash \/ PowerLoss
  <2>1. Nothing \in Answers
    BY DEF Nothing, Answers, Outcomes
  <2> QED
    BY <1>0, <1>5, <2>1 DEF ProcessCrash, PowerLoss, Die
<1>6. CASE \/ Write \/ AppendSync \/ Seal \/ Sync \/ Publish
           \/ Shutdown \/ Restart \/ RestartFails \/ UNCHANGED vars
  BY <1>0, <1>6 DEF Write, AppendSync, Seal, Sync, Publish, Shutdown, Restart,
                RestartFails, vars
<1> QED
  BY <1>1, <1>2, <1>3, <1>4, <1>5, <1>6 DEF Next, Seals

LEMMA TypedStep ==
    ASSUME Shapes, Waits, Typed, BatchInv, WindowInv, [Next]_vars, SealerAssumption
    PROVE  Typed'
<1>1. client' \in [Clients -> Answers]
  BY ClientStep
<1>2. Len(file) \in Nat /\ file \in Seq(Seq(Keys)) /\ DOMAIN file = 1 .. Len(file)
  BY DEF Shapes
<1>3. /\ policy' \in Policies /\ window' \in Windows
      /\ pc' \in {"idle", "write", "append_sync", "appended", "sync", "publish",
                  "answer", "stopped", "down"}
      /\ torn' \in BOOLEAN /\ open' \in BOOLEAN
  BY DEF Next, Seals, Submit, Shutdown, Drain, SealerEnds, Stop, Write, WriteFails, AppendSync,
         AppendSyncFails, Seal, AfterSeal, Sync, SyncFails, Publish, Answer, ProcessCrash,
         PowerLoss, Die, Restart, RecoverSegment, RestartFails, vars, Typed
<1>4. (\A e \in 1 .. Len(file') : file'[e] # <<>>) /\ since_sync' \in 0 .. Len(file')
  <2>1. CASE Write
    <3>1. KeysOf(fresh) \in Seq(Keys) /\ KeysOf(fresh) # <<>>
      BY <2>1, KeysOfFacts DEF BatchInv, Busy, Write
    <3>2. /\ Len(file') = Len(file) + 1 /\ file'[Len(file) + 1] = KeysOf(fresh)
          /\ \A e \in 1 .. Len(file) : file'[e] = file[e]
      BY <1>2, <2>1, <3>1, AppendProperties DEF Write
    <3> QED
      BY <1>2, <2>1, <3>1, <3>2 DEF Write, Typed
  <2>2. CASE PowerLoss
    <3>1. PICK kept \in synced .. Len(file) : file' = SubSeq(file, 1, kept)
      BY <2>2 DEF PowerLoss
    <3>2. kept \in 0 .. Len(file)
      BY DEF Shapes
    <3>3. Len(file') = kept /\ \A e \in 1 .. kept : file'[e] = file[e]
      BY <1>2, <3>1, <3>2, PrefixFacts
    <3> QED
      BY <1>2, <2>2, <3>2, <3>3 DEF PowerLoss, Die, Typed
  <2>3. CASE ~Write /\ ~PowerLoss
    <3>1. file' = file /\ since_sync' \in {since_sync, 0}
      BY <2>3 DEF Next, Seals, Submit, Shutdown, Drain, SealerEnds, WriteFails, AppendSync,
         AppendSyncFails, Seal, Sync, SyncAll, SyncFails, Publish, Answer, ProcessCrash,
         Die, Restart, RecoverSegment, RestartFails, vars
    <3> QED
      BY <1>2, <3>1 DEF Typed
  <2> QED
    BY <2>1, <2>2, <2>3
<1> QED
  BY <1>1, <1>3, <1>4 DEF Typed

LEMMA FrontierStep ==
    ASSUME Shapes, Waits, FrontierInv, [Next]_vars
    PROVE  FrontierInv'
<1>1. Len(file) \in Nat /\ visible \in Nat /\ visible <= Len(file) /\ sealed \in Nat
      /\ sealed <= Len(file)
  BY DEF Shapes, FrontierInv
<1>2. CASE Write
  <2>1. KeysOf(fresh) \in Seq(Keys) /\ file \in Seq(Seq(Keys))
    BY KeysOfFacts DEF Shapes
  <2>2. Len(file') = Len(file) + 1
    BY <1>2, <2>1, AppendProperties DEF Write
  <2> QED
    BY <1>1, <1>2, <2>2 DEF Write, FrontierInv
<1>3. CASE Seal
  <2>1. Max({sealed, Len(file)}) = Len(file)
    BY <1>1, MaxOfTwo
  <2> QED
    BY <1>1, <1>3, <2>1 DEF Seal, AfterSeal, FrontierInv
<1>4. CASE Publish
  <2>1. Max({visible, Len(file)}) = Len(file)
    BY <1>1, MaxOfTwo
  <2> QED
    BY <1>1, <1>4, <2>1 DEF Publish, FrontierInv
<1>5. CASE PowerLoss
  <2>1. Len(file') \in Nat
    <3>1. PICK kept \in synced .. Len(file) : file' = SubSeq(file, 1, kept)
      BY <1>5 DEF PowerLoss
    <3>2. kept \in 0 .. Len(file) /\ file \in Seq(Seq(Keys))
      BY DEF Shapes
    <3> QED
      BY <3>1, <3>2, PrefixFacts
  <2> QED
    BY <1>5, <2>1 DEF PowerLoss, Die, FrontierInv
<1>6. CASE ProcessCrash \/ Restart
  BY <1>1, <1>6 DEF ProcessCrash, Die, Restart, RecoverSegment, FrontierInv
<1>7. CASE \/ Drain \/ SealerEnds \/ WriteFails \/ AppendSync \/ AppendSyncFails \/ Sync
           \/ SyncFails \/ Answer
  BY <1>7 DEF Drain, SealerEnds, WriteFails, AppendSync, AppendSyncFails, Sync, SyncFails,
              Answer, Stop, FrontierInv
<1>8. CASE \/ \E c \in Clients, key \in Keys : Submit(c, key)
           \/ Shutdown \/ RestartFails \/ UNCHANGED vars
  BY <1>8 DEF Submit, Shutdown, RestartFails, vars, FrontierInv
<1> QED
  BY <1>2, <1>3, <1>4, <1>5, <1>6, <1>7, <1>8 DEF Next, Seals

\* A batch of no new key is empty.
LEMMA DrainedOfNone ==
    ASSUME NEW n, NEW new, new = {}, DrainedAs(n, new)
    PROVE  fresh' = <<>> /\ deferred' = {}
<1>1. FirstCopies(new) = {}
  BY DEF FirstCopies
<1>2. fresh' \in Seq(Clients) /\ deferred' = {}
  BY DEF DrainedAs
<1>3. PICK f \in [1 .. Len(fresh') -> {}] : TRUE
  BY <1>1 DEF DrainedAs
<1>4. \A i \in 1 .. Len(fresh') : FALSE
  BY <1>3
<1> QED
  BY <1>2, <1>4

LEMMA RestingStep ==
    ASSUME Shapes, Resting, [Next]_vars, SealerAssumption
    PROVE  Resting'
<1> USE DEF Busy, Recorded
<1>1. CASE Drain
  <2>1. PICK n \in 1 .. Len(queue), new \in SUBSET (1 .. Len(queue)) :
          DrainedAs(n, new) /\ AnsweredAs(n, new)
    BY <1>1, DrainFacts
  <2>2. pc' \in {"idle", "write"}
    BY <2>1 DEF AnsweredAs
  <2>3. pc' = "idle" => fresh' = <<>> /\ deferred' = {}
    BY <2>1, DrainedOfNone DEF AnsweredAs
  <2> QED
    BY <2>2, <2>3 DEF Resting
<1>2. CASE SealerEnds \/ WriteFails \/ AppendSyncFails \/ ProcessCrash \/ PowerLoss
  <2>1. fresh' = <<>> /\ deferred' = {} /\ queue' = <<>> /\ (pc' = "down" => ~open')
    BY <1>2 DEF SealerEnds, WriteFails, AppendSyncFails, Stop, ProcessCrash, PowerLoss, Die
  <2> QED
    BY <2>1 DEF Resting
<1>3. CASE SyncFails \/ Answer
  BY <1>3 DEF SyncFails, Answer, Resting
<1>4. CASE Write \/ AppendSync \/ Seal \/ Sync \/ Publish
  BY <1>4 DEF Write, AppendSync, Seal, AfterSeal, Sync, Publish, Resting
<1>5. ASSUME NEW c \in Clients, NEW key \in Keys, Submit(c, key)
      PROVE  Resting'
  BY <1>5 DEF Submit, Resting
<1>6. CASE Shutdown \/ Restart \/ RestartFails \/ UNCHANGED vars
  BY <1>6 DEF Shutdown, Restart, RestartFails, vars, Resting
<1> QED
  BY <1>1, <1>2, <1>3, <1>4, <1>5, <1>6 DEF Next, Seals

\* A step that leaves the batch and what it waits for alone keeps what is known of
\* its keys, when the window still has none of them.
LEMMA KeptBatch ==
    ASSUME Shapes, Waits, BatchInv, UNCHANGED <<seen, fresh, deferred>>, Busy' => Busy,
           \A c \in Clients : IsWaiting(c) => client'[c] = client[c]
    PROVE  BatchInv'
<1>1. \A i \in 1 .. Len(fresh) : fresh[i] \in Clients /\ fresh[i] \in BatchClients
  BY DEF Shapes, BatchClients, Range
<1>2. \A c \in deferred : c \in Clients /\ c \in BatchClients
  BY DEF Shapes, BatchClients
<1>3. \A i \in 1 .. Len(fresh) : client'[fresh[i]] = client[fresh[i]]
  BY <1>1 DEF Waits
<1>4. \A c \in deferred : client'[c] = client[c]
  BY <1>2 DEF Waits
<1> QED
  BY <1>3, <1>4 DEF BatchInv

\* An empty batch has nothing to be wrong about.
LEMMA NoBatch ==
    ASSUME fresh' = <<>>, deferred' = {}, ~Busy'
    PROVE  BatchInv'
<1>1. Len(fresh') = 0
  OBVIOUS
<1>2. IsFiniteSet(deferred')
  BY FS_EmptySet
<1> QED
  BY <1>1, <1>2 DEF BatchInv

\* Every new key has a first copy.
LEMMA HasFirstCopy ==
    ASSUME NEW new \in SUBSET Nat, NEW i \in new
    PROVE  \E j \in FirstCopies(new) : client[queue[j]].key = client[queue[i]].key
<1> DEFINE same == {j \in new : client[queue[j]].key = client[queue[i]].key}
<1>1. same \subseteq Nat /\ same # {}
  OBVIOUS
<1>2. PICK j \in same : \A k \in same : j =< k
  <2> HIDE DEF same
  <2> QED
    BY <1>1, LeastOfNaturals
<1>3. j \in new /\ client[queue[j]].key = client[queue[i]].key
  OBVIOUS
<1>4. ASSUME NEW k \in new, k < j
      PROVE  client[queue[k]].key # client[queue[j]].key
  <2>1. SUFFICES ASSUME client[queue[k]].key = client[queue[j]].key PROVE FALSE
    OBVIOUS
  <2>2. k \in same
    BY <1>3, <2>1
  <2>3. j =< k /\ j \in Nat /\ k \in Nat
    BY <1>2, <1>3, <2>2
  <2> QED
    BY <1>4, <2>3
<1>5. j \in FirstCopies(new)
  BY <1>3, <1>4 DEF FirstCopies
<1> QED
  BY <1>3, <1>5

LEMMA BatchStep ==
    ASSUME Shapes, Waits, Resting, BatchInv, [Next]_vars, SealerAssumption
    PROVE  BatchInv'
<1>1. ASSUME NEW c \in Clients, NEW key \in Keys, Submit(c, key)
      PROVE  BatchInv'
  <2>1. UNCHANGED <<seen, fresh, deferred, pc>>
    BY <1>1 DEF Submit
  <2> QED
    BY <1>1, <2>1, SubmitFacts, KeptBatch DEF Busy, Recorded
<1>2. CASE Write \/ AppendSync \/ Seal \/ Sync \/ Publish \/ Shutdown \/ RestartFails
           \/ UNCHANGED vars
  <2>1. UNCHANGED <<seen, fresh, deferred, client>> /\ (Busy' => Busy)
    BY <1>2 DEF Write, AppendSync, Seal, AfterSeal, Sync, Publish, Shutdown, RestartFails,
                vars, Busy, Recorded
  <2> QED
    BY <2>1, KeptBatch
<1>3. CASE SealerEnds \/ WriteFails \/ AppendSyncFails \/ SyncFails \/ Answer
           \/ ProcessCrash \/ PowerLoss
  <2>1. fresh' = <<>> /\ deferred' = {} /\ pc' \in {"stopped", "idle", "down"}
    BY <1>3 DEF SealerEnds, WriteFails, AppendSyncFails, SyncFails, Answer, Stop,
                ProcessCrash, PowerLoss, Die
  <2> QED
    BY <2>1, NoBatch DEF Busy, Recorded
<1>4. CASE Restart
  <2>1. UNCHANGED <<fresh, deferred>> /\ pc' = "idle" /\ fresh = <<>> /\ deferred = {}
    BY <1>4 DEF Restart, Resting, Busy, Recorded
  <2> QED
    BY <2>1, NoBatch DEF Busy, Recorded
<1>5. CASE Drain
  <2>1. PICK n \in 1 .. Len(queue), new \in SUBSET (1 .. Len(queue)) :
          DrainedAs(n, new) /\ AnsweredAs(n, new)
    BY <1>5, DrainFacts
  <2>2. PICK f \in [1 .. Len(fresh') -> FirstCopies(new)] :
          /\ \A i \in 1 .. Len(fresh') : fresh'[i] = queue[f[i]]
          /\ \A i, j \in 1 .. Len(fresh') : i < j => f[i] < f[j]
          /\ \A p \in FirstCopies(new) : \E i \in 1 .. Len(fresh') : f[i] = p
    BY <2>1 DEF DrainedAs
  <2>3. seen' = seen
    BY <1>5 DEF Drain
  <2>4. Len(queue) \in Nat /\ \A i \in 1 .. Len(queue) : queue[i] \in Clients
    BY DEF Shapes
  <2>5. new \in SUBSET Nat /\ FirstCopies(new) \in SUBSET new
    BY <2>4 DEF FirstCopies
  <2>6. \A i \in new : client'[queue[i]] = client[queue[i]]
    <3> TAKE i \in new
    <3>1. \A j \in (1 .. n) \ new : queue[j] # queue[i]
      BY <2>4 DEF Waits
    <3>2. \/ client'[queue[i]] = client[queue[i]]
          \/ \E j \in (1 .. n) \ new : queue[i] = queue[j]
      BY <2>1, <2>4 DEF DrainedAs
    <3> QED
      BY <3>1, <3>2
  <2>7. \A i \in 1 .. Len(fresh') :
           f[i] \in new /\ f[i] \in FirstCopies(new) /\ client'[fresh'[i]] = client[queue[f[i]]]
    BY <2>2, <2>5, <2>6
  <2>8. \A i, j \in 1 .. Len(fresh') :
           i < j => client[queue[f[i]]].key # client[queue[f[j]]].key
    BY <2>2, <2>7 DEF FirstCopies
  <2>9. \A i, j \in 1 .. Len(fresh') :
           /\ seen'[client'[fresh'[i]].key] = Absent
           /\ client'[fresh'[i]].key = client'[fresh'[j]].key => i = j
    <3> TAKE i, j \in 1 .. Len(fresh')
    <3>1. seen[client[queue[f[i]]].key] = Absent
      BY <2>1, <2>7 DEF DrainedAs
    <3>2. i \in Int /\ j \in Int /\ (i = j \/ i < j \/ j < i)
      OBVIOUS
    <3> QED
      BY <2>3, <2>7, <2>8, <3>1, <3>2
  <2>10. \A c \in deferred' :
           /\ \A i \in 1 .. Len(fresh') : fresh'[i] # c
           /\ \E i \in 1 .. Len(fresh') : client'[fresh'[i]].key = client'[c].key
    <3> TAKE c \in deferred'
    <3>1. PICK p \in new \ FirstCopies(new) : c = queue[p]
      BY <2>1 DEF DrainedAs
    <3>2. \A i \in 1 .. Len(fresh') : fresh'[i] # c
      <4> TAKE i \in 1 .. Len(fresh')
      <4>1. f[i] # p /\ f[i] \in 1 .. Len(queue) /\ p \in 1 .. Len(queue)
        BY <2>7, <3>1
      <4> QED
        BY <2>2, <3>1, <4>1 DEF Waits
    <3>3. PICK q \in FirstCopies(new) : client[queue[q]].key = client[queue[p]].key
      BY <2>5, <3>1, HasFirstCopy
    <3>4. PICK i \in 1 .. Len(fresh') : f[i] = q
      BY <2>2
    <3> QED
      BY <2>6, <2>7, <3>1, <3>2, <3>3, <3>4
  <2>11. Busy' => fresh' # <<>>
    <3> SUFFICES ASSUME Busy' PROVE fresh' # <<>>
      OBVIOUS
    <3>1. new # {}
      BY <2>1 DEF AnsweredAs, Busy, Recorded
    <3>2. PICK p \in new : TRUE
      BY <3>1
    <3>3. PICK q \in FirstCopies(new) : TRUE
      BY <2>5, HasFirstCopy
    <3>4. PICK i \in 1 .. Len(fresh') : f[i] = q
      BY <2>2
    <3> QED
      BY <3>4
  <2>12. IsFiniteSet(deferred')
    <3>1. IsFiniteSet(1 .. Len(queue))
      BY <2>4, FS_Interval
    <3>2. IsFiniteSet(new \ FirstCopies(new))
      BY <3>1, FS_Subset
    <3> DEFINE at == new \ FirstCopies(new)
               g == [i \in at |-> queue[i]]
    <3>3. deferred' = {queue[i] : i \in at}
      BY <2>1 DEF DrainedAs
    <3> HIDE DEF at
    <3>4. g \in [at -> deferred'] /\ \A c \in deferred' : \E i \in at : g[i] = c
      BY <3>3
    <3> HIDE DEF g
    <3>5. g \in Surjection(at, deferred')
      BY <3>4 DEF Surjection
    <3>6. IsFiniteSet(at)
      BY <3>2 DEF at
    <3> QED
      BY <3>5, <3>6, FS_Surjection
  <2> QED
    BY <2>9, <2>10, <2>11, <2>12 DEF BatchInv
<1> QED
  BY <1>1, <1>2, <1>3, <1>4, <1>5 DEF Next, Seals

LEMMA OwedStep ==
    ASSUME Shapes, Waits, Resting, AllOwed, [Next]_vars, SealerAssumption
    PROVE  AllOwed'
<1> USE DEF IsWaiting
<1>0. /\ Len(queue) \in Nat /\ \A i \in 1 .. Len(queue) : queue[i] \in Clients
      /\ \A i \in 1 .. Len(queue) : queue[i] \in Range(queue)
  BY DEF Shapes, Range
<1>1. ASSUME NEW c \in Clients, NEW key \in Keys, Submit(c, key)
      PROVE  AllOwed'
  <2>1. BatchClients' = BatchClients
    BY <1>1 DEF Submit, BatchClients, Range
  <2>2. CASE pc = "stopped"
    <3>1. /\ queue' = queue
          /\ \A d \in Clients : client'[d].st = "waiting" => client'[d] = client[d]
      BY <1>1, <2>2 DEF Submit, Shapes
    <3> QED
      BY <2>1, <3>1 DEF AllOwed
  <2>3. CASE pc # "stopped"
    <3>1. /\ queue' = Append(queue, c)
          /\ \A d \in Clients : d = c \/ client'[d] = client[d]
      BY <1>1, <2>3 DEF Submit, Shapes
    <3>2. /\ Len(queue') = Len(queue) + 1 /\ queue'[Len(queue) + 1] = c
          /\ \A i \in 1 .. Len(queue) : queue'[i] = queue[i]
      BY <3>1 DEF Shapes
    <3> QED
      BY <1>0, <2>1, <3>1, <3>2 DEF AllOwed
  <2> QED
    BY <2>2, <2>3
<1>2. CASE Drain
  <2>1. PICK n \in 1 .. Len(queue), new \in SUBSET (1 .. Len(queue)) :
          DrainedAs(n, new) /\ AnsweredAs(n, new)
    BY <1>2, DrainFacts
  <2>2. /\ Len(queue') = Len(queue) - n
        /\ \A i \in 1 .. Len(queue') : queue'[i] = queue[n + i]
    BY <1>0, <2>1 DEF Shapes, DrainedAs
  <2>3. BatchClients = {}
    BY <1>2 DEF Drain, Resting, Busy, Recorded, BatchClients, Range
  <2>4. \A i \in new : queue[i] \in BatchClients'
    <3> TAKE i \in new
    <3>1. CASE i \in FirstCopies(new)
      <4>1. PICK j \in 1 .. Len(fresh') : fresh'[j] = queue[i]
        <5>1. PICK f \in [1 .. Len(fresh') -> FirstCopies(new)] :
                /\ \A j \in 1 .. Len(fresh') : fresh'[j] = queue[f[j]]
                /\ \A p \in FirstCopies(new) : \E j \in 1 .. Len(fresh') : f[j] = p
          BY <2>1 DEF DrainedAs
        <5> QED
          BY <3>1, <5>1
      <4>2. DOMAIN fresh' = 1 .. Len(fresh')
        BY <2>1 DEF DrainedAs
      <4> QED
        BY <4>1, <4>2 DEF BatchClients, Range
    <3>2. CASE i \notin FirstCopies(new)
      BY <2>1, <3>2 DEF DrainedAs, BatchClients
    <3> QED
      BY <3>1, <3>2
  <2> SUFFICES ASSUME NEW c \in Clients, client'[c].st = "waiting"
               PROVE  c \in BatchClients' \/ \E i \in 1 .. Len(queue') : queue'[i] = c
    BY DEF AllOwed
  <2>5. client'[c] = client[c]
    BY <2>1 DEF DrainedAs
  <2>6. PICK i \in 1 .. Len(queue) : queue[i] = c
    BY <2>3, <2>5 DEF AllOwed
  <2>7. CASE i \in 1 .. n
    <3>1. i \in new
      BY <2>1, <2>6, <2>7 DEF AnsweredAs
    <3> QED
      BY <2>4, <2>6, <3>1
  <2>8. CASE i \notin 1 .. n
    <3>1. i - n \in 1 .. Len(queue') /\ queue'[i - n] = queue[n + (i - n)]
      BY <1>0, <2>2, <2>8
    <3>2. n + (i - n) = i
      BY <1>0
    <3> QED
      BY <2>6, <3>1, <3>2
  <2> QED
    BY <2>7, <2>8
<1>3. CASE SealerEnds \/ WriteFails \/ AppendSyncFails
  <2>1. \A c \in Clients : c \in Range(queue) => client'[c].st # "waiting"
    BY <1>3 DEF SealerEnds, WriteFails, AppendSyncFails, Stop, HangUp, Reply
  <2>2. \A c \in Clients : c \in BatchClients => client'[c].st # "waiting"
    <3>1. CASE WriteFails \/ AppendSyncFails
      BY <3>1 DEF WriteFails, AppendSyncFails, Stop, HangUp, IoReplies, Reply
    <3>2. CASE SealerEnds
      BY <3>2 DEF SealerEnds, Resting, Busy, Recorded, BatchClients, Range
    <3> QED
      BY <1>3, <3>1, <3>2
  <2>3. \A c \in Clients : client'[c] = client[c] \/ client'[c].st # "waiting"
    BY <1>3 DEF SealerEnds, WriteFails, AppendSyncFails, Stop, HangUp, IoReplies, Reply
  <2> QED
    BY <1>0, <2>1, <2>2, <2>3 DEF AllOwed
<1>4. CASE SyncFails \/ Answer
  <2>1. queue' = queue
    BY <1>4 DEF SyncFails, Answer
  <2>2. \A c \in Clients : c \in BatchClients => client'[c].st # "waiting"
    BY <1>4 DEF SyncFails, IoReplies, Answer, BatchClients, Reply
  <2>3. \A c \in Clients : client'[c] = client[c] \/ client'[c].st # "waiting"
    BY <1>4 DEF SyncFails, IoReplies, Answer, Reply
  <2> QED
    BY <2>1, <2>2, <2>3 DEF AllOwed
<1>5. CASE ProcessCrash \/ PowerLoss
  BY <1>5 DEF ProcessCrash, PowerLoss, Die, Nothing, AllOwed
<1>6. CASE \/ Write \/ AppendSync \/ Seal \/ Sync \/ Publish
           \/ Shutdown \/ Restart \/ RestartFails \/ UNCHANGED vars
  <2>1. UNCHANGED <<queue, fresh, deferred, client>>
    BY <1>6 DEF Write, AppendSync, Seal, Sync, Publish, Shutdown, Restart,
                RestartFails, vars
  <2> QED
    BY <2>1 DEF AllOwed, BatchClients
<1> QED
  BY <1>1, <1>2, <1>3, <1>4, <1>5, <1>6 DEF Next, Seals

\* LastEpoch, of any file.
EpochsIn(f, key) == {e \in 1 .. Len(f) : key \in Range(f[e])}
LastIn(f, key) == IF EpochsIn(f, key) = {} THEN Absent ELSE Max(EpochsIn(f, key))

LEMMA LastEpochIsLastIn ==
    ASSUME Shapes, NEW key
    PROVE  LastEpoch(key) = LastIn(file, key)
<1>1. DOMAIN file = 1 .. Len(file)
  BY DEF Shapes
<1> QED
  BY <1>1 DEF LastEpoch, LastIn, EpochsOf, EpochsIn, Committed

LEMMA LastInFacts ==
    ASSUME NEW f \in Seq(Seq(Keys)), NEW key
    PROVE  /\ LastIn(f, key) \in 0 .. Len(f)
           /\ LastIn(f, key) # Absent => key \in Range(f[LastIn(f, key)])
           /\ \A e \in 1 .. Len(f) : key \in Range(f[e]) => e <= LastIn(f, key)
<1>1. Len(f) \in Nat /\ IsFiniteSet(1 .. Len(f))
  BY FS_Interval
<1>2. EpochsIn(f, key) \subseteq 1 .. Len(f) /\ EpochsIn(f, key) \subseteq Nat
  BY <1>1 DEF EpochsIn
<1>3. IsFiniteSet(EpochsIn(f, key))
  BY <1>1, <1>2, FS_Subset
<1>4. CASE EpochsIn(f, key) = {}
  BY <1>1, <1>4 DEF LastIn, EpochsIn, Absent
<1>5. CASE EpochsIn(f, key) # {}
  <2> DEFINE m == Max(EpochsIn(f, key))
  <2>1. m \in EpochsIn(f, key) /\ \A e \in EpochsIn(f, key) : m >= e
    BY <1>2, <1>3, <1>5, MaxOf
  <2>2. LastIn(f, key) = m
    BY <1>5 DEF LastIn
  <2> HIDE DEF m
  <2> QED
    BY <1>1, <1>2, <2>1, <2>2 DEF EpochsIn, Absent
<1> QED
  BY <1>4, <1>5

LEMMA LastInIs ==
    ASSUME NEW f \in Seq(Seq(Keys)), NEW key, NEW e \in 1 .. Len(f), key \in Range(f[e]),
           \A d \in 1 .. Len(f) : key \in Range(f[d]) => d <= e
    PROVE  LastIn(f, key) = e
<1>1. LastIn(f, key) \in 0 .. Len(f) /\ e <= LastIn(f, key) /\ Len(f) \in Nat
  BY LastInFacts
<1>2. LastIn(f, key) # Absent /\ key \in Range(f[LastIn(f, key)])
  BY <1>1, LastInFacts DEF Absent
<1> QED
  BY <1>1, <1>2

\* A record without the key does not move its last epoch.
LEMMA LastInAppend ==
    ASSUME NEW f \in Seq(Seq(Keys)), NEW r \in Seq(Keys), NEW key, key \notin Range(r)
    PROVE  LastIn(Append(f, r), key) = LastIn(f, key)
<1>1. /\ Len(Append(f, r)) = Len(f) + 1 /\ Append(f, r)[Len(f) + 1] = r /\ Len(f) \in Nat
      /\ \A e \in 1 .. Len(f) : Append(f, r)[e] = f[e]
  BY AppendProperties
<1>2. EpochsIn(Append(f, r), key) = EpochsIn(f, key)
  BY <1>1 DEF EpochsIn
<1> QED
  BY <1>2 DEF LastIn

\* The keys of the file are finitely many.
LEMMA RecoveredFinite ==
    ASSUME Shapes
    PROVE  IsFiniteSet(RecoveredKeys)
<1>1. file \in Seq(Seq(Keys)) /\ Len(file) \in Nat
  BY DEF Shapes
<1> DEFINE held == {Range(file[e]) : e \in 1 .. Len(file)}
<1>2. \A e \in 1 .. Len(file) : IsFiniteSet(Range(file[e]))
  <2> TAKE e \in 1 .. Len(file)
  <2>1. file[e] \in Seq(Keys)
    BY <1>1
  <2>2. Len(file[e]) \in Nat /\ DOMAIN file[e] = 1 .. Len(file[e])
    BY <2>1
  <2>3. IsFiniteSet(DOMAIN file[e])
    BY <2>2, FS_Interval
  <2>4. file[e] \in Surjection(DOMAIN file[e], Range(file[e]))
    BY <2>1 DEF Surjection, Range
  <2> QED
    BY <2>3, <2>4, FS_Surjection
<1>3. IsFiniteSet(held)
  <2> DEFINE g == [e \in 1 .. Len(file) |-> Range(file[e])]
  <2>1. g \in Surjection(1 .. Len(file), held)
    BY DEF Surjection
  <2>2. IsFiniteSet(1 .. Len(file))
    BY <1>1, FS_Interval
  <2> HIDE DEF g, held
  <2> QED
    BY <2>1, <2>2, FS_Surjection
<1>4. IsFiniteSet(UNION held)
  <2>1. \A T \in held : IsFiniteSet(T)
    BY <1>2
  <2> HIDE DEF held
  <2> QED
    BY <1>3, <2>1, FS_UNION
<1>5. RecoveredKeys \subseteq UNION held
  <2> SUFFICES ASSUME NEW key \in RecoveredKeys PROVE key \in UNION held
    OBVIOUS
  <2>1. LastIn(file, key) # Absent
    BY LastEpochIsLastIn DEF RecoveredKeys
  <2>2. LastIn(file, key) \in 0 .. Len(file) /\ key \in Range(file[LastIn(file, key)])
    BY <1>1, <2>1, LastInFacts
  <2>3. LastIn(file, key) \in 1 .. Len(file)
    BY <1>1, <2>1, <2>2 DEF Absent
  <2> QED
    BY <2>2, <2>3
<1> QED
  BY <1>4, <1>5, FS_Subset

\* Recovery lists every key it finds, once, in the order of commit.
LEMMA RecoveredFacts ==
    ASSUME Shapes, SealerAssumption
    PROVE  /\ RecoveredOrder \in Seq(RecoveredKeys)
           /\ \A key \in RecoveredKeys : \E i \in 1 .. Len(RecoveredOrder) : RecoveredOrder[i] = key
           /\ \A i, j \in 1 .. Len(RecoveredOrder) :
                 /\ RecoveredOrder[i] = RecoveredOrder[j] => i = j
                 /\ CommitsBefore(RecoveredOrder[i], RecoveredOrder[j]) => i < j
<1> DEFINE S == RecoveredKeys
           n == Cardinality(S)
           Below(l) == {k \in S : CommitsBefore(k, l)}
           rank == [l \in S |-> Cardinality(Below(l)) + 1]
<1>1. IsFiniteSet(S) /\ n \in Nat
  BY RecoveredFinite, FS_CardinalityType
<1>2. \A k \in S : k \in Nat /\ LastEpoch(k) \in Nat
  <2> TAKE k \in S
  <2>1. k \in Nat
    BY DEF RecoveredKeys, SealerAssumption
  <2>2. LastIn(file, k) \in 0 .. Len(file) /\ Len(file) \in Nat
    BY LastInFacts DEF Shapes
  <2> QED
    BY <2>1, <2>2, LastEpochIsLastIn
<1>3. \A l \in S : IsFiniteSet(Below(l)) /\ Cardinality(Below(l)) \in 0 .. n - 1
  <2> TAKE l \in S
  <2>1. Below(l) \subseteq S \ {l}
    BY <1>2 DEF CommitsBefore
  <2>2. IsFiniteSet(S \ {l}) /\ Cardinality(S \ {l}) = n - 1
    BY <1>1, FS_RemoveElement
  <2> HIDE DEF S, n, Below
  <2>3. IsFiniteSet(Below(l)) /\ Cardinality(Below(l)) <= Cardinality(S \ {l})
    BY <2>1, <2>2, FS_Subset
  <2>4. Cardinality(Below(l)) \in Nat
    BY <2>3, FS_CardinalityType
  <2> QED
    BY <1>1, <2>2, <2>3, <2>4
<1>3a. \A l \in S : rank[l] = Cardinality(Below(l)) + 1
  OBVIOUS
<1>3b. \A l \in S : /\ Cardinality(Below(l)) \in Int /\ Cardinality(Below(l)) + 1 \in 1 .. n
                   /\ Cardinality(Below(l)) + 1 - 1 = Cardinality(Below(l))
  <2> HIDE DEF S, n, Below
  <2> QED
    BY <1>1, <1>3
<1>4. \A k, l \in S : CommitsBefore(k, l) => Cardinality(Below(k)) < Cardinality(Below(l))
  <2> SUFFICES ASSUME NEW k \in S, NEW l \in S, CommitsBefore(k, l)
               PROVE  Cardinality(Below(k)) < Cardinality(Below(l))
    OBVIOUS
  <2>1. Below(k) \subseteq Below(l)
    <3> SUFFICES ASSUME NEW j \in S, CommitsBefore(j, k) PROVE CommitsBefore(j, l)
      OBVIOUS
    <3> QED
      BY <1>2 DEF CommitsBefore
  <2>2. k \in Below(l) /\ k \notin Below(k)
    BY <1>2 DEF CommitsBefore
  <2>3. IsFiniteSet(Below(l)) /\ Cardinality(Below(l)) \in Nat /\ Cardinality(Below(k)) \in Nat
    BY <1>1, <1>3
  <2> HIDE DEF S, n, Below
  <2>4. Cardinality(Below(k)) <= Cardinality(Below(l))
        /\ (Cardinality(Below(l)) = Cardinality(Below(k)) => Below(l) = Below(k))
    BY <2>1, <2>3, FS_Subset
  <2> QED
    BY <2>2, <2>3, <2>4
<1>5. \A k, l \in S : k = l \/ CommitsBefore(k, l) \/ CommitsBefore(l, k)
  BY <1>2 DEF CommitsBefore
<1>6. rank \in Injection(S, 1 .. n)
  <2>1. rank \in [S -> 1 .. n]
    <3> HIDE DEF S, n, Below
    <3> QED
      BY <1>1, <1>3
  <2>2. \A k, l \in S : rank[k] = rank[l] => k = l
    <3> TAKE k, l \in S
    <3> HIDE DEF S, n, Below, rank
    <3> QED
      BY <1>4, <1>5, <1>3a, <1>3b
  <2>3. DOMAIN rank = S
    OBVIOUS
  <2> HIDE DEF rank
  <2> QED
    BY <2>1, <2>2, <2>3 DEF Injection, IsInjective
<1>7. rank \in Surjection(S, 1 .. n)
  <2>1. IsFiniteSet(1 .. n) /\ Cardinality(1 .. n) = n
    BY <1>1, FS_Interval
  <2> HIDE DEF S, rank
  <2> QED
    BY <1>6, <2>1, FS_Injection
<1>8. \A i \in 1 .. n : \E l \in S : Cardinality(Below(l)) = i - 1
  <2> TAKE i \in 1 .. n
  <2>1. PICK l \in S : rank[l] = i
    <3> HIDE DEF S, n, rank
    <3> QED
      BY <1>7 DEF Surjection
  <2> HIDE DEF S, n, Below, rank
  <2> QED
    BY <1>3a, <1>3b, <2>1
<1>9. RecoveredOrder = [i \in 1 .. n |-> CHOOSE l \in S : Cardinality(Below(l)) = i - 1]
  BY DEF RecoveredOrder
<1>10. \A i \in 1 .. n : RecoveredOrder[i] \in S /\ Cardinality(Below(RecoveredOrder[i])) = i - 1
  <2> HIDE DEF S, n, Below
  <2> QED
    BY <1>8, <1>9
<1>11. RecoveredOrder \in Seq(S) /\ Len(RecoveredOrder) = n
  <2> HIDE DEF S, n, Below
  <2>1. RecoveredOrder \in [1 .. n -> S]
    BY <1>9, <1>10
  <2> QED
    BY <1>1, <2>1
<1>12. \A key \in S : \E i \in 1 .. n : RecoveredOrder[i] = key
  <2> TAKE key \in S
  <2> DEFINE i == Cardinality(Below(key)) + 1
  <2>1. i \in 1 .. n /\ i - 1 = Cardinality(Below(key))
    <3> HIDE DEF S, n, Below
    <3> QED
      BY <1>3b
  <2>2. RecoveredOrder[i] \in S /\ Cardinality(Below(RecoveredOrder[i])) = Cardinality(Below(key))
    BY <1>10, <2>1
  <2> HIDE DEF S, n, Below, i
  <2>3. Cardinality(Below(key)) \in Int
    BY <1>1, <1>3
  <2>4. RecoveredOrder[i] = key
    BY <1>4, <1>5, <2>2, <2>3
  <2> QED
    BY <2>1, <2>4
<1>13. \A i, j \in 1 .. n :
          /\ RecoveredOrder[i] = RecoveredOrder[j] => i = j
          /\ CommitsBefore(RecoveredOrder[i], RecoveredOrder[j]) => i < j
  <2> TAKE i, j \in 1 .. n
  <2>1. i \in Int /\ j \in Int
    BY <1>1
  <2> HIDE DEF S, n, Below
  <2>2. CommitsBefore(RecoveredOrder[i], RecoveredOrder[j]) => i - 1 < j - 1
    BY <1>4, <1>10
  <2>3. RecoveredOrder[i] = RecoveredOrder[j] => i - 1 = j - 1
    BY <1>10
  <2> QED
    BY <2>1, <2>2, <2>3
<1> HIDE DEF S, n
<1> QED
  BY <1>11, <1>12, <1>13 DEF S

\* A step that leaves the window and the file alone, and takes nothing back that
\* was visible, keeps the window right.
LEMMA KeptWindow ==
    ASSUME Shapes, Shapes', WindowInv, UNCHANGED <<seen, order, file>>, visible <= visible'
    PROVE  WindowInv'
<1>1. \A key \in Keys : LastEpoch(key)' = LastEpoch(key)
  BY DEF LastEpoch, EpochsOf, Committed
<1>2. \A key \in Keys : seen[key] \in Int
  BY DEF WindowInv, Shapes
<1>3. visible \in Int /\ visible' \in Int
  BY DEF Shapes
<1> QED
  BY <1>1, <1>2, <1>3 DEF WindowInv

\* What Answer does to the window: all of it and the batch, less the oldest, is
\* what it holds then.
Enters(all, drop) ==
    /\ Len(all) = Len(order) + Len(fresh)
    /\ \A i \in 1 .. Len(all) :
          \/ i \in 1 .. Len(order) /\ all[i] = order[i] /\ seen[all[i]] # Absent
          \/ /\ i - Len(order) \in 1 .. Len(fresh)
             /\ all[i] = KeysOf(fresh)[i - Len(order)] /\ seen[all[i]] = Absent
    /\ \A i \in 1 .. Len(order) : all[i] = order[i]
    /\ \A i \in Len(order) + 1 .. Len(all) : all[i] = KeysOf(fresh)[i - Len(order)]
    /\ \A i, j \in 1 .. Len(all) : all[i] = all[j] => i = j
    /\ drop > 0 => OverWindow(Len(all) - drop + 1)
    /\ order' \in Seq(Keys) /\ Len(order') = Len(all) - drop
    /\ \A i \in 1 .. Len(order') : drop + i \in 1 .. Len(all) /\ order'[i] = all[drop + i]
    /\ seen' = [key \in Keys |->
                  IF \E i \in 1 .. drop : all[i] = key THEN Absent
                  ELSE IF key \in Range(KeysOf(fresh)) THEN Len(file)
                  ELSE seen[key]]

LEMMA AnswerFacts ==
    ASSUME Shapes, Waits, BatchRecorded, Typed, FrontierInv, BatchInv, WindowInv, Answer,
           SealerAssumption
    PROVE  \E all \in Seq(Keys) : \E drop \in 0 .. Len(all) : Enters(all, drop)
<1> DEFINE r == KeysOf(fresh)
           all == order \o r
           drop == CHOOSE n \in 0 .. Len(all) :
                      /\ ~OverWindow(Len(all) - n)
                      /\ n > 0 => OverWindow(Len(all) - n + 1)
<1>1. /\ order' = SubSeq(all, drop + 1, Len(all))
      /\ seen' = [key \in Keys |->
                    IF \E i \in 1 .. drop : all[i] = key THEN Absent
                    ELSE IF key \in Range(r) THEN Len(file)
                    ELSE seen[key]]
      /\ UNCHANGED <<file, visible>> /\ pc = "answer"
  BY DEF Answer
<1>2. /\ order \in Seq(Keys) /\ Len(order) \in Nat
      /\ r \in Seq(Keys) /\ Len(r) = Len(fresh) /\ Len(r) \in Nat
      /\ \A i \in 1 .. Len(r) : r[i] = client[fresh[i]].key
  BY KeysOfFacts DEF WindowInv
<1> HIDE DEF r
<1>3. /\ all \in Seq(Keys) /\ Len(all) = Len(order) + Len(r)
      /\ \A i \in 1 .. Len(order) : all[i] = order[i]
      /\ \A i \in Len(order) + 1 .. Len(all) : all[i] = r[i - Len(order)]
  <2>1. /\ all \in Seq(Keys) /\ Len(all) = Len(order) + Len(r)
        /\ \A i \in 1 .. Len(order) + Len(r) :
              all[i] = IF i <= Len(order) THEN order[i] ELSE r[i - Len(order)]
    BY <1>2, ConcatProperties
  <2> HIDE DEF all
  <2> QED
    BY <1>2, <2>1
<1> HIDE DEF all
<1>4. drop \in 0 .. Len(all) /\ (drop > 0 => OverWindow(Len(all) - drop + 1))
  <2>1. Len(all) \in Nat
    BY <1>2, <1>3
  <2>2. \E n \in 0 .. Len(all) : /\ ~OverWindow(Len(all) - n)
                                 /\ n > 0 => OverWindow(Len(all) - n + 1)
    <3>1. CASE ~OverWindow(Len(all))
      <4>1. Len(all) - 0 = Len(all) /\ 0 \in 0 .. Len(all) /\ ~(0 > 0)
        BY <2>1
      <4> QED
        BY <3>1, <4>1
    <3>2. CASE OverWindow(Len(all))
      <4> DEFINE m == Max({window, 1})
      <4>1. window # NoWindow /\ Len(all) > m
        BY <3>2 DEF OverWindow
      <4>2. m \in Nat
        <5>1. window \in Nat
          BY DEF Typed, SealerAssumption
        <5>2. window \in Int /\ 1 \in Int
          BY <5>1
        <5>3. m \in {window, 1}
          BY <5>2, MaxOfTwo
        <5> HIDE DEF m
        <5> QED
          BY <5>1, <5>3
      <4> HIDE DEF m
      <4>3. Len(all) - m \in 0 .. Len(all) /\ Len(all) - (Len(all) - m) = m
            /\ ~(m > m) /\ m + 1 > m
        BY <2>1, <4>1, <4>2
      <4>4. ~OverWindow(m) /\ OverWindow(m + 1)
        BY <4>1, <4>3 DEF OverWindow, m
      <4> QED
        BY <4>3, <4>4
    <3> QED
      BY <3>1, <3>2
  <2> QED
    BY <2>2
<1> HIDE DEF drop
<1>5. \A i \in 1 .. Len(all) :
         \/ i \in 1 .. Len(order) /\ all[i] = order[i] /\ seen[all[i]] # Absent
         \/ /\ i - Len(order) \in 1 .. Len(r) /\ all[i] = r[i - Len(order)]
            /\ seen[all[i]] = Absent
  <2> TAKE i \in 1 .. Len(all)
  <2>1. CASE i \in 1 .. Len(order)
    <3>1. order[i] \in Keys
      BY <1>2, <2>1
    <3> QED
      BY <1>3, <2>1, <3>1 DEF WindowInv
  <2>2. CASE i \in Len(order) + 1 .. Len(all)
    <3>1. i - Len(order) \in 1 .. Len(r)
      BY <1>2, <1>3, <2>2
    <3> QED
      BY <1>2, <1>3, <2>2, <3>1 DEF BatchInv
  <2> QED
    BY <1>2, <1>3, <2>1, <2>2
<1>6. \A i, j \in 1 .. Len(all) : all[i] = all[j] => i = j
  <2> TAKE i, j \in 1 .. Len(all)
  <2> SUFFICES ASSUME all[i] = all[j] PROVE i = j
    OBVIOUS
  <2>1. CASE seen[all[i]] # Absent
    BY <1>5, <2>1 DEF WindowInv
  <2>2. CASE seen[all[i]] = Absent
    <3>1. /\ i - Len(order) \in 1 .. Len(fresh) /\ j - Len(order) \in 1 .. Len(fresh)
          /\ r[i - Len(order)] = r[j - Len(order)]
      BY <1>2, <1>5, <2>2
    <3> DEFINE p == i - Len(order)
               q == j - Len(order)
    <3>2. p \in 1 .. Len(fresh) /\ q \in 1 .. Len(fresh) /\ r[p] = r[q]
      BY <3>1
    <3>3. i \in Int /\ j \in Int /\ Len(order) \in Int /\ (p = q => i = j)
      BY <1>2, <1>3
    <3> HIDE DEF p, q
    <3>4. client[fresh[p]].key = client[fresh[q]].key
      BY <1>2, <3>2
    <3>5. p = q
      BY <3>2, <3>4 DEF BatchInv
    <3> QED
      BY <3>3, <3>5
  <2> QED
    BY <2>1, <2>2
<1>7. /\ order' \in Seq(Keys) /\ Len(order') = Len(all) - drop
      /\ \A i \in 1 .. Len(order') : drop + i \in 1 .. Len(all) /\ order'[i] = all[drop + i]
  <2>1. Len(all) \in Nat
    BY <1>2, <1>3
  <2>2. drop + 1 \in Int /\ Len(all) \in Int /\ drop \in Nat /\ drop <= Len(all)
    BY <1>4, <2>1
  <2>3. \A i \in drop + 1 .. Len(all) : all[i] \in Keys
    BY <1>3, <1>4
  <2>4. /\ order' \in Seq(Keys)
        /\ Len(order') = IF drop + 1 <= Len(all) THEN Len(all) - (drop + 1) + 1 ELSE 0
        /\ \A i \in 1 .. Len(order') : order'[i] = all[drop + 1 + i - 1]
    BY <1>1, <1>3, <2>2, <2>3
  <2> QED
    BY <2>1, <2>2, <2>4
<1>8. Enters(all, drop)
  BY <1>1, <1>2, <1>3, <1>4, <1>5, <1>6, <1>7 DEF Enters, r
<1> QED
  BY <1>3, <1>4, <1>8

\* The window after a batch of one.
LEMMA AnswerWindow ==
    ASSUME Shapes, Waits, BatchRecorded, Typed, FrontierInv, BatchInv, WindowInv, Answer,
           SealerAssumption
    PROVE  WindowInv'
<1> DEFINE r == KeysOf(fresh)
<1>0. PICK all \in Seq(Keys) : \E drop \in 0 .. Len(all) : Enters(all, drop)
  BY AnswerFacts
<1>0a. PICK drop \in 0 .. Len(all) : Enters(all, drop)
  BY <1>0
<1>1. /\ seen' = [key \in Keys |->
                    IF \E i \in 1 .. drop : all[i] = key THEN Absent
                    ELSE IF key \in Range(r) THEN Len(file)
                    ELSE seen[key]]
      /\ UNCHANGED <<file, visible>> /\ pc = "answer"
  BY <1>0a DEF Answer, Enters
<1>2. /\ order \in Seq(Keys) /\ Len(order) \in Nat
      /\ r \in Seq(Keys) /\ Len(r) = Len(fresh) /\ Len(r) \in Nat
      /\ \A i \in 1 .. Len(r) : r[i] = client[fresh[i]].key
  BY KeysOfFacts DEF WindowInv
<1>3. /\ all \in Seq(Keys) /\ Len(all) = Len(order) + Len(r)
      /\ \A i \in 1 .. Len(order) : all[i] = order[i]
      /\ \A i \in Len(order) + 1 .. Len(all) : all[i] = r[i - Len(order)]
  BY <1>0a, <1>2 DEF Enters
<1>4. drop \in 0 .. Len(all)
  OBVIOUS
<1>5. \A i \in 1 .. Len(all) :
         \/ i \in 1 .. Len(order) /\ all[i] = order[i] /\ seen[all[i]] # Absent
         \/ /\ i - Len(order) \in 1 .. Len(r) /\ all[i] = r[i - Len(order)]
            /\ seen[all[i]] = Absent
  BY <1>0a, <1>2 DEF Enters
<1>6. \A i, j \in 1 .. Len(all) : all[i] = all[j] => i = j
  BY <1>0a DEF Enters
<1> HIDE DEF r
<1>7. \A key \in Range(r) : \E i \in 1 .. Len(all) : all[i] = key
  <2> TAKE key \in Range(r)
  <2>1. PICK j \in 1 .. Len(r) : r[j] = key
    BY <1>2 DEF Range
  <2>2. j + Len(order) \in Len(order) + 1 .. Len(all) /\ j + Len(order) - Len(order) = j
    BY <1>2, <1>3
  <2>3. all[j + Len(order)] = r[j + Len(order) - Len(order)]
    BY <1>3, <2>2
  <2>4. j + Len(order) \in 1 .. Len(all)
    BY <1>2, <2>2
  <2> QED
    BY <2>1, <2>2, <2>3, <2>4
<1>8. \A key \in Keys : seen[key] # Absent => \E i \in 1 .. Len(all) : all[i] = key
  <2> TAKE key \in Keys
  <2> SUFFICES ASSUME seen[key] # Absent PROVE \E i \in 1 .. Len(all) : all[i] = key
    OBVIOUS
  <2>1. PICK i \in 1 .. Len(order) : order[i] = key
    BY DEF WindowInv
  <2>2. i \in 1 .. Len(all) /\ all[i] = order[i]
    BY <1>2, <1>3
  <2> QED
    BY <2>1, <2>2
<1>9. /\ order' \in Seq(Keys) /\ Len(order') = Len(all) - drop
      /\ \A i \in 1 .. Len(order') : drop + i \in 1 .. Len(all) /\ order'[i] = all[drop + i]
  BY <1>0a DEF Enters
<1>10. file \in Seq(Seq(Keys)) /\ file # <<>> /\ file[Len(file)] = r
       /\ Len(file) \in Nat /\ Len(file) \in 1 .. Len(file) /\ visible = Len(file)
  BY <1>1 DEF Shapes, BatchRecorded, Recorded, FrontierInv, r
<1>11. \A key \in Keys : seen[key] \in 0 .. Len(file)
  BY DEF WindowInv
<1>12. seen' \in [Keys -> 0 .. Len(file')]
  BY <1>1, <1>10, <1>11 DEF Absent
<1>13. \A i, j \in 1 .. Len(order') : order'[i] = order'[j] => i = j
  <2> TAKE i, j \in 1 .. Len(order')
  <2> SUFFICES ASSUME order'[i] = order'[j] PROVE i = j
    OBVIOUS
  <2>1. drop + i = drop + j /\ drop \in Int
    BY <1>2, <1>3, <1>4, <1>6, <1>9
  <2> QED
    BY <2>1
<1>14. \A key \in Keys : seen'[key] # Absent =>
          /\ \E i \in 1 .. Len(order') : order'[i] = key
          /\ seen'[key] = LastIn(file, key) /\ seen'[key] <= visible
  <2> SUFFICES ASSUME NEW key \in Keys, seen'[key] # Absent
               PROVE  /\ \E i \in 1 .. Len(order') : order'[i] = key
                      /\ seen'[key] = LastIn(file, key) /\ seen'[key] <= visible
    OBVIOUS
  <2>1. /\ ~\E i \in 1 .. drop : all[i] = key
        /\ seen'[key] = IF key \in Range(r) THEN Len(file) ELSE seen[key]
    BY <1>1
  <2>2. PICK i \in 1 .. Len(all) : all[i] = key
    BY <1>7, <1>8, <2>1
  <2>3. i - drop \in 1 .. Len(order') /\ drop + (i - drop) = i
    <3>1. i \in Int /\ i >= 1 /\ i <= Len(all) /\ Len(all) \in Int /\ drop \in Int
      BY <1>2, <1>3, <1>4
    <3>2. i > drop
      BY <2>1, <2>2, <3>1
    <3> QED
      BY <1>9, <3>1, <3>2
  <2>4. order'[i - drop] = key
    BY <1>9, <2>2, <2>3
  <2>5. CASE key \in Range(r)
    <3>1. LastIn(file, key) = Len(file)
      <4>1. key \in Range(file[Len(file)]) /\ \A d \in 1 .. Len(file) : d <= Len(file)
        BY <1>10, <2>5
      <4> QED
        BY <1>10, <4>1, LastInIs
    <3> QED
      BY <1>10, <2>1, <2>3, <2>4, <2>5, <3>1
  <2>6. CASE key \notin Range(r)
    <3>1. seen'[key] = seen[key] /\ seen[key] # Absent
      BY <2>1, <2>6
    <3>2. seen[key] = LastIn(file, key) /\ seen[key] <= visible
      BY <3>1, LastEpochIsLastIn DEF WindowInv
    <3> QED
      BY <2>3, <2>4, <3>1, <3>2
  <2> QED
    BY <2>5, <2>6
<1>15. \A i \in 1 .. Len(order') : seen'[order'[i]] # Absent
  <2> TAKE i \in 1 .. Len(order')
  <2>1. drop + i \in 1 .. Len(all) /\ order'[i] = all[drop + i] /\ order'[i] \in Keys
    BY <1>9
  <2>2. ~\E j \in 1 .. drop : all[j] = order'[i]
    <3> SUFFICES ASSUME NEW j \in 1 .. drop, all[j] = order'[i] PROVE FALSE
      OBVIOUS
    <3>1. Len(all) \in Int /\ drop \in Int /\ drop <= Len(all) /\ i \in Int /\ i >= 1
      BY <1>2, <1>3, <1>4, <1>9
    <3>2. j \in 1 .. Len(all) /\ j # drop + i
      BY <3>1
    <3> QED
      BY <1>6, <2>1, <3>2
  <2>3. seen'[order'[i]] = IF order'[i] \in Range(r) THEN Len(file) ELSE seen[order'[i]]
    BY <1>1, <2>1, <2>2
  <2>4. CASE order'[i] \in Range(r)
    BY <1>10, <2>3, <2>4 DEF Absent
  <2>5. CASE order'[i] \notin Range(r)
    <3>1. \A j \in 1 .. Len(r) : r[j] # order'[i]
      BY <1>2, <2>5 DEF Range
    <3> QED
      BY <1>5, <2>1, <2>3, <2>5, <3>1
  <2> QED
    BY <2>4, <2>5
<1>16. \A key \in Keys : LastEpoch(key)' = LastIn(file, key)
  <2>1. \A key \in Keys : LastEpoch(key)' = LastEpoch(key)
    BY <1>1 DEF LastEpoch, EpochsOf, Committed
  <2> QED
    BY <2>1, LastEpochIsLastIn
<1>17. order' \in Seq(Keys) /\ visible' = visible
  BY <1>1, <1>9
<1> QED
  BY <1>12, <1>13, <1>14, <1>15, <1>16, <1>17 DEF WindowInv

LEMMA WindowStep ==
    ASSUME Shapes, Shapes', Waits, BatchRecorded, TInv, [Next]_vars, SealerAssumption
    PROVE  WindowInv'
<1> USE DEF TInv
<1>0. /\ file \in Seq(Seq(Keys)) /\ Len(file) \in Nat /\ visible \in Nat
      /\ visible <= Len(file)
  BY DEF Shapes
<1>1. CASE Write
  <2>1. /\ file' = Append(file, KeysOf(fresh)) /\ UNCHANGED <<seen, order, visible>>
    BY <1>1 DEF Write
  <2>2. /\ KeysOf(fresh) \in Seq(Keys)
        /\ \A key \in Range(KeysOf(fresh)) : seen[key] = Absent
    <3>1. /\ KeysOf(fresh) \in Seq(Keys) /\ Len(KeysOf(fresh)) = Len(fresh)
          /\ \A i \in 1 .. Len(fresh) : KeysOf(fresh)[i] = client[fresh[i]].key
      BY KeysOfFacts
    <3>2. \A key \in Range(KeysOf(fresh)) : \E i \in 1 .. Len(fresh) : key = client[fresh[i]].key
      BY <3>1 DEF Range
    <3> QED
      BY <3>1, <3>2 DEF BatchInv
  <2>3. Len(file') = Len(file) + 1
    BY <1>0, <2>1, <2>2, AppendProperties
  <2>4. \A key \in Keys : seen[key] # Absent => LastEpoch(key)' = LastEpoch(key)
    <3> SUFFICES ASSUME NEW key \in Keys, seen[key] # Absent
                 PROVE  LastEpoch(key)' = LastEpoch(key)
      OBVIOUS
    <3>1. key \notin Range(KeysOf(fresh))
      BY <2>2
    <3>2. LastIn(file', key) = LastIn(file, key)
      BY <1>0, <2>1, <2>2, <3>1, LastInAppend
    <3>3. LastEpoch(key)' = LastIn(file', key)
      <4>1. DOMAIN file' = 1 .. Len(file')
        BY DEF Shapes
      <4> QED
        BY <4>1 DEF LastEpoch, LastIn, EpochsOf, EpochsIn, Committed
    <3> QED
      BY <3>2, <3>3, LastEpochIsLastIn
  <2>5. seen \in [Keys -> 0 .. Len(file')]
    <3>1. \A e \in 0 .. Len(file) : e \in 0 .. Len(file')
      BY <1>0, <2>3
    <3> QED
      BY <3>1 DEF WindowInv
  <2> QED
    BY <2>1, <2>4, <2>5 DEF WindowInv
<1>2. CASE Answer
  BY <1>2, AnswerWindow
<1>3. CASE ProcessCrash \/ PowerLoss
  <2>1. seen' = [key \in Keys |-> Absent] /\ order' = <<>>
    BY <1>3 DEF ProcessCrash, PowerLoss, Die
  <2>2. Len(file') \in Nat
    BY DEF Shapes
  <2>3. \A key \in Keys : seen'[key] = Absent
    BY <2>1
  <2>4. seen' \in [Keys -> 0 .. Len(file')]
    BY <2>1, <2>2 DEF Absent
  <2>5. order' \in Seq(Keys) /\ Len(order') = 0
    BY <2>1
  <2> QED
    BY <2>3, <2>4, <2>5 DEF WindowInv
<1>4. CASE Restart
  <2>1. /\ seen' = [key \in Keys |-> LastEpoch(key)] /\ order' = RecoveredOrder
        /\ file' = file /\ visible' = Len(file)
    BY <1>4 DEF Restart, RecoverSegment
  <2>2. \A key \in Keys : LastEpoch(key) \in 0 .. Len(file) /\ LastEpoch(key)' = LastEpoch(key)
    <3>1. \A key \in Keys : LastIn(file, key) \in 0 .. Len(file)
      BY <1>0, LastInFacts
    <3>2. \A key \in Keys : LastEpoch(key)' = LastEpoch(key)
      BY <2>1 DEF LastEpoch, EpochsOf, Committed
    <3> QED
      BY <3>1, <3>2, LastEpochIsLastIn
  <2>3. /\ RecoveredOrder \in Seq(RecoveredKeys)
        /\ \A key \in RecoveredKeys : \E i \in 1 .. Len(RecoveredOrder) : RecoveredOrder[i] = key
        /\ \A i, j \in 1 .. Len(RecoveredOrder) : RecoveredOrder[i] = RecoveredOrder[j] => i = j
    BY RecoveredFacts
  <2>4. \A i \in 1 .. Len(order') : order'[i] \in RecoveredKeys
    BY <2>1, <2>3
  <2>5. order' \in Seq(Keys)
    <3>1. order' \in [1 .. Len(order') -> Keys] /\ Len(order') \in Nat
      BY <2>1, <2>3 DEF RecoveredKeys
    <3> QED
      BY <3>1
  <2>6. \A key \in Keys : seen'[key] # Absent <=> key \in RecoveredKeys
    BY <2>1 DEF RecoveredKeys
  <2>7. \A key \in Keys : seen'[key] # Absent <=> \E i \in 1 .. Len(order') : order'[i] = key
    BY <2>1, <2>3, <2>4, <2>6
  <2>8. seen' \in [Keys -> 0 .. Len(file')]
    BY <2>1, <2>2
  <2>9. \A key \in Keys : seen'[key] = LastEpoch(key)' /\ seen'[key] <= visible'
    BY <1>0, <2>1, <2>2
  <2> QED
    BY <2>1, <2>3, <2>5, <2>7, <2>8, <2>9 DEF WindowInv
<1>5. CASE Publish
  <2>1. UNCHANGED <<seen, order, file>> /\ visible' = Max({visible, Len(file)})
    BY <1>5 DEF Publish
  <2>2. visible <= visible'
    BY <1>0, <2>1, MaxOfTwo
  <2> QED
    BY <2>1, <2>2, KeptWindow
<1>6. CASE \/ \E c \in Clients, key \in Keys : Submit(c, key)
           \/ Shutdown \/ Drain \/ SealerEnds \/ WriteFails \/ AppendSync \/ AppendSyncFails
           \/ Seal \/ Sync \/ SyncFails \/ RestartFails \/ UNCHANGED vars
  <2>1. UNCHANGED <<seen, order, file, visible>>
    BY <1>6 DEF Submit, Shutdown, Drain, SealerEnds, WriteFails, AppendSync, AppendSyncFails,
                Seal, Sync, SyncFails, RestartFails, vars
  <2> QED
    BY <1>0, <2>1, KeptWindow
<1> QED
  BY <1>1, <1>2, <1>3, <1>4, <1>5, <1>6 DEF Next, Seals

LEMMA InitTyped == ASSUME Init, SealerAssumption PROVE TInv
<1>1. file = <<>> /\ Len(file) = 0 /\ Len(fresh) = 0 /\ Len(order) = 0 /\ queue = <<>>
  BY DEF Init
<1>2. Typed
  <2>1. Nothing \in Answers
    BY DEF Nothing, Answers, Outcomes
  <2>2. client \in [Clients -> Answers]
    BY <2>1 DEF Init
  <2>3. /\ policy \in Policies /\ window \in Windows /\ pc = "idle"
        /\ torn = FALSE /\ open = TRUE /\ since_sync = 0
    BY DEF Init
  <2>4. since_sync \in 0 .. Len(file) /\ \A e \in 1 .. Len(file) : file[e] # <<>>
    BY <1>1, <2>3
  <2>5. torn \in BOOLEAN /\ open \in BOOLEAN
    BY <2>3, Zenon
  <2> QED
    BY <2>2, <2>3, <2>4, <2>5, Zenon DEF Typed
<1>3. FrontierInv /\ Resting
  BY <1>1 DEF Init, FrontierInv, Resting
<1>4. BatchInv
  BY <1>1, FS_EmptySet DEF Init, BatchInv, Busy, Recorded
<1>5. AllOwed
  BY DEF Init, AllOwed, IsWaiting, Nothing
<1>6. WindowInv
  BY <1>1 DEF Init, WindowInv, Absent
<1> QED
  BY <1>2, <1>3, <1>4, <1>5, <1>6 DEF TInv

LEMMA TypedInductive == Spec => [](IInv /\ TInv)
<1>1. Init => TInv
  BY InitTyped, SealerAssumption
<1>2. IInv /\ IInv' /\ TInv /\ [Next]_vars => TInv'
  <2> SUFFICES ASSUME IInv, IInv', TInv, [Next]_vars PROVE TInv'
    OBVIOUS
  <2>1. Shapes /\ Shapes' /\ Waits /\ BatchRecorded
    BY DEF IInv
  <2>2. Typed /\ FrontierInv /\ Resting /\ BatchInv /\ AllOwed /\ WindowInv
    BY DEF TInv
  <2>3. WindowInv'
    BY <2>1, WindowStep, SealerAssumption
  <2>4. Typed' /\ FrontierInv' /\ Resting' /\ BatchInv' /\ AllOwed'
    BY <2>1, <2>2, TypedStep, FrontierStep, RestingStep, BatchStep, OwedStep, SealerAssumption
  <2> QED
    BY <2>3, <2>4 DEF TInv
<1> QED
  BY <1>1, <1>2, Inductive, PTL DEF Spec

\* A sequence without repetitions has as many members as positions.
LEMMA CountedOnce ==
    ASSUME NEW S, NEW s \in Seq(S), \A i, j \in 1 .. Len(s) : s[i] = s[j] => i = j
    PROVE  IsFiniteSet(Range(s)) /\ Cardinality(Range(s)) = Len(s)
<1>1. DOMAIN s = 1 .. Len(s) /\ Len(s) \in Nat
  OBVIOUS
<1>2. IsFiniteSet(1 .. Len(s)) /\ Cardinality(1 .. Len(s)) = Len(s)
  BY <1>1, FS_Interval
<1>3. s \in Surjection(1 .. Len(s), Range(s))
  BY <1>1 DEF Surjection, Range
<1>4. s \in Injection(1 .. Len(s), Range(s))
  BY <1>1, <1>3 DEF Surjection, Injection, IsInjective
<1> QED
  BY <1>2, <1>3, <1>4, FS_Surjection

LEMMA TypesFollow ==
    ASSUME IInv, TInv
    PROVE  TypeOK
<1> USE DEF IInv, TInv
<1>1. /\ file \in Seq(Seq(Keys)) /\ Len(file) \in Nat
      /\ queue \in Seq(Clients) /\ fresh \in Seq(Clients) /\ deferred \in SUBSET Clients
      /\ synced \in 0 .. Len(file) /\ visible \in 0 .. Len(file)
  BY DEF Shapes
<1>2. file \in Seq(Seq(Keys) \ {<<>>})
  <2>1. \A e \in 1 .. Len(file) : file[e] \in Seq(Keys) \ {<<>>}
    BY <1>1 DEF Typed
  <2> DEFINE T == Seq(Keys) \ {<<>>}
  <2> HIDE DEF T
  <2>2. \A e \in 1 .. Len(file) : file[e] \in T
    BY <2>1 DEF T
  <2>3. file \in [1 .. Len(file) -> T]
    <3>1. file = [e \in 1 .. Len(file) |-> file[e]]
      BY <1>1
    <3> QED
      BY <2>2, <3>1
  <2>4. file \in UNION {[1 .. n -> T] : n \in Nat}
    BY <1>1, <2>3, Zenon
  <2>5. file \in Seq(T)
    BY <2>4, SeqDef, Zenon
  <2> QED
    BY <2>5 DEF T
<1>3. visible \in 0 .. sealed /\ sealed \in 0 .. Len(file)
  BY <1>1 DEF FrontierInv
<1>4. /\ order \in Seq(Keys) /\ seen \in [Keys -> 0 .. Len(file)]
      /\ \A key \in Keys : seen[key] # Absent <=> \E i \in 1 .. Len(order) : order[i] = key
      /\ \A i, j \in 1 .. Len(order) : order[i] = order[j] => i = j
  BY DEF WindowInv
<1>5. Range(order) = {key \in Keys : seen[key] # Absent} /\ IsInjective(order)
  <2>1. DOMAIN order = 1 .. Len(order) /\ \A i \in 1 .. Len(order) : order[i] \in Keys
    BY <1>4
  <2> QED
    BY <1>4, <2>1 DEF Range, IsInjective
<1>6. \A i, j \in 1 .. Len(queue) : queue[i] = queue[j] => i = j
  BY DEF Waits
<1>7. \A i, j \in 1 .. Len(fresh) : fresh[i] = fresh[j] => i = j
  BY DEF BatchInv
<1>8. DOMAIN queue = 1 .. Len(queue) /\ DOMAIN fresh = 1 .. Len(fresh)
  BY <1>1
<1>9. IsInjective(queue) /\ IsInjective(fresh)
  BY <1>6, <1>7, <1>8 DEF IsInjective
<1>10. {c \in Clients : IsWaiting(c)} = Range(queue) \union BatchClients
  <2>1. \A c \in Range(queue) : c \in Clients /\ IsWaiting(c)
    BY <1>1, <1>8 DEF Range, Waits
  <2>2. \A c \in BatchClients : c \in Clients /\ IsWaiting(c)
    BY <1>1, <1>8 DEF Range, BatchClients, Waits
  <2>3. \A c \in Clients : IsWaiting(c) => c \in Range(queue) \union BatchClients
    BY <1>8 DEF AllOwed, Range
  <2> QED
    BY <2>1, <2>2, <2>3
<1>11. Len(queue) + Len(fresh) + Cardinality(deferred)
          = Cardinality({c \in Clients : IsWaiting(c)})
  <2>1. /\ IsFiniteSet(Range(queue)) /\ Cardinality(Range(queue)) = Len(queue)
        /\ IsFiniteSet(Range(fresh)) /\ Cardinality(Range(fresh)) = Len(fresh)
    BY <1>1, <1>6, <1>7, CountedOnce
  <2>2. IsFiniteSet(deferred) /\ Cardinality(deferred) \in Nat
    BY FS_CardinalityType DEF BatchInv
  <2>3. Range(fresh) \intersect deferred = {}
    BY <1>8 DEF BatchInv, Range
  <2>4. Range(queue) \intersect BatchClients = {}
    BY <1>8 DEF Waits, Range
  <2>5. IsFiniteSet(BatchClients) /\ Cardinality(BatchClients) = Len(fresh) + Cardinality(deferred)
    <3>1. Cardinality(Range(fresh) \intersect deferred) = 0
      BY <2>3, FS_EmptySet
    <3>2. /\ IsFiniteSet(Range(fresh) \union deferred)
          /\ Cardinality(Range(fresh) \union deferred) =
                Cardinality(Range(fresh)) + Cardinality(deferred)
                    - Cardinality(Range(fresh) \intersect deferred)
      BY <2>1, <2>2, FS_Union
    <3> QED
      BY <1>1, <2>1, <2>2, <3>1, <3>2 DEF BatchClients
  <2>6. Cardinality(Range(queue) \union BatchClients) = Len(queue) + Len(fresh) + Cardinality(deferred)
    <3>1. Cardinality(Range(queue) \intersect BatchClients) = 0
      BY <2>4, FS_EmptySet
    <3>2. Cardinality(Range(queue) \union BatchClients) =
                Cardinality(Range(queue)) + Cardinality(BatchClients)
                    - Cardinality(Range(queue) \intersect BatchClients)
      BY <2>1, <2>5, FS_Union
    <3>3. Len(queue) \in Nat /\ Len(fresh) \in Nat
      BY <1>1
    <3> QED
      BY <2>1, <2>2, <2>5, <3>1, <3>2, <3>3
  <2> QED
    BY <1>10, <2>6
<1> QED
  BY <1>1, <1>2, <1>3, <1>4, <1>5, <1>9, <1>10, <1>11 DEF TypeOK, Typed, Answers

\* The state of the write path is well formed, the window's two forms list the
\* same keys, and each waiting submitter is owed one answer, from the channel or
\* from the batch (the sealer thread of Sequencer::start_gated).
THEOREM Types == Spec => []TypeOK
<1>1. IInv /\ TInv => TypeOK
  BY TypesFollow
<1> QED
  BY <1>1, TypedInductive, PTL

\* A member of the batch is in its record, and that record is the last.
LEMMA BatchIsLast ==
    ASSUME Shapes, Waits, BatchRecorded, BatchInv, Recorded, NEW c \in BatchClients
    PROVE  c \in Clients /\ LastEpoch(client[c].key) = Len(file)
<1>1. /\ file \in Seq(Seq(Keys)) /\ Len(file) \in 1 .. Len(file)
      /\ file[Len(file)] = KeysOf(fresh)
  BY DEF Shapes, BatchRecorded
<1>2. PICK i \in 1 .. Len(fresh) : client[fresh[i]].key = client[c].key
  <2>1. CASE c \in Range(fresh)
    <3>1. DOMAIN fresh = 1 .. Len(fresh)
      BY DEF Shapes
    <3> QED
      BY <2>1, <3>1 DEF Range
  <2>2. CASE c \in deferred
    BY <2>2 DEF BatchInv
  <2> QED
    BY <2>1, <2>2 DEF BatchClients
<1>3. client[c].key \in Range(KeysOf(fresh))
  <2>1. DOMAIN KeysOf(fresh) = 1 .. Len(fresh) /\ KeysOf(fresh)[i] = client[fresh[i]].key
    BY KeysOfFacts
  <2> QED
    BY <1>2, <2>1 DEF Range
<1>4. LastIn(file, client[c].key) = Len(file)
  <2>1. \A d \in 1 .. Len(file) : d <= Len(file)
    BY <1>1
  <2> QED
    BY <1>1, <1>3, <2>1, LastInIs
<1>5. c \in Clients
  BY DEF BatchClients, Range, Shapes
<1> QED
  BY <1>4, <1>5, LastEpochIsLastIn

\* What a submitter is told is true when it is told, whether its key commits now,
\* is a second copy in the batch, or was remembered by the window through crashes
\* and failed syncs (Sequencer::start_gated and open_bounded).
THEOREM TellsTheTruth == Spec => RepliesTrue
<1>1. ASSUME IInv, TInv, [Next]_vars, NEW c \in Clients, IsWaiting(c),
             client'[c].st \in {"ok", "duplicate"}
      PROVE  client'[c].epoch <= visible' /\ client'[c].epoch = LastEpoch(client[c].key)'
  <2> USE <1>1 DEF IInv, TInv, IsWaiting
  <2>1. Drain \/ Answer
    <3>1. ASSUME NEW d \in Clients, NEW key \in Keys, Submit(d, key)
          PROVE  FALSE
      BY <3>1, SubmitFacts
    <3>2. CASE SealerEnds \/ WriteFails \/ AppendSyncFails \/ SyncFails
      BY <3>2 DEF SealerEnds, WriteFails, AppendSyncFails, SyncFails, Stop, HangUp,
                  IoReplies, Reply
    <3>3. CASE ProcessCrash \/ PowerLoss
      BY <3>3 DEF ProcessCrash, PowerLoss, Die, Nothing
    <3>4. CASE \/ Write \/ AppendSync \/ Seal \/ Sync \/ Publish
               \/ Shutdown \/ Restart \/ RestartFails \/ UNCHANGED vars
      BY <3>4 DEF Write, AppendSync, Seal, Sync, Publish, Shutdown, Restart,
                  RestartFails, vars
    <3> QED
      BY <3>1, <3>2, <3>3, <3>4 DEF Next, Seals
  <2>2. UNCHANGED <<file, visible>>
    BY <2>1 DEF Drain, Answer
  <2>3. LastEpoch(client[c].key)' = LastIn(file, client'[c].key)
        /\ client'[c].key = client[c].key
    <3>1. client'[c].key = client[c].key
      BY <2>1 DEF Drain, Answer, Reply
    <3>2. DOMAIN file = 1 .. Len(file)
      BY DEF Shapes
    <3> QED
      BY <2>2, <3>1, <3>2 DEF LastEpoch, LastIn, EpochsOf, EpochsIn, Committed
  <2>4. LastEpoch(client[c].key) = LastIn(file, client[c].key)
    BY LastEpochIsLastIn
  <2>5. CASE Drain
    <3>1. PICK n \in 1 .. Len(queue), new \in SUBSET (1 .. Len(queue)) :
            DrainedAs(n, new) /\ AnsweredAs(n, new)
      BY <2>5, DrainFacts, SealerAssumption
    <3>2. PICK i \in (1 .. n) \ new : c = queue[i]
      BY <3>1 DEF DrainedAs
    <3>3. /\ seen[client[c].key] # Absent
          /\ client'[c].epoch = seen[client[c].key]
      BY <3>1, <3>2 DEF AnsweredAs
    <3>4. client[c].key \in Keys
      BY DEF Waits
    <3> QED
      BY <2>2, <2>3, <2>4, <3>3, <3>4 DEF WindowInv
  <2>6. CASE Answer
    <3>1. c \in BatchClients /\ client'[c].epoch = Len(file)
      BY <2>6 DEF Answer, BatchClients, Reply
    <3>2. LastEpoch(client[c].key) = Len(file)
      BY <2>6, <3>1, BatchIsLast DEF Answer, Recorded
    <3>3. visible = Len(file) /\ Len(file) \in Nat
      BY <2>6 DEF Answer, FrontierInv, Shapes
    <3> QED
      BY <2>2, <2>3, <2>4, <3>1, <3>2, <3>3
  <2> QED
    BY <2>1, <2>5, <2>6
<1>2. IInv /\ TInv /\ [Next]_vars =>
        \A c \in Clients :
            IsWaiting(c) /\ client'[c].st \in {"ok", "duplicate"} =>
                /\ client'[c].epoch <= visible'
                /\ client'[c].epoch = LastEpoch(client[c].key)'
  BY <1>1
<1> QED
  BY <1>2, TypedInductive, PTL DEF Spec, RepliesTrue

(***************************************************************************)
(* What the idempotency window is for: under the Always policy a key       *)
(* commits again only after as many transactions as the window holds.  The *)
(* invariant says that the window is listed by epoch of commit, and that   *)
(* of the history it speaks for, which is all of it but for the batch that *)
(* is being committed, it has forgotten a key only when more transactions  *)
(* than it may hold have committed since.  A key that leaves it is older   *)
(* than all those that stay, and they are that many.                       *)
(***************************************************************************)

InRecord(key, e) == e \in 1 .. Len(file) /\ key \in Range(file[e])

\* The epochs that the window speaks for.
Answered == IF Recorded THEN Len(file) - 1 ELSE Len(file)

\* Have more transactions committed in some epochs than the window may hold?
Outgrown(from, to) == OverWindow(TransactionsIn(from, to))

RepeatsFar ==
    /\ \A e \in 1 .. Len(file) : IsInjective(file[e])
    /\ \A key \in Keys : \A e, f \in 1 .. Len(file) :
          e < f /\ InRecord(key, e) /\ InRecord(key, f) => Outgrown(e, f - 1)

ForgottenFar ==
    \A key \in Keys : \A e \in 1 .. Answered :
        InRecord(key, e) /\ seen[key] = Absent => Outgrown(e, Answered)

OldestFirst == \A i, j \in 1 .. Len(order) : i <= j => seen[order[i]] <= seen[order[j]]

FarInv ==
    /\ OldestFirst
    /\ policy = Always =>
          /\ pc # "sync"
          /\ RepeatsFar
          /\ pc \notin {"stopped", "down"} => ForgottenFar

\* The transactions of some epochs of a history, by their places.
Places(f, from, to) == UNION {{e} \X DOMAIN f[e] : e \in from .. to}

LEMMA PlacesFinite ==
    ASSUME NEW f \in Seq(Seq(Keys)), NEW from \in Int, NEW to \in Int, 1 <= from, to <= Len(f)
    PROVE  IsFiniteSet(Places(f, from, to)) /\ Cardinality(Places(f, from, to)) \in Nat
<1> DEFINE parts == {{e} \X DOMAIN f[e] : e \in from .. to}
           g == [e \in from .. to |-> {e} \X DOMAIN f[e]]
<1>1. \A e \in from .. to : IsFiniteSet({e} \X DOMAIN f[e])
  <2> TAKE e \in from .. to
  <2>1. f[e] \in Seq(Keys)
    OBVIOUS
  <2>2. DOMAIN f[e] = 1 .. Len(f[e]) /\ Len(f[e]) \in Nat
    BY <2>1
  <2> DEFINE n == Len(f[e])
  <2>3. IsFiniteSet(1 .. n)
    <3>1. n \in Int
      BY <2>2
    <3> HIDE DEF n
    <3> QED
      BY <3>1, FS_Interval
  <2>4. IsFiniteSet(DOMAIN f[e])
    BY <2>2, <2>3
  <2>5. IsFiniteSet({e})
    BY FS_Singleton
  <2> QED
    BY <2>4, <2>5, FS_Product
<1>2. IsFiniteSet(from .. to)
  BY FS_Interval
<1>3. g \in Surjection(from .. to, parts)
  BY DEF Surjection
<1> HIDE DEF g
<1>4. \A part \in parts : IsFiniteSet(part)
  BY <1>1
<1> HIDE DEF parts
<1>5. IsFiniteSet(UNION parts)
  BY <1>2, <1>3, <1>4, FS_Surjection, FS_UNION
<1>6. IsFiniteSet(Places(f, from, to))
  BY <1>5 DEF Places, parts
<1> QED
  BY <1>6, FS_CardinalityType

LEMMA MorePlaces ==
    ASSUME NEW f \in Seq(Seq(Keys)), NEW from \in Int, NEW to \in Int,
           NEW a \in Int, NEW b \in Int, 1 <= from, from <= a, b <= to, to <= Len(f)
    PROVE  Cardinality(Places(f, a, b)) <= Cardinality(Places(f, from, to))
<1>1. IsFiniteSet(Places(f, from, to))
  BY PlacesFinite
<1>2. \A e \in a .. b : e \in from .. to
  OBVIOUS
<1>3. Places(f, a, b) \in SUBSET Places(f, from, to)
  BY <1>2 DEF Places
<1> QED
  BY <1>1, <1>3, FS_Subset

LEMMA SamePlaces ==
    ASSUME NEW f, NEW g, NEW from, NEW to, \A e \in from .. to : g[e] = f[e]
    PROVE  Places(g, from, to) = Places(f, from, to)
BY DEF Places

\* Keys that are each in a record of some epochs are no more than its transactions.
LEMMA KeysHavePlaces ==
    ASSUME NEW f \in Seq(Seq(Keys)), NEW from \in Int, NEW to \in Int, 1 <= from, to <= Len(f),
           NEW K, \A key \in K : \E e \in from .. to : key \in Range(f[e])
    PROVE  Cardinality(K) <= Cardinality(Places(f, from, to))
<1> DEFINE P == Places(f, from, to)
           H == {p \in P : f[p[1]][p[2]] \in K}
           h == [p \in H |-> f[p[1]][p[2]]]
<1>1. IsFiniteSet(P) /\ Cardinality(P) \in Nat
  BY PlacesFinite
<1>2. IsFiniteSet(H) /\ Cardinality(H) <= Cardinality(P) /\ Cardinality(H) \in Nat
  <2>1. H \in SUBSET P
    OBVIOUS
  <2> HIDE DEF H, P
  <2> QED
    BY <1>1, <2>1, FS_Subset, FS_CardinalityType
<1>3. \A key \in K : \E p \in H : h[p] = key
  <2> TAKE key \in K
  <2>1. PICK e \in from .. to : key \in Range(f[e])
    OBVIOUS
  <2>2. PICK i \in DOMAIN f[e] : f[e][i] = key
    BY <2>1 DEF Range
  <2>3. <<e, i>> \in P
    BY <2>2 DEF Places
  <2>4. <<e, i>> \in H
    BY <2>2, <2>3
  <2> QED
    BY <2>2, <2>4
<1>4. h \in Surjection(H, K)
  <2>1. h \in [H -> K]
    OBVIOUS
  <2> HIDE DEF h, H
  <2> QED
    BY <1>3, <2>1 DEF Surjection
<1>5. IsFiniteSet(K) /\ Cardinality(K) <= Cardinality(H)
  <2> HIDE DEF h, H
  <2> QED
    BY <1>2, <1>4, FS_Surjection
<1>6. Cardinality(K) \in Nat
  BY <1>5, FS_CardinalityType
<1> HIDE DEF H, P
<1>7. Cardinality(K) <= Cardinality(P)
  BY <1>1, <1>2, <1>5, <1>6
<1> QED
  BY <1>7 DEF P

LEMMA OverWindowGrows ==
    ASSUME Typed, SealerAssumption, NEW m \in Int, NEW n \in Int, m <= n, OverWindow(m)
    PROVE  OverWindow(n)
<1>1. window \in Nat
  BY DEF Typed, SealerAssumption
<1> DEFINE w == Max({window, 1})
<1>2. w \in {window, 1}
  BY <1>1, MaxOfTwo
<1>3. window # NoWindow /\ m > w
  BY DEF OverWindow
<1> HIDE DEF w
<1>4. n > w
  BY <1>1, <1>2, <1>3
<1> QED
  BY <1>3, <1>4 DEF OverWindow, w

\* What a history of more transactions allows, a longer one does.
LEMMA FartherStill ==
    ASSUME Shapes, Typed, SealerAssumption, NEW a \in Int, NEW b \in Int, NEW from \in Int,
           NEW to \in Int, 1 <= from, from <= a, b <= to, to <= Len(file),
           Outgrown(a, b)
    PROVE  Outgrown(from, to)
<1>1. file \in Seq(Seq(Keys)) /\ Len(file) \in Nat
  BY DEF Shapes
<1>2. Cardinality(Places(file, a, b)) <= Cardinality(Places(file, from, to))
  BY <1>1, MorePlaces
<1>3. Cardinality(Places(file, a, b)) \in Nat /\ Cardinality(Places(file, from, to)) \in Nat
  BY <1>1, PlacesFinite
<1> QED
  BY <1>2, <1>3, OverWindowGrows DEF Outgrown, TransactionsIn, Places

LEMMA SameHistory ==
    ASSUME UNCHANGED <<window, file>>
    PROVE  /\ \A from, to : Outgrown(from, to)' <=> Outgrown(from, to)
           /\ \A key, e : InRecord(key, e)' <=> InRecord(key, e)
BY DEF Outgrown, OverWindow, TransactionsIn, InRecord

\* A step that leaves the history and the window alone keeps FarInv, as long as
\* the window speaks for no more than before.
LEMMA KeptFar ==
    ASSUME FarInv, UNCHANGED <<policy, window, file, seen, order>>,
           policy = Always =>
              \/ pc' = pc \/ pc' \in {"stopped", "down"}
              \/ pc' # "sync" /\ pc \notin {"stopped", "down"} /\ (Recorded' <=> Recorded)
    PROVE  FarInv'
<1>0. /\ \A from, to : Outgrown(from, to)' <=> Outgrown(from, to)
      /\ \A key, e : InRecord(key, e)' <=> InRecord(key, e)
  BY SameHistory
<1>1. OldestFirst'
  BY DEF FarInv, OldestFirst
<1>2. RepeatsFar => RepeatsFar'
  BY <1>0 DEF RepeatsFar
<1>3. (Recorded' <=> Recorded) => Answered' = Answered
  BY DEF Answered
<1>4. Answered' = Answered /\ ForgottenFar => ForgottenFar'
  BY <1>0 DEF ForgottenFar
<1>5. ASSUME policy' = Always
      PROVE  pc' # "sync" /\ RepeatsFar' /\ (pc' \notin {"stopped", "down"} => ForgottenFar')
  <2>1. policy = Always /\ pc # "sync" /\ RepeatsFar
    BY <1>5 DEF FarInv
  <2>2. CASE pc' \in {"stopped", "down"}
    BY <1>2, <2>1, <2>2
  <2>3. CASE pc' \notin {"stopped", "down"} /\ pc' = pc
    <3>1. Recorded' <=> Recorded
      BY <2>3 DEF Recorded
    <3> QED
      BY <1>2, <1>3, <1>4, <2>1, <2>3, <3>1 DEF FarInv
  <2>4. CASE pc' # "sync" /\ pc \notin {"stopped", "down"} /\ (Recorded' <=> Recorded)
    BY <1>2, <1>3, <1>4, <2>1, <2>4 DEF FarInv
  <2> QED
    BY <2>1, <2>2, <2>3, <2>4
<1> QED
  BY <1>1, <1>5 DEF FarInv

\* The last epochs of what is in the window or enters it, in the order listed.
LEMMA AnswerAges ==
    ASSUME Shapes, Waits, BatchRecorded, TInv, OldestFirst, Answer,
           NEW all \in Seq(Keys), NEW drop \in 0 .. Len(all), Enters(all, drop)
    PROVE  /\ \A i \in 1 .. Len(all) : /\ LastIn(file, all[i]) \in 1 .. Len(file)
                                       /\ all[i] \in Range(file[LastIn(file, all[i])])
           /\ \A i, j \in 1 .. Len(all) :
                 i <= j => LastIn(file, all[i]) <= LastIn(file, all[j])
<1> USE DEF TInv
<1>1. /\ file \in Seq(Seq(Keys)) /\ Len(file) \in Nat /\ Len(file) >= 1
      /\ file[Len(file)] = KeysOf(fresh) /\ Len(order) \in Nat
  BY DEF Shapes, Answer, BatchRecorded, Recorded, WindowInv
<1>2. \A i \in 1 .. Len(order) :
         all[i] = order[i] /\ LastIn(file, all[i]) = seen[order[i]] /\ seen[order[i]] # Absent
  <2> TAKE i \in 1 .. Len(order)
  <2>1. all[i] = order[i] /\ order[i] \in Keys
    <3>1. order \in Seq(Keys)
      BY DEF WindowInv
    <3>2. all[i] = order[i]
      BY DEF Enters
    <3> QED
      BY <3>1, <3>2
  <2>2. seen[order[i]] # Absent
    BY <2>1 DEF WindowInv
  <2>3. seen[order[i]] = LastEpoch(order[i])
    BY <2>1, <2>2 DEF WindowInv
  <2> QED
    BY <2>1, <2>2, <2>3, LastEpochIsLastIn
<1>3. \A i \in 1 .. Len(all) : i \notin 1 .. Len(order) => LastIn(file, all[i]) = Len(file)
  <2> TAKE i \in 1 .. Len(all)
  <2> SUFFICES ASSUME i \notin 1 .. Len(order) PROVE LastIn(file, all[i]) = Len(file)
    OBVIOUS
  <2> DEFINE j == i - Len(order)
  <2>1. j \in 1 .. Len(fresh) /\ all[i] = KeysOf(fresh)[j]
    BY DEF Enters
  <2>2. DOMAIN KeysOf(fresh) = 1 .. Len(fresh)
    BY KeysOfFacts
  <2> HIDE DEF j
  <2>3. all[i] \in Range(file[Len(file)])
    BY <1>1, <2>1, <2>2 DEF Range
  <2>4. Len(file) \in 1 .. Len(file) /\ \A d \in 1 .. Len(file) : d <= Len(file)
    BY <1>1
  <2> QED
    BY <1>1, <2>3, <2>4, LastInIs
<1>4. \A i \in 1 .. Len(all) : LastIn(file, all[i]) \in 0 .. Len(file)
  BY <1>1, LastInFacts
<1>5. ASSUME NEW i \in 1 .. Len(all)
      PROVE  /\ LastIn(file, all[i]) \in 1 .. Len(file)
             /\ all[i] \in Range(file[LastIn(file, all[i])])
  <2>1. LastIn(file, all[i]) # Absent
    <3>1. CASE i \in 1 .. Len(order)
      BY <1>2, <3>1
    <3>2. CASE i \notin 1 .. Len(order)
      BY <1>1, <1>3, <3>2 DEF Absent
    <3> QED
      BY <3>1, <3>2
  <2>2. all[i] \in Range(file[LastIn(file, all[i])])
    BY <1>1, <2>1, LastInFacts
  <2>3. LastIn(file, all[i]) \in 0 .. Len(file)
    BY <1>4
  <2> QED
    BY <1>1, <2>1, <2>2, <2>3 DEF Absent
<1>6. ASSUME NEW i \in 1 .. Len(all), NEW j \in 1 .. Len(all), i <= j
      PROVE  LastIn(file, all[i]) <= LastIn(file, all[j])
  <2>0. i \in Nat /\ i >= 1 /\ j \in Nat
    OBVIOUS
  <2>1. CASE j \in 1 .. Len(order)
    <3>1. i \in 1 .. Len(order)
      BY <1>1, <1>6, <2>0, <2>1
    <3>2. seen[order[i]] <= seen[order[j]]
      BY <1>6, <2>1, <3>1 DEF OldestFirst
    <3> QED
      BY <1>2, <2>1, <3>1, <3>2
  <2>2. CASE j \notin 1 .. Len(order)
    <3>1. LastIn(file, all[j]) = Len(file)
      BY <1>3, <2>2
    <3>2. LastIn(file, all[i]) \in 0 .. Len(file)
      BY <1>4
    <3> QED
      BY <1>1, <3>1, <3>2
  <2> QED
    BY <2>1, <2>2
<1> QED
  BY <1>5, <1>6

\* Whatever leaves the window is older than what stays, and what stays with it
\* is more than the window may hold: so many transactions have committed since.
LEMMA LeavesWhenOld ==
    ASSUME Shapes, Waits, BatchRecorded, TInv, OldestFirst, Answer, SealerAssumption,
           NEW all \in Seq(Keys), NEW drop \in 0 .. Len(all), Enters(all, drop),
           NEW i \in 1 .. drop, NEW e \in 1 .. Len(file), all[i] \in Range(file[e])
    PROVE  Outgrown(e, Len(file))
<1>1. file \in Seq(Seq(Keys)) /\ Len(file) \in Nat /\ Len(all) \in Nat
  BY DEF Shapes
<1>2. /\ i \in Nat /\ i >= 1 /\ i <= drop /\ drop <= Len(all) /\ drop \in Nat
      /\ drop > 0 /\ i \in 1 .. Len(all) /\ e \in Nat /\ e >= 1
  BY <1>1
<1> DEFINE age(j) == LastIn(file, all[j])
           K == {all[j] : j \in i .. Len(all)}
           g == [j \in i .. Len(all) |-> all[j]]
<1>3. /\ \A j \in 1 .. Len(all) : age(j) \in 1 .. Len(file) /\ all[j] \in Range(file[age(j)])
      /\ \A j, k \in 1 .. Len(all) : j <= k => age(j) <= age(k)
  BY AnswerAges
<1>4. age(i) \in 1 .. Len(file) /\ e <= age(i)
  BY <1>1, <1>2, <1>3, LastInFacts
<1> HIDE DEF age
<1>5. \A key \in K : \E d \in age(i) .. Len(file) : key \in Range(file[d])
  <2> SUFFICES ASSUME NEW j \in i .. Len(all)
               PROVE  \E d \in age(i) .. Len(file) : all[j] \in Range(file[d])
    OBVIOUS
  <2>1. j \in 1 .. Len(all) /\ i <= j
    BY <1>1, <1>2
  <2>2. age(j) \in 1 .. Len(file) /\ all[j] \in Range(file[age(j)]) /\ age(i) <= age(j)
    BY <1>2, <1>3, <2>1
  <2>3. age(j) \in age(i) .. Len(file)
    BY <1>1, <1>4, <2>2
  <2> QED
    BY <2>2, <2>3
<1>6. Cardinality(K) = Len(all) - i + 1
  <2>1. \A j, k \in i .. Len(all) : all[j] = all[k] => j = k
    <3> TAKE j, k \in i .. Len(all)
    <3>1. j \in 1 .. Len(all) /\ k \in 1 .. Len(all)
      BY <1>1, <1>2
    <3> QED
      BY <3>1 DEF Enters
  <2>2. g \in Surjection(i .. Len(all), K)
    BY DEF Surjection
  <2>3. g \in Injection(i .. Len(all), K)
    BY <2>1 DEF Injection, IsInjective
  <2>4. IsFiniteSet(i .. Len(all)) /\ Cardinality(i .. Len(all)) = Len(all) - i + 1
    BY <1>1, <1>2, FS_Interval
  <2> HIDE DEF g, K
  <2> QED
    BY <2>2, <2>3, <2>4, FS_Surjection
<1>7. Cardinality(K) <= Cardinality(Places(file, age(i), Len(file)))
  <2>1. age(i) \in Int /\ Len(file) \in Int /\ 1 <= age(i) /\ Len(file) <= Len(file)
    BY <1>1, <1>4
  <2> HIDE DEF K
  <2> QED
    BY <1>1, <1>5, <2>1, KeysHavePlaces
<1>8. OverWindow(Len(all) - drop + 1)
  BY <1>2 DEF Enters
<1>9. Cardinality(Places(file, age(i), Len(file))) \in Nat
  BY <1>1, <1>4, PlacesFinite
<1> HIDE DEF K
<1>10. Len(all) - drop + 1 <= Cardinality(Places(file, age(i), Len(file)))
  BY <1>1, <1>2, <1>6, <1>7, <1>9
<1>11. OverWindow(Cardinality(Places(file, age(i), Len(file))))
  <2>1. Len(all) - drop + 1 \in Int
    BY <1>1, <1>2
  <2> QED
    BY <1>8, <1>9, <1>10, <2>1, OverWindowGrows DEF TInv
<1>12. Outgrown(age(i), Len(file))
  BY <1>11 DEF Outgrown, TransactionsIn, Places
<1> QED
  BY <1>1, <1>2, <1>4, <1>12, FartherStill DEF TInv

LEMMA AnswerFar ==
    ASSUME Shapes, Waits, BatchRecorded, TInv, TInv', FarInv, Answer, SealerAssumption
    PROVE  FarInv'
<1> USE DEF TInv
<1>1. PICK all \in Seq(Keys) : \E drop \in 0 .. Len(all) : Enters(all, drop)
  BY AnswerFacts
<1>2. PICK drop \in 0 .. Len(all) : Enters(all, drop)
  BY <1>1
<1>3. UNCHANGED <<policy, window, file>> /\ pc = "answer" /\ pc' = "idle"
  BY DEF Answer
<1>4. /\ file \in Seq(Seq(Keys)) /\ Len(file) \in Nat /\ Len(file) >= 1
      /\ file[Len(file)] = KeysOf(fresh) /\ Len(all) \in Nat
  BY <1>3 DEF Shapes, BatchRecorded, Recorded
<1>5. OldestFirst'
  <2> SUFFICES ASSUME NEW i \in 1 .. Len(order'), NEW j \in 1 .. Len(order'), i <= j
               PROVE  seen'[order'[i]] <= seen'[order'[j]]
    BY DEF OldestFirst
  <2>0. \A key \in Keys : seen'[key] # Absent => seen'[key] = LastIn(file, key)
    <3>1. \A key \in Keys : seen'[key] # Absent => seen'[key] = LastEpoch(key)'
      BY DEF WindowInv
    <3>2. \A key \in Keys : LastEpoch(key)' = LastEpoch(key)
      BY <1>3 DEF LastEpoch, EpochsOf, Committed
    <3> QED
      BY <3>1, <3>2, LastEpochIsLastIn
  <2>1. \A k \in 1 .. Len(order') :
           /\ drop + k \in 1 .. Len(all) /\ order'[k] = all[drop + k]
           /\ seen'[order'[k]] = LastIn(file, all[drop + k])
    <3> TAKE k \in 1 .. Len(order')
    <3>1. drop + k \in 1 .. Len(all) /\ order'[k] = all[drop + k] /\ order'[k] \in Keys
      BY <1>2 DEF Enters
    <3>2. seen'[order'[k]] # Absent
      BY <3>1 DEF WindowInv
    <3>3. seen'[order'[k]] = LastIn(file, order'[k])
      BY <2>0, <3>1, <3>2
    <3> QED
      BY <3>1, <3>3
  <2>2. drop + i <= drop + j
    BY <1>4
  <2>3. LastIn(file, all[drop + i]) <= LastIn(file, all[drop + j])
    BY <1>2, <2>1, <2>2, AnswerAges DEF FarInv
  <2> QED
    BY <2>1, <2>3
<1>6. ASSUME policy' = Always PROVE RepeatsFar' /\ ForgottenFar'
  <2>1. policy = Always /\ RepeatsFar /\ ForgottenFar
    BY <1>3, <1>6 DEF FarInv
  <2>0. /\ \A from, to : Outgrown(from, to)' <=> Outgrown(from, to)
        /\ \A key, e : InRecord(key, e)' <=> InRecord(key, e)
    BY <1>3, SameHistory
  <2>2. RepeatsFar'
    BY <1>3, <2>0, <2>1 DEF RepeatsFar
  <2>3. Answered = Len(file) - 1 /\ Answered' = Len(file)
    BY <1>3 DEF Answered, Recorded
  <2>4. ASSUME NEW key \in Keys, NEW e \in 1 .. Len(file), InRecord(key, e), seen'[key] = Absent
        PROVE  Outgrown(e, Len(file))
    <3>1. CASE \E i \in 1 .. drop : all[i] = key
      <4>1. PICK i \in 1 .. drop : all[i] = key
        BY <3>1
      <4> QED
        BY <1>2, <2>4, <4>1, LeavesWhenOld DEF InRecord, FarInv
    <3>2. CASE ~\E i \in 1 .. drop : all[i] = key
      <4>1. seen'[key] = IF key \in Range(KeysOf(fresh)) THEN Len(file) ELSE seen[key]
        BY <1>2, <3>2 DEF Enters
      <4>2. seen[key] = Absent /\ key \notin Range(KeysOf(fresh))
        BY <1>4, <2>4, <4>1 DEF Absent
      <4>3. e # Len(file)
        BY <1>4, <2>4, <4>2 DEF InRecord
      <4>4. e \in 1 .. Answered /\ Answered \in Nat /\ Answered <= Len(file)
        BY <1>4, <2>3, <4>3
      <4>5. Outgrown(e, Answered)
        BY <2>1, <2>4, <4>2, <4>4 DEF ForgottenFar
      <4>6. e \in Int /\ 1 <= e /\ e <= e /\ Len(file) \in Int /\ Answered \in Int
        BY <1>4, <4>4
      <4> QED
        BY <4>4, <4>5, <4>6, FartherStill
    <3> QED
      BY <3>1, <3>2
  <2>5. ForgottenFar'
    BY <1>3, <2>0, <2>3, <2>4 DEF ForgottenFar
  <2> QED
    BY <2>2, <2>5
<1> QED
  BY <1>3, <1>5, <1>6 DEF FarInv

\* The batch is of keys that are new to the window; if one has committed before,
\* the window has forgotten it, and so it may again.
LEMMA WriteFar ==
    ASSUME Shapes, Shapes', Waits, TInv, FarInv, Write, SealerAssumption
    PROVE  FarInv'
<1> DEFINE record == KeysOf(fresh)
<1>1. /\ UNCHANGED <<policy, window, seen, order>> /\ pc = "write"
      /\ pc' \in {"append_sync", "appended"} /\ file' = Append(file, record)
  BY DEF Write
<1>2. record \in Seq(Keys) /\ Len(record) = Len(fresh)
      /\ \A i \in 1 .. Len(fresh) : record[i] = client[fresh[i]].key
  BY KeysOfFacts
<1> HIDE DEF record
<1>3. /\ file \in Seq(Seq(Keys)) /\ Len(file) \in Nat /\ Len(file') = Len(file) + 1
      /\ \A e \in 1 .. Len(file) : file'[e] = file[e]
      /\ file'[Len(file) + 1] = record
  <2>1. file \in Seq(Seq(Keys))
    BY DEF Shapes
  <2> QED
    BY <1>1, <1>2, <2>1, AppendProperties
<1>4. OldestFirst'
  BY <1>1 DEF FarInv, OldestFirst
<1>5. \A key \in Range(record) : key \in Keys /\ seen[key] = Absent
  BY <1>2 DEF TInv, BatchInv, Range
<1>6. IsInjective(record)
  BY <1>2 DEF TInv, BatchInv, IsInjective
<1>7. \A key : \A e \in 1 .. Len(file') :
         InRecord(key, e)' <=> \/ e \in 1 .. Len(file) /\ InRecord(key, e)
                               \/ e = Len(file) + 1 /\ key \in Range(record)
  BY <1>3 DEF InRecord
<1>8. ASSUME NEW e \in Nat, e >= 1, NEW to \in Nat, to <= Len(file), Outgrown(e, to)
      PROVE  Outgrown(e, to)'
  <2>1. \A d \in e .. to : file'[d] = file[d]
    <3> TAKE d \in e .. to
    <3>1. d \in 1 .. Len(file)
      BY <1>3, <1>8
    <3> QED
      BY <1>3, <3>1
  <2>2. Places(file', e, to) = Places(file, e, to)
    BY <2>1, SamePlaces
  <2>3. TransactionsIn(e, to)' = TransactionsIn(e, to)
    BY <2>2 DEF TransactionsIn, Places
  <2> QED
    BY <1>1, <1>8, <2>3 DEF Outgrown, OverWindow
<1>9. ASSUME policy' = Always PROVE RepeatsFar' /\ ForgottenFar'
  <2>1. RepeatsFar /\ ForgottenFar
    BY <1>1, <1>9 DEF FarInv
  <2>2. Answered = Len(file) /\ Answered' = Len(file)
    BY <1>1, <1>3 DEF Answered, Recorded
  <2>3. \A e \in 1 .. Len(file') : IsInjective(file'[e])
    <3> TAKE e \in 1 .. Len(file')
    <3>1. CASE e \in 1 .. Len(file)
      BY <1>3, <2>1, <3>1 DEF RepeatsFar
    <3>2. CASE e = Len(file) + 1
      BY <1>3, <1>6, <3>2
    <3> QED
      BY <1>3, <3>1, <3>2
  <2>4. ASSUME NEW key \in Keys, NEW e \in 1 .. Len(file'), NEW f \in 1 .. Len(file'), e < f,
               InRecord(key, e)', InRecord(key, f)'
        PROVE  Outgrown(e, f - 1)'
    <3>1. e \in 1 .. Len(file) /\ e \in Nat /\ e >= 1 /\ f - 1 \in Nat /\ f - 1 <= Len(file)
      BY <1>3, <2>4
    <3>2. InRecord(key, e)
      BY <1>3, <1>7, <2>4, <3>1
    <3>3. CASE f \in 1 .. Len(file)
      <4>1. InRecord(key, f)
        BY <1>3, <1>7, <2>4, <3>3
      <4>2. Outgrown(e, f - 1)
        BY <2>1, <2>4, <3>1, <3>2, <3>3, <4>1 DEF RepeatsFar
      <4> QED
        BY <1>8, <3>1, <4>2
    <3>4. CASE f = Len(file) + 1
      <4>1. seen[key] = Absent
        BY <1>3, <1>5, <1>7, <2>4, <3>4
      <4>2. f - 1 = Len(file)
        BY <1>3, <3>4
      <4>3. Outgrown(e, f - 1)
        BY <2>1, <2>2, <3>1, <3>2, <4>1, <4>2 DEF ForgottenFar
      <4> QED
        BY <1>8, <3>1, <4>3
    <3> QED
      BY <1>3, <3>3, <3>4
  <2>5. RepeatsFar'
    BY <2>3, <2>4 DEF RepeatsFar
  <2>6. PICK n \in Nat : n = Len(file) /\ Answered' = n
    BY <1>3, <2>2
  <2>7. ASSUME NEW key \in Keys, NEW e \in 1 .. n, InRecord(key, e)', seen[key] = Absent
        PROVE  Outgrown(e, n)'
    <3>1. e \in Nat /\ e >= 1 /\ e \in 1 .. Len(file') /\ e # Len(file) + 1
      BY <1>3, <2>6
    <3>2. InRecord(key, e)
      BY <1>7, <2>7, <3>1
    <3>3. Outgrown(e, n)
      BY <2>1, <2>2, <2>6, <2>7, <3>2 DEF ForgottenFar
    <3> QED
      BY <1>8, <2>6, <3>1, <3>3
  <2>8. ForgottenFar'
    BY <1>1, <2>6, <2>7 DEF ForgottenFar
  <2> QED
    BY <2>5, <2>8
<1> QED
  BY <1>1, <1>4, <1>9 DEF FarInv

LEMMA PowerLossFar ==
    ASSUME Shapes, FarInv, PowerLoss
    PROVE  FarInv'
<1>1. PICK kept \in synced .. Len(file) : file' = SubSeq(file, 1, kept)
  BY DEF PowerLoss
<1>2. kept \in 0 .. Len(file) /\ file \in Seq(Seq(Keys)) /\ Len(file) \in Nat
  BY DEF Shapes
<1>3. Len(file') = kept /\ \A e \in 1 .. kept : file'[e] = file[e]
  BY <1>1, <1>2, PrefixFacts
<1>4. UNCHANGED <<policy, window>> /\ pc' = "down" /\ order' = <<>>
  BY DEF PowerLoss, Die
<1>5. OldestFirst'
  <2>1. Len(order') = 0
    BY <1>4
  <2> QED
    BY <2>1 DEF OldestFirst
<1>6. RepeatsFar => RepeatsFar'
  <2> SUFFICES ASSUME RepeatsFar PROVE RepeatsFar'
    OBVIOUS
  <2>1. \A e \in 1 .. kept : e \in 1 .. Len(file)
    BY <1>2
  <2>2. \A key : \A e \in 1 .. kept : InRecord(key, e)' <=> InRecord(key, e)
    BY <1>3, <2>1 DEF InRecord
  <2>3. \A e \in 1 .. kept : IsInjective(file'[e])
    BY <1>3, <2>1 DEF RepeatsFar
  <2>4. ASSUME NEW key \in Keys, NEW e \in 1 .. kept, NEW f \in 1 .. kept, e < f,
               InRecord(key, e)', InRecord(key, f)'
        PROVE  Outgrown(e, f - 1)'
    <3>1. Outgrown(e, f - 1)
      BY <2>1, <2>2, <2>4 DEF RepeatsFar
    <3>2. \A d \in e .. f - 1 : d \in 1 .. kept
      BY <1>2
    <3>3. \A d \in e .. f - 1 : file'[d] = file[d]
      BY <1>3, <3>2
    <3>4. Places(file', e, f - 1) = Places(file, e, f - 1)
      BY <3>3, SamePlaces
    <3>5. TransactionsIn(e, f - 1)' = TransactionsIn(e, f - 1)
      BY <3>4 DEF TransactionsIn, Places
    <3> QED
      BY <1>4, <3>1, <3>5 DEF Outgrown, OverWindow
  <2> QED
    BY <1>3, <2>3, <2>4 DEF RepeatsFar
<1> QED
  BY <1>4, <1>5, <1>6 DEF FarInv

\* Recovery lists all the keys of the file, by epoch.
LEMMA RestartFar ==
    ASSUME Shapes, FarInv, Restart, SealerAssumption
    PROVE  FarInv'
<1>1. UNCHANGED <<policy, window, file>> /\ pc' = "idle" /\ order' = RecoveredOrder
      /\ seen' = [key \in Keys |-> LastEpoch(key)]
  BY DEF Restart, RecoverSegment
<1>2. file \in Seq(Seq(Keys)) /\ Len(file) \in Nat
  BY DEF Shapes
<1>3. \A key \in Keys : seen'[key] = LastIn(file, key) /\ seen'[key] \in 0 .. Len(file)
  BY <1>1, <1>2, LastEpochIsLastIn, LastInFacts
<1>4. OldestFirst'
  <2> SUFFICES ASSUME NEW i \in 1 .. Len(order'), NEW j \in 1 .. Len(order'), i <= j,
                      ~(seen'[order'[i]] <= seen'[order'[j]])
               PROVE  FALSE
    BY DEF OldestFirst
  <2> DEFINE k == RecoveredOrder[i]
             l == RecoveredOrder[j]
  <2>1. /\ Len(RecoveredOrder) \in Nat /\ k \in Keys /\ l \in Keys
        /\ (CommitsBefore(l, k) => j < i)
    BY <1>1, RecoveredFacts DEF RecoveredKeys
  <2>2. i \in Nat /\ j \in Nat /\ ~(j < i)
    BY <1>1, <2>1
  <2>3. LastEpoch(k) = seen'[k] /\ LastEpoch(l) = seen'[l] /\ ~(seen'[k] <= seen'[l])
    BY <1>1, <2>1
  <2> HIDE DEF k, l
  <2>4. seen'[k] \in Nat /\ seen'[l] \in Nat
    BY <1>2, <1>3, <2>1
  <2>5. CommitsBefore(l, k)
    BY <2>3, <2>4 DEF CommitsBefore
  <2> QED
    BY <2>1, <2>2, <2>5
<1>5. /\ \A from, to : Outgrown(from, to)' <=> Outgrown(from, to)
      /\ \A key, e : InRecord(key, e)' <=> InRecord(key, e)
  BY <1>1, SameHistory
<1>6. RepeatsFar => RepeatsFar'
  BY <1>1, <1>5 DEF RepeatsFar
<1>7. ForgottenFar'
  <2>1. \A key \in Keys : \A e \in 1 .. Len(file) : key \in Range(file[e]) => seen'[key] # Absent
    <3> SUFFICES ASSUME NEW key \in Keys, NEW e \in 1 .. Len(file), key \in Range(file[e])
                 PROVE  seen'[key] # Absent
      OBVIOUS
    <3>1. e <= LastIn(file, key) /\ e >= 1 /\ LastIn(file, key) \in Int
      BY <1>2, LastInFacts
    <3> QED
      BY <1>3, <3>1 DEF Absent
  <2> QED
    BY <1>5, <2>1 DEF ForgottenFar, InRecord
<1> QED
  BY <1>1, <1>4, <1>6, <1>7 DEF FarInv

LEMMA FarStep ==
    ASSUME IInv, IInv', TInv, TInv', FarInv, [Next]_vars, SealerAssumption
    PROVE  FarInv'
<1>0. Shapes /\ Shapes' /\ Waits /\ BatchRecorded
  BY DEF IInv
<1>1. ASSUME NEW c \in Clients, NEW key \in Keys, Submit(c, key)
      PROVE  FarInv'
  BY <1>1, KeptFar DEF Submit
<1>2. CASE Shutdown \/ RestartFails \/ UNCHANGED vars
  BY <1>2, KeptFar DEF Shutdown, RestartFails, vars
<1>3. CASE AppendSync \/ Seal \/ Sync \/ Publish
  <2>1. UNCHANGED <<policy, window, file, seen, order>>
    BY <1>3 DEF AppendSync, Seal, Sync, Publish
  <2>2. policy = Always =>
           pc' # "sync" /\ pc \notin {"stopped", "down"} /\ (Recorded' <=> Recorded)
    BY <1>3 DEF AppendSync, Seal, AfterSeal, Sync, Publish, Recorded
  <2> QED
    BY <2>1, <2>2, KeptFar
<1>4. CASE Drain
  <2>1. UNCHANGED <<policy, window, file, seen, order>> /\ pc = "idle" /\ pc' \in {"idle", "write"}
    BY <1>4 DEF Drain
  <2> QED
    BY <2>1, KeptFar DEF Recorded
<1>5. CASE SealerEnds \/ WriteFails \/ AppendSyncFails
  <2>1. UNCHANGED <<policy, window, file, seen, order>> /\ pc' = "stopped"
    BY <1>5 DEF SealerEnds, WriteFails, AppendSyncFails, Stop
  <2> QED
    BY <2>1, KeptFar
<1>6. CASE SyncFails
  <2>1. UNCHANGED <<policy, window, file, seen, order>> /\ pc = "sync"
    BY <1>6 DEF SyncFails
  <2>2. policy # Always
    BY <2>1 DEF FarInv
  <2> QED
    BY <2>1, <2>2, KeptFar
<1>7. CASE ProcessCrash
  <2>1. UNCHANGED <<policy, window, file>> /\ pc' = "down" /\ order' = <<>>
    BY <1>7 DEF ProcessCrash, Die
  <2>2. Len(order') = 0
    BY <2>1
  <2>3. OldestFirst'
    BY <2>2 DEF OldestFirst
  <2>4. RepeatsFar => RepeatsFar'
    BY <2>1, SameHistory DEF RepeatsFar
  <2> QED
    BY <2>1, <2>3, <2>4 DEF FarInv
<1>8. CASE Write
  BY <1>0, <1>8, WriteFar
<1>9. CASE Answer
  BY <1>0, <1>9, AnswerFar
<1>10. CASE PowerLoss
  BY <1>0, <1>10, PowerLossFar
<1>11. CASE Restart
  BY <1>0, <1>11, RestartFar
<1> QED
  BY <1>1, <1>2, <1>3, <1>4, <1>5, <1>6, <1>7, <1>8, <1>9, <1>10, <1>11 DEF Next, Seals

\* Under the Always policy the window keeps its promise, whatever its length and
\* through lost answers, failed writes and syncs, crashes, power losses and
\* restarts: a key commits again only when as many transactions as the window
\* holds have committed since, and so never when the window is not bounded
\* (the drain of Sequencer::start_gated, the window's eviction when a batch is
\* answered, and its recovery in open_bounded).
THEOREM RetriesSafe == Spec => []AlwaysRetriesSafe
<1>1. Init => FarInv
  <2> SUFFICES ASSUME Init PROVE FarInv
    OBVIOUS
  <2>1. Len(order) = 0 /\ Len(file) = 0 /\ pc = "idle"
    BY DEF Init
  <2>2. Answered = 0
    BY <2>1 DEF Answered, Recorded
  <2> QED
    BY <2>1, <2>2 DEF FarInv, OldestFirst, RepeatsFar, ForgottenFar
<1>2. IInv /\ TInv /\ IInv' /\ TInv' /\ FarInv /\ [Next]_vars => FarInv'
  BY FarStep, SealerAssumption
<1>3. IInv /\ FarInv => AlwaysRetriesSafe
  <2> SUFFICES ASSUME IInv, FarInv, policy = Always PROVE RetriesAreSafe
    BY DEF AlwaysRetriesSafe
  <2>1. DOMAIN file = 1 .. Len(file)
    BY DEF IInv, Shapes
  <2>2. \A key \in Keys : \A e \in EpochsOf(key) : e \in 1 .. Len(file) /\ InRecord(key, e)
    BY <2>1 DEF InRecord, EpochsOf, Committed
  <2>3. RepeatsFar
    BY DEF FarInv
  <2>4. \A key \in Keys : \A e, f \in EpochsOf(key) : e < f => Outgrown(e, f - 1)
    BY <2>2, <2>3 DEF RepeatsFar
  <2> QED
    BY <2>1, <2>3, <2>4 DEF RepeatsFar, RetriesAreSafe, Outgrown
<1> QED
  BY <1>1, <1>2, <1>3, TypedInductive, PTL DEF Spec

=============================================================================
