------------------------------- MODULE Sealer -------------------------------
(***************************************************************************)
(* The write path: submitters queue transactions, one sealer thread groups *)
(* them into epochs, appends each epoch to the segment, syncs it, and then *)
(* publishes the frontier and answers (src/crates/nilestream-ledger:       *)
(* sequencer.rs, segment.rs, frontiers.rs).  A process may crash, which    *)
(* keeps what it wrote, and the power may fail, which keeps only what was  *)
(* synced and perhaps a prefix of the rest.                                *)
(*                                                                         *)
(* A record of the segment is the sequence of idempotency keys in its      *)
(* envelope: the record at position e carries batch_seq e - 1 and commits  *)
(* epoch e.  Keys are numbers because the recovered window is sorted by    *)
(* key within an epoch.                                                    *)
(***************************************************************************)
EXTENDS Integers, FiniteSetsExt, SequencesExt

CONSTANTS
    Clients,     \* submitting threads, each waiting for one answer at a time
    Keys,        \* idempotency keys
    Policies,    \* sync policies to start with: Always, or n for Every(n)
    Windows,     \* idempotency windows to start with: NoWindow, or its length
    MaxBatch,    \* 4,096 in the code
    MaxSubmits,  \* bound on submissions
    MaxLives     \* bound on the times the segment is opened

Always == 0
NoWindow == 0
Absent == 0

ASSUME SealerAssumption ==
    /\ Keys \subseteq Nat /\ Policies \subseteq Nat /\ Windows \subseteq Nat
    /\ MaxBatch \in Nat \ {0}

VARIABLES
    policy,      \* SyncPolicy of the segment
    window,      \* the idempotency window, in transactions
    file,        \* the whole records in the segment file
    torn,        \* is there part of a record after them?
    synced,      \* how many records are on stable storage
    since_sync,  \* records appended since the last sync
    sealed, visible,   \* the frontier
    seen,        \* the epoch of each key in the window, or Absent
    order,       \* the keys of the window in commit order
    open,        \* does the handle still hold the sender?
    queue,       \* the channel: clients whose request is not yet drained
    pc,          \* where the sealer thread stands
    fresh,       \* the batch being sealed, in order
    deferred,    \* clients that sent a second copy of a key of the batch
    client,      \* what each client waits for, or the last answer it got
    acks,        \* history: the <<key, epoch>> pairs answered Ok
    submits, lives     \* counters for the bounds

segment == <<file, torn, synced, since_sync>>
frontier == <<sealed, visible>>
index == <<seen, order>>
batch == <<fresh, deferred>>
chosen == <<policy, window>>
counters == <<submits, lives>>
vars == <<chosen, segment, frontier, index, open, queue, pc, batch, client,
          acks, counters>>

Nothing == [st |-> "none", key |-> Absent, epoch |-> 0]
Waiting(key) == [st |-> "waiting", key |-> key, epoch |-> 0]
Reply(kind, c, e) == [st |-> kind, key |-> client[c].key, epoch |-> e]
IsWaiting(c) == client[c].st = "waiting"

KeysOf(cs) == [i \in DOMAIN cs |-> client[cs[i]].key]
BatchClients == Range(fresh) \union deferred

Committed(e) == Range(file[e])
EpochsOf(key) == {e \in DOMAIN file : key \in Committed(e)}

-----------------------------------------------------------------------------
(* Mutants: forms of the definitions below that a plausible bug would give *)

\* The drain checks the window and not the batch it is building.
FirstCopiesUnchecked(at) == at

\* The sync schedule is off by one record.
SyncsInAppendLate(appended) == appended > Max({policy, 1})

\* The Every policy leaves the sync to the segment's own schedule.
AfterSealEager == "publish"

\* Recovery reads the window back from the newest record only.
LastEpochOfTail(key) ==
    IF file # <<>> /\ key \in Range(file[Len(file)]) THEN Len(file) ELSE Absent

\* A stopped sealer leaves the requests in the channel unanswered.
HangUpKeepsQueue(answered) == answered

\* A repeat is told the newest epoch instead of its own.
SeenEpochAtHead(key) == Len(file)

-----------------------------------------------------------------------------
(* Submitters                                                              *)

Submit(c, key) ==
    /\ submits < MaxSubmits
    /\ ~IsWaiting(c)
    /\ open
    /\ submits' = submits + 1
    /\ IF pc = "stopped"
       THEN /\ client' = [client EXCEPT ![c] =
                            [st |-> "shutting_down", key |-> key, epoch |-> 0]]
            /\ UNCHANGED queue
       ELSE /\ client' = [client EXCEPT ![c] = Waiting(key)]
            /\ queue' = Append(queue, c)
    /\ UNCHANGED <<chosen, segment, frontier, index, open, pc, batch, acks, lives>>

\* The handle goes: the sender is dropped and the sealer finishes the queue.
Shutdown ==
    /\ open
    /\ open' = FALSE
    /\ UNCHANGED <<chosen, segment, frontier, index, queue, pc, batch, client,
                   acks, counters>>

-----------------------------------------------------------------------------
(* The sealer thread                                                       *)

\* The positions that are the first of their key among some in the queue.
FirstCopies(at) ==
    {i \in at : \A j \in at : j < i => client[queue[j]].key # client[queue[i]].key}

\* The epoch at which a key of the window committed.
SeenEpoch(key) == seen[key]

\* The clients at some positions of the queue, in its order.
InOrder(at) ==
    {[i \in DOMAIN f |-> queue[f[i]]] :
        f \in {g \in [1..Cardinality(at) -> at] :
                 \A i, j \in DOMAIN g : i < j => g[i] < g[j]}}

\* Everything that waits, up to MaxBatch, is drained at once.  Keys of the
\* window are answered, a second copy of a key waits for the first, and the
\* rest is the batch.
Drain ==
    /\ pc = "idle"
    /\ queue # <<>>
    /\ LET n == Min({Len(queue), MaxBatch})
           new == {i \in 1..n : seen[client[queue[i]].key] = Absent}
           old == {queue[i] : i \in (1..n) \ new}
       IN /\ queue' = SubSeq(queue, n + 1, Len(queue))
          /\ client' = [c \in Clients |->
                          IF c \in old
                          THEN Reply("duplicate", c, SeenEpoch(client[c].key))
                          ELSE client[c]]
          /\ fresh' \in InOrder(FirstCopies(new))
          /\ deferred' = {queue[i] : i \in new \ FirstCopies(new)}
          /\ pc' = IF new = {} THEN "idle" ELSE "write"
    /\ UNCHANGED <<chosen, segment, frontier, index, open, acks, counters>>

\* Every request of the batch is answered Io.
IoReplies == [c \in Clients |->
    IF c \in BatchClients THEN Reply("io", c, 0) ELSE client[c]]

\* The sealer thread returns: requests left in the channel are dropped with
\* its receiver, and their submitters see the channel closed.
HangUp(answered) == [c \in Clients |->
    IF c \in Range(queue) THEN Reply("shutting_down", c, 0) ELSE answered[c]]

Stop(answered) ==
    /\ client' = HangUp(answered)
    /\ queue' = <<>>
    /\ fresh' = <<>>
    /\ deferred' = {}
    /\ pc' = "stopped"

SealerEnds ==
    /\ pc = "idle"
    /\ ~open
    /\ queue = <<>>
    /\ Stop(client)
    /\ UNCHANGED <<chosen, segment, frontier, index, open, acks, counters>>

\* Segment::append syncs by itself under Always, and every n records under
\* Every(n).
SyncsInAppend(appended) ==
    policy = Always \/ appended >= Max({policy, 1})

Write ==
    /\ pc = "write"
    /\ file' = Append(file, KeysOf(fresh))
    /\ since_sync' = since_sync + 1
    /\ pc' = IF SyncsInAppend(since_sync + 1) THEN "append_sync" ELSE "appended"
    /\ UNCHANGED <<chosen, torn, synced, frontier, index, open, queue, batch,
                   client, acks, counters>>

\* The write fails part way: the segment is cut back and synced, each at
\* best effort, and the sealer stops.
WriteFails ==
    /\ pc = "write"
    /\ torn' \in BOOLEAN
    /\ synced' \in {synced, Len(file)}
    /\ Stop(IoReplies)
    /\ UNCHANGED <<chosen, file, since_sync, frontier, index, open, acks, counters>>

SyncAll ==
    /\ synced' = Len(file)
    /\ since_sync' = 0

AppendSync ==
    /\ pc = "append_sync"
    /\ SyncAll
    /\ pc' = "appended"
    /\ UNCHANGED <<chosen, file, torn, frontier, index, open, queue, batch,
                   client, acks, counters>>

\* The record stays in the file, and the sealer stops.
AppendSyncFails ==
    /\ pc = "append_sync"
    /\ Stop(IoReplies)
    /\ UNCHANGED <<chosen, segment, frontier, index, open, acks, counters>>

\* Where the sealer goes once it has marked the epoch sealed.
AfterSeal == IF policy = Always THEN "publish" ELSE "sync"

Seal ==
    /\ pc = "appended"
    /\ sealed' = Max({sealed, Len(file)})
    /\ pc' = AfterSeal
    /\ UNCHANGED <<chosen, segment, visible, index, open, queue, batch, client,
                   acks, counters>>

Sync ==
    /\ pc = "sync"
    /\ SyncAll
    /\ pc' = "publish"
    /\ UNCHANGED <<chosen, file, torn, frontier, index, open, queue, batch,
                   client, acks, counters>>

\* Unlike a failure inside append, this one does not stop the sealer.
SyncFails ==
    /\ pc = "sync"
    /\ client' = IoReplies
    /\ fresh' = <<>>
    /\ deferred' = {}
    /\ pc' = "idle"
    /\ UNCHANGED <<chosen, segment, frontier, index, open, queue, acks, counters>>

Publish ==
    /\ pc = "publish"
    /\ visible' = Max({visible, Len(file)})
    /\ pc' = "answer"
    /\ UNCHANGED <<chosen, segment, sealed, index, open, queue, batch, client,
                   acks, counters>>

\* Does a window of len transactions hold more than it may?
OverWindow(len) == window # NoWindow /\ len > Max({window, 1})

\* The batch enters the window, the oldest identities leave it, and every
\* request is answered: a deferred one with the epoch of its first copy.
Answer ==
    /\ pc = "answer"
    /\ LET e == Len(file)
           all == order \o KeysOf(fresh)
           drop == CHOOSE n \in 0..Len(all) :
                      /\ ~OverWindow(Len(all) - n)
                      /\ n > 0 => OverWindow(Len(all) - n + 1)
       IN /\ order' = SubSeq(all, drop + 1, Len(all))
          /\ seen' = [key \in Keys |->
                IF \E i \in 1..drop : all[i] = key THEN Absent
                ELSE IF key \in Range(KeysOf(fresh)) THEN e
                ELSE seen[key]]
          /\ client' = [c \in Clients |->
                IF c \in Range(fresh) THEN Reply("ok", c, e)
                ELSE IF c \in deferred THEN Reply("duplicate", c, e)
                ELSE client[c]]
          /\ acks' = acks \union {<<client[c].key, e>> : c \in Range(fresh)}
    /\ fresh' = <<>>
    /\ deferred' = {}
    /\ pc' = "idle"
    /\ UNCHANGED <<chosen, segment, frontier, open, queue, counters>>

-----------------------------------------------------------------------------
(* Crashes and restarts                                                    *)

\* The process dies.  Its memory is gone, its submitters get no answer.
Die ==
    /\ pc' = "down"
    /\ open' = FALSE
    /\ queue' = <<>>
    /\ fresh' = <<>>
    /\ deferred' = {}
    /\ seen' = [key \in Keys |-> Absent]
    /\ order' = <<>>
    /\ sealed' = 0
    /\ visible' = 0
    /\ since_sync' = 0
    /\ client' = [c \in Clients |-> IF IsWaiting(c) THEN Nothing ELSE client[c]]

\* The kernel keeps what was written; a write under way may be half done.
ProcessCrash ==
    /\ pc # "down"
    /\ Die
    /\ torn' \in {torn, pc = "write"}
    /\ UNCHANGED <<chosen, file, synced, acks, counters>>

\* The storage keeps what was synced and a prefix of what was not.
PowerLoss ==
    /\ \E kept \in synced..Len(file) :
          /\ file' = SubSeq(file, 1, kept)
          /\ synced' = kept
    /\ Die
    /\ torn' \in BOOLEAN
    /\ UNCHANGED <<chosen, acks, counters>>

\* The epoch recovery gives a key: that of the last record that holds it.
LastEpoch(key) ==
    IF EpochsOf(key) = {} THEN Absent ELSE Max(EpochsOf(key))

\* Segment::open: a torn tail is cut off, and only then is the file synced.
RecoverSegment ==
    /\ torn' = FALSE
    /\ synced' = IF torn THEN Len(file) ELSE synced
    /\ since_sync' = 0
    /\ UNCHANGED file

\* The recovered window in commit order; within an epoch, in key order.
RecoveredKeys == {key \in Keys : LastEpoch(key) # Absent}

CommitsBefore(k, l) ==
    \/ LastEpoch(k) < LastEpoch(l)
    \/ LastEpoch(k) = LastEpoch(l) /\ k < l

RecoveredOrder ==
    [i \in 1..Cardinality(RecoveredKeys) |->
        CHOOSE l \in RecoveredKeys :
            Cardinality({k \in RecoveredKeys : CommitsBefore(k, l)}) = i - 1]

\* Sequencer::open_bounded: the window is rebuilt from every record and the
\* frontier starts at the last one.
Restart ==
    /\ pc \in {"down", "stopped"}
    /\ lives < MaxLives
    /\ lives' = lives + 1
    /\ RecoverSegment
    /\ seen' = [key \in Keys |-> LastEpoch(key)]
    /\ order' = RecoveredOrder
    /\ sealed' = Len(file)
    /\ visible' = Len(file)
    /\ open' = TRUE
    /\ pc' = "idle"
    /\ UNCHANGED <<chosen, queue, batch, client, acks, submits>>

\* The torn tail is cut off and the sync of the file then fails: the open
\* returns an error and leaves a file that ends at a whole record.
RestartFails ==
    /\ pc \in {"down", "stopped"}
    /\ torn
    /\ torn' = FALSE
    /\ UNCHANGED <<chosen, file, synced, since_sync, frontier, index, open, queue,
                   pc, batch, client, acks, counters>>

-----------------------------------------------------------------------------
(* Specification                                                           *)

Init ==
    /\ policy \in Policies
    /\ window \in Windows
    /\ file = <<>>
    /\ torn = FALSE
    /\ synced = 0
    /\ since_sync = 0
    /\ sealed = 0 /\ visible = 0
    /\ seen = [key \in Keys |-> Absent]
    /\ order = <<>>
    /\ open = TRUE
    /\ queue = <<>>
    /\ pc = "idle"
    /\ fresh = <<>> /\ deferred = {}
    /\ client = [c \in Clients |-> Nothing]
    /\ acks = {}
    /\ submits = 0 /\ lives = 1

Seals ==
    \/ Drain \/ SealerEnds \/ Write \/ WriteFails \/ AppendSync \/ AppendSyncFails
    \/ Seal \/ Sync \/ SyncFails \/ Publish \/ Answer

Next ==
    \/ \E c \in Clients, key \in Keys : Submit(c, key)
    \/ Shutdown
    \/ Seals
    \/ ProcessCrash
    \/ PowerLoss
    \/ Restart
    \/ RestartFails

Spec == Init /\ [][Next]_vars

\* The sealer is a thread of its own, which the scheduler keeps running.
FairSpec == Spec /\ WF_vars(Seals)

-----------------------------------------------------------------------------
(* Properties                                                              *)

Outcomes == {"none", "waiting", "ok", "duplicate", "io", "shutting_down"}

TypeOK ==
    /\ policy \in Policies /\ window \in Windows
    /\ file \in Seq(Seq(Keys) \ {<<>>})
    /\ torn \in BOOLEAN /\ open \in BOOLEAN
    /\ synced \in 0..Len(file)
    /\ since_sync \in 0..Len(file)
    /\ visible \in 0..sealed /\ sealed \in 0..Len(file)
    /\ seen \in [Keys -> 0..Len(file)]
    /\ Range(order) = {key \in Keys : seen[key] # Absent}
    /\ IsInjective(order)
    /\ IsInjective(queue) /\ IsInjective(fresh)
    /\ pc \in {"idle", "write", "append_sync", "appended", "sync", "publish",
               "answer", "stopped", "down"}
    /\ client \in [Clients -> [st : Outcomes, key : Keys \union {Absent}, epoch : Nat]]
    \* A client waits for exactly one answer, and somebody owes it.
    /\ {c \in Clients : IsWaiting(c)} = Range(queue) \union BatchClients
    /\ Len(queue) + Len(fresh) + Cardinality(deferred)
          = Cardinality({c \in Clients : IsWaiting(c)})

\* The idempotency promise of the sequencer: in the visible history no key
\* commits again while the window remembers it, which is forever without a window and
\* otherwise until window transactions have committed after it.
TransactionsIn(from, to) == Cardinality(UNION {{e} \X DOMAIN file[e] : e \in from..to})

RetriesAreSafe ==
    /\ \A e \in DOMAIN file : IsInjective(file[e])
    /\ \A key \in Keys : \A e, f \in EpochsOf(key) \intersect 1..visible :
          e < f => OverWindow(TransactionsIn(e, f - 1))

\* Under the Always policy the promise holds through lost answers, failed
\* writes and syncs, crashes and restarts.
AlwaysRetriesSafe == policy = Always => RetriesAreSafe

\* What a submitter is told is true when it is told: its key is in the epoch
\* named, that epoch is visible, and no later epoch holds the key.
RepliesTrue == [][
    \A c \in Clients :
        IsWaiting(c) /\ client'[c].st \in {"ok", "duplicate"} =>
            /\ client'[c].epoch <= visible'
            /\ client'[c].epoch = LastEpoch(client[c].key)']_vars

\* The sealer publishes an epoch only once it is on stable storage.
PublishIsDurable == [][Publish => visible' <= synced']_vars

\* The write path keeps its promise: no crash takes back what was answered.
Durable == INSTANCE DurableLog WITH log <- SubSeq(file, 1, synced)
DurableSpec == Durable!Spec

\* Every submission is answered, however the sealer ends.
SubmitReturns == \A c \in Clients : IsWaiting(c) ~> ~IsWaiting(c)

\* "The frontier advances only after the epoch is on stable storage": at all
\* times, the epoch a reader may observe is one that no crash erases.
DurableBeforeVisible == visible <= synced
=============================================================================
