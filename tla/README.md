# A verification project for niles

TLA+ models of the parts of niles that are hard to test, the TLC configurations
that check them on small instances, and proofs, checked by TLAPS, of what holds
for every instance. Every definition is translated from the Rust source under
`src/crates`; `PROJECT.json` maps each one to its lines.

## 1. Inventory

niles is a ledger database: an append-only, hash-chained history of balanced
postings (the *base*), with views over it that hold only part of their result
and rebuild the rest from the base when it is asked for. One number, the
*frontier*, says which epochs of the history may be read.

| Component | Where | State | Operations | What is hard |
|---|---|---|---|---|
| View runtime (REV) | `nilestream-core/src/rev.rs`, `absence.rs` | slots (absent, pending, present), pins, policy metadata, resident counter, applied frontier, flight table | `begin_read`, `finish_fold`, `apply_epoch`, `wipe`, dropping a ticket | folds run outside the view lock while epochs, other folds, evictions and wipes happen |
| Flight rendezvous | `rev.rs` (`Completion`, `FoldTicket`, `WaitTicket`) | two atomic flags, a mutex-guarded answer, cancellation and waiter count, a condition variable | publish, cancel, join, drop | two locks and two lock-free flags; a missed wake-up is for ever |
| Serving engine | `nilestream-server/src/rev_engine.rs` | base lock, view lock, currency set, visible frontier, durable sink | `append`, keyed reads, whole reports, recovery | reads, reports and appends compose the view, the base and the sealer |
| In-memory ledger | `proto-engine/src/ledger.rs` | epochs, per-account index, checkpoints, holds, idempotency index | `submit`, folds, per-epoch deltas | admission and the window of identities |
| Epoch sequencer | `nilestream-ledger/src/sequencer.rs`, `frontiers.rs` | channel, window of keys and their order, sealed and visible frontier | `submit`, the sealer loop, `shutdown`, `open_bounded` | group commit, retries, failing syncs, crashes, restarts |
| Segment file | `nilestream-ledger/src/segment.rs` | records, bytes written, records since the last sync | `append`, `sync`, `open`, `recover` | torn writes, unsynced records, damage |
| Consensus group | `nilestream-consensus/src/lib.rs` | role, term, vote, votes, log, commit index, history of commits, next and match indices | `start_election`, `propose`, `replicate_to`, `handle` | lost, repeated, late messages; several leaders at a time |
| Consensus simulator | `nilestream-consensus/src/sim.rs` | nodes, queue of messages, severed links, who led each term | `step`, `elect`, `propose`, `heartbeat`, the invariants it asserts | the faults it injects define what the group is tested against |
| Cross-shard commit | `nilestream-consensus/src/cross_shard.rs` | votes, decision, durability of the decision, prepared epochs | prepare, decide, persist, send, apply, recover | a coordinator that dies between two steps |
| Erasable side-car | `nilestream-ledger/src/sidecar.rs` | records, tombstones | put, get, zero, compact | a crash inside a compaction |

How they interact. A client's append takes the engine's base lock exclusively,
is admitted by the in-memory ledger, is handed to the sealer through a channel,
and is applied to the view; the lock is then released and the client waits for
the sealer's answer before it is acknowledged. A keyed read takes the base lock
shared and the view lock twice: once for `begin_read` and once for
`finish_fold`, with the fold between them under neither the view lock nor any
completion. A reader that joins another's flight holds no lock. A report takes the view lock
once. The sealer is one thread that shares nothing with them but its channel and
the frontier. The nodes of a consensus group share nothing and exchange messages through the
simulator; no server runs them yet. A cross-shard coordinator keeps its decisions in the log of
its own group and reaches the participants by messages; the crate has no code that
connects it to a group, so each is modelled with the other reduced to what it offers.

What makes each correct:

* *View*: an answer is the fold of its key at exactly the anchor asked for;
  an entry answers no anchor it is not exact at (as long as no epoch names its key
  in two rows, finding 1); the state is bounded by the
  budget and the flight table; every marker and ticket has its flight.
* *Rendezvous*: whoever waits is answered or sent round again; a place in
  the queue is taken and given back once.
* *Engine*: a report served from a view is the report at its anchor; a full
  view misses no account; what was readable stays readable, and the same, through
  sink failures, and across restarts as far as a receipt or a sync has secured it.
* *Write path*: what was answered survives every crash; the frontier never
  passes what is on stable storage; a key commits once; everybody is answered.
* *Consensus*: one leader per term; logs that agree at one entry agree before it; what a
  node reported committed is reported by nobody else as something else, and cannot be
  outvoted; a leader counts only replicas that exist.
* *Cross-shard*: one decision per transaction whatever coordinators do and
  die of; it is on record before anybody hears of it; money is conserved in every
  currency; the shards that know the outcome show it at the same epochs.

The rest of the repository (language, optimizer, wire protocols, benchmarks,
documents) is listed in `PROJECT.json` with the reason it is not modelled.

## 2. Plan

Done in this order, most important first:

1. `RevView`: the view runtime. *Done, proved.*
2. `FlightRendezvous`: what RevView does in one step, step by step, and `FlightPromise` (abstract), which it
   refines. *Done; its safety proved with the refinement.*
3. `RevEngine`: the view under the engine's locks, with reports. *Done.*
4. `DurableLog` and `Sealer`: the write path and its promise. *Done, proved.*
5. `RaftGroup`: a node of the consensus crate and its network. *Done; election safety and log
   matching proved, and agreement on what is committed as far as it holds.*
6. `AtomicCommit` (abstract) and `CrossShard` (refines it): coordinators and
   participants. *Done, proved with the refinement.*
7. `DurableEngine`: the engine with its sink: receipts, the visible frontier, a sink that
   stops, recovery by replay. *Done; its frontier and its view proved.* Left: admission by identity in
   two windows, and the empty ledger.
8. Proofs. *Done: every invariant and action property of a passing run, and all three refinements.* Liveness stays
   with TLC.
9. Candidates not started: the side-car's compaction, and damage in the middle of a segment.

## 3. Modules

### RevView - the partially materialised view

One action is one critical section under the view lock, except `SealEpoch`
(the base's own lock) and the two drops of tickets (no lock). `slots`, `pinned`,
`meta`, `resident`, `applied`, `next_to_apply`, `in_flight` and
`flight_generation` are the fields of `Rev` with those names. `rd[r]` is
what the caller `r` holds between calls: a `FoldTicket`, a `WaitTicket`, or its
answer. `epochs` is the base: for each epoch the row of each key and the fold
so far, so that `Reconstruct` is a lookup. `wiped_at` is a history variable.

| Action | Code |
|---|---|
| `BeginRead` = `ReadHit`, `JoinFlight`, `FoldAlone`, `OwnFlight` | `begin_read_with` and its decision, with the reaping of cancelled flights |
| `FinishFold` (`Mine`, `LandFold`, `Install`, `Evictable`, `Publish`) | `finish_fold_merging` with `merge_suffix`, `install_at`, `enforce_budget` |
| `DropFold`, `DropWait` | the destructors of the tickets |
| `SealEpoch`, `ApplyEpoch` (`Folded`) | `Ledger::submit`, `Runtime::advance` with `apply_epoch` |
| `Wipe` | `Rev::wipe` |

Abstractions. A value is an integer and a delta comes from `Deltas`. Which entry
is evicted is left open, which covers the three policies. The fold reads an
immutable prefix, so its result is computed when it lands. A waiter that is
refused and a reader in mode `Alone` both fold alone. The rung is the default
one (stride 1). `Full` models `Materialize::Full`, which also drops
the budget. An epoch may name the keys of `SplitKeys` in two rows, as `deltas_at` does for
two postings of one transaction, which the ledger calls normal (`ledger.rs:427-429`). The
view applies only the first of them (finding 1), so what it answers by itself is claimed at the
anchors through which the key has one row per epoch (`Netted`): this is a premise inside the
properties, about one key and one prefix, while other keys and later epochs may have several rows. A reader that was
answered from an entry is in state "hit"; one that folded, or was handed another's fold,
is "done", and for it there is no such premise, as the fold adds every row.

### FlightRendezvous and FlightPromise - one flight, step by step

RevView settles a flight in one step. Here the owner and the readers interleave
between `mark_joined`, the atomic `cancelled`, the guarded state and the
notification. A section under the completion's mutex is one step, because nothing
is acquired inside it; the view lock is explicit. A condition variable may wake
without being notified (`WakeUnasked`), which may not be relied on: it has no
fairness.

`FlightPromise` is what a flight is to the view: it ends once, and the end reaches all
who wait in one step. `FlightRendezvous` implements it. `Fate` is the end, reached when the answer or the guarded
cancellation is stored, or when `publish` finds that nobody joined; `Got(j)` is what a reader has of it, whether
or not its thread runs already, so a notification and a turn of the loop in `join` are stutters. The promise does not say
that the end comes: an owner that gives up when nobody has joined stores nothing, and a reader that joins after
that waits for ever (finding 3). Here RevView is kinder than the code: its `DropFold` closes the flight in the same step.

### RevEngine - the view under the engine's locks

Extends RevView with fewer interleavings: an append seals and applies an epoch
under the exclusive base lock, and no epoch is sealed while a fold is in the
air, because the reader holds the shared lock. It adds the report served from a
full view. `evict_all`, which only tests call, and a fold whose thread dies are left
out here and are in RevView.

### DurableLog, Sealer and SealerProofs - the write path

`DurableLog` is the promise: a history on stable storage that only grows, and
acknowledgements only of what it holds. `Sealer` is the code. `pc` is where
the sealer thread stands in its loop: draining (`Drain` classifies a batch and
answers the repeats), writing and syncing inside `Segment::append`
(`Write`, `AppendSync` and their failures), marking the epoch sealed (`Seal`), the
sealer's own sync under Every(n) (`Sync`, `SyncFails`), `Publish`, and `Answer`
(the window grows, is pruned, and everybody is answered). A record is
the sequence of its keys; position e in `file` is batch_seq e-1, epoch e.
`synced` is how many records are on stable storage and `torn` whether a part of
a record follows the last whole one. `ProcessCrash` loses memory and keeps the
file; `PowerLoss` also loses any suffix that was not synced; `Restart` is
`Sequencer::open_bounded` over `Segment::open`; `RestartFails` is its failing
sync.

Assumed of the storage: unsynced records survive as a prefix, and a sync that succeeds
covers every earlier write, also one whose own sync failed. `open_bounded` refuses
`SyncPolicy::Never`, so the policies are Always (0 in the model) and Every(n) (n).
A window of `NoWindow` is `None`.

### DurableEngine - the engine with its sink

Extends `RevEngine` with what a durable sink adds. `AppendSent` is `RevEngine::append` up to the
hand-over to the sink, under the write guard, and `AdvanceView` the view's advance under the same
guard; `SinkCommits` is the receipt and `Publishes(e)` the `fetch_max` of the client that waits for
epoch e, in any order of clients. `AppendRefused` is an append to a sink that has
stopped: the base has the epoch and the view is not told. Reads are anchored at
`visible`, which lies behind the base and the view. `Restart` is recovery:
the base is replayed from the segment, its head becomes visible, and the
view starts over from the seeded prefix, through which the first append then advances it.
What is recovered is not synced by that: `Segment::open` syncs only a file from which it cut a torn
record (`segment.rs:308-311`). So `synced`, the records on stable storage, and `recovered`, the head this process
found, are two variables, a sync of the first new record makes both good, and the next
death may come before it and take away what recovery has made visible (finding 4).

The sink is used through the contract that `DurableLog` states and `Sealer` is proved to implement:
what it answered is kept, and what is found after a restart is a prefix between the
last answer and the last epoch it was given. Epoch 0 stands for the seeded prefix, which
each process rebuilds. One thing is assumed that the code does not ensure: that the base and the sealer agree on
which keys are duplicates (section 5, "without a run").

### RaftGroup - a replicated group

One action of `RaftGroup` is one call of `start_election` or `propose`, one heartbeat to one peer, or
one `handle` of a message, split by its branches.

| Action | Code |
|---|---|
| `Elect`, `Propose`, `Heartbeat` (`ReplicateTo`) | `start_election`, `propose`, `replicate_to` with the simulator's drivers |
| `HandleRequestVote` (`Grants`, `UpToDate`) | `handle`, `RequestVote` |
| `HandleVoteGranted`, `BecomeLeader`, `HandleVoteDenied` | `handle`, the votes |
| `RejectStale`, `RejectMismatch`, `RejectForgery`, `AcceptEntries` (`Extended`, `CommitOf`, `Recorded`) | `handle`, `AppendEntries` |
| `HandleAppendOk` (`CommitPoint`), `HandleBrokenChain`, `HandleAppendRejected`, `IgnoreAnswer` | `handle`, the replies, and `advance_commit` |

The network. A link is a queue from one node to another. A message is sent to each addressee
once or not at all: loss, a severed link and the bound on messages in flight are the same
thing. `dispatch` sends the requests of `start_election` to every peer once
per request, so a vote request arrives up to once per peer. Without `Reorder` a link is first-in
first-out, which allows every order the simulator's single queue allows and more;
with it any message of a link may be next. Any leader may propose and send heartbeats, where the simulator
asks the first one it finds.

The hash at an index is a hash over everything before it, so the log up to that
index stands for it; `NoHash` is the answer for an index past the end. An entry that does
not follow from its parent is a forgery, and `RejectForgery` may meet one where `Bounds` allows it.
Nothing of a node is persisted and no code restarts one (`sim.rs:8` names restarts
among its faults; none is implemented), so there are no restarts here.

### CrossShard and AtomicCommit - commit over several groups

`AtomicCommit` is the promise: every shard answers once, one decision is made of all the
answers, each shard's outcome is that decision, and a commit is balanced, prepared everywhere,
and later than every prepared epoch. `CrossShard` is the code: participants that
`Prepare` and `Apply`, coordinators that `Start` (with `recover`), `Record` votes, `Decide`,
`PersistDecision`, `SendDecision`, and `Die` between any two of these. `persist_decision` itself only sets a flag and leaves
the proposal to its caller; `PersistDecision` is the two together, with `log` for the group's log. Several coordinators of
one transaction may work at a time. Messages stay in `votes_sent` and `told` once sent, so they arrive
late, repeatedly or never. `CrossShard` implements `AtomicCommit` with the first record of the log
about a transaction as its decision.

`RefuseReason::Inadmissible` and `AbortReason::Unreachable` are declared and never produced, and
are left out. Nothing in the file holds a prepared shard's frontier back until the
decision arrives, although `cross_shard.rs:36-38` and `178-180` promise that no
reader falls into the window between two shards' applications; `SameAtEveryAnchor` therefore compares
shards that have the outcome, and says nothing of one that has still to hear it.

## 4. Runs

| Run | Checks | Shows | Bounds, and why they are enough |
|---|---|---|---|
| `rev_demand` | TypeOK, CertifiedInterval, AnswersExact, BoundedState, SingleFlight, MarkerHasFlight | a partial view is exact (where a key has one row per epoch; folded answers always), bounded, and leaks no marker or ticket | 2 keys, 2 readers, epochs 0..2, 2 flights, budget 1, a flight table of 1, 1 waiter, merges of at most 1 epoch and 1 row; an epoch may name `k1` in two rows. Two epochs past the first let a fold land behind, merge, and meet a delta after; one place in each bounded structure makes every refusal, eviction and reclaim happen; the split key shares budget and table with one that is not. Readers are symmetric. About 2.7 million states |
| `rev_full` | FullKeepsAll, CertifiedInterval, VisibleStays | a full view keeps every account, and the visible frontier only grows over an unchanging past, with a sink that fails and processes that die | the same with merging off, so that old reads do install pinned entries, and one row per key; 3 processes, that is two deaths: what the second process recovers, and may not have synced, meets a death of its own, and the recovered epochs are applied to a view that reads have already filled. Keys and readers are symmetric. About 1.7 million states. With a split key the run is beyond five minutes; for those the properties are only proved (section 6) |
| `rev_report` | ReportExact (violated) | see findings | the same, one process and no sink |
| `rev_split` | ExactAcrossRows (violated) | see findings | the same for a partial view, two rows of `k1` per epoch |
| `flight_queue` | TypeOK, PlacesMatch, PublishReachesAll, JoinedInTimeLeaves, PromiseSpec | places are counted, publishing misses nobody, who joined before the owner gave up leaves, and a flight ends once for all who wait | 3 readers for 2 places: one is always refused |
| `flight_stranded` | NobodyStranded (violated) | see findings | the same |
| `sealer_crash` | TypeOK, AlwaysRetriesSafe, RepliesTrue, PublishIsDurable, DurableSpec, SubmitReturns | the write path keeps its promise through crashes | 2 submitters, 2 keys, 4 submissions, 3 openings of the segment, both policies (Always, Every(2)), no window and a window of 1. Four submissions of two keys fill a window of 1, push the first key out and bring it back; three openings allow a crash after a recovery |
| `sealer_visible` | DurableBeforeVisible (violated) | see findings | 2 submissions, 2 openings |
| `raft_ordered` | TypeOK, ElectionSafety, LogMatching, HistoriesAgree, CommittedStaysInLog, MatchIsHeld, CommittedCannotBeOutvoted | with ordered links the group is safe, as long as no hint leads past a leader's log | 3 nodes; (terms, entries, messages in flight): (3, 2, 1), (2, 2, 2), and (2, 2, 1) with forgeries. Three terms are what it takes for a leader to commit an entry of an earlier term, be deposed and be succeeded by one without it; two messages in flight let requests, replies and elections overlap. About 1.9 million states. A stale hint that does harm takes four terms and is beyond these bounds: see `raft_stale_hint` and section 6 |
| `raft_reordered` | CommittedStaysInLog (violated) | see findings | 3 nodes, (1, 2, 2) |
| `raft_stale_hint` | CommittedStaysInLog (violated) | see findings | 3 nodes, ordered links, (5, 4, 2). The violation is 40 steps deep; `StaleHint`, an action constraint, follows one story and lets everything else get lost |
| `cross_shard` | TypeOK, ToldIsRecorded, CoordinatorsAgree, SameAtEveryAnchor, AtomicCommitSpec | one decision, on record before it is told, whatever coordinators die | 2 shards, 3 coordinators, 3 epochs with a gap, a transfer that balances and one that balances only over all currencies together, a log that may begin with another transaction's decision. A third coordinator meets a predecessor that is dead and one that is not |

`MaxEpoch`, `MaxGeneration`, `MaxSubmits`, `MaxLives`, `Bounds` of the group, `Coordinators`
and `Epochs` of the cross-shard protocol are bounds of the models; `Budget`, `MaxFlights`, `MaxWaiters`, `CapEpochs`, `CapRows` and
`MaxBatch` are parameters of the code, made small. The
deadlock check is off for `FlightRendezvous`, which ends when every reader has left, and
for `Sealer`, which ends when its bounds are used up and the process is down. It is off for
`DurableEngine`, `RaftGroup` and `CrossShard` for the same reason: when the epochs, the terms
or the coordinators are used up and every message is delivered, nothing is left to do.
`raft_ordered` identifies states (`VIEW`) that differ only in votes no candidate counts
and indices no leader keeps: both are overwritten before they are read again.

Fairness. `FlightRendezvous` assumes that the owner ends its fold or drops its
ticket and that a reader that is not parked takes its next step: they are running
threads. Nothing is assumed of a wake-up. `Sealer!FairSpec` assumes that the sealer thread
takes its next step. No fairness is put on crashes, restarts, submissions or clients. None is
stated for `RaftGroup`, `CrossShard` and `DurableEngine`: the consensus crate has no timers (tests
call `elect` and `heartbeat`), nothing starts a successor coordinator, and a client
may drop its `Pending`, so nothing in the code makes these go on.

### Properties worth a word

* `CertifiedInterval` is the certification rule itself: an entry is the fold
  at its stamp and at every anchor up to its `Effective` epoch. It relates
  `install_at`'s pin, the stamp a merge chooses and the deltas that come later. It is claimed at anchors through which
  the key has one row per epoch; without that it is `ExactAcrossRows`, which `rev_split` refutes.
* `AnswersExact` is about all answers: of a fold or a join without conditions, of a hit under the same one.
* `SingleFlight` exempts tickets issued before a wipe: `wipe` takes their
  flights on purpose.
* `AlwaysRetriesSafe` is `RetriesAreSafe` under the policy Always. It allows a key to commit again once more transactions than the
  window holds have committed from its epoch on; without a window, never. It counts
  transactions, as the window does, and holds across restarts, which rebuild the
  window longer and in another order.
* `RepliesTrue` is about the moment of the answer: the epoch named holds the key, is
  the newest that does, and is visible.
* `DurableSpec` maps `log` to the synced records and `acks` to the `Ok` answers.
  Answers `Duplicate` are left out of it because of the finding `sealer_visible`.

* `FullKeepsAll` is about a view at any distance from the base, also after a restart: an entry
  that is not pinned is its balance at the epoch the view is applied through or, when
  a read installed it from a later one, at that epoch.
* `VisibleStays` relates a state to the next: it is what "an observation that is later
  erased is not a stale read" asks. While a process lives it is about all that is visible. When one dies it is about what
  is `Owed`: the whole visible frontier, recovered epochs included, once a receipt has moved it (the sync behind
  a receipt covers every earlier record), and otherwise as far as the segment is synced. The remainder, a recovered frontier that
  nothing synced, the code may lose: finding 4.
* `MatchIsHeld` is about a follower that may have been cut back, or voted for another, since it
  answered: until it moves to a later term, it still holds what the leader counts.
* `CommittedCannotBeOutvoted` is why the leader commits only entries of its own term: it asks that no
  majority would ever elect a node without a committed entry, and is violated before two histories
  disagree.
* `AtomicCommitSpec` is the refinement; `CoordinatorsAgree` is stronger than it in one respect, as
  it also speaks of decisions that never reached the log.

## 5. Findings

Disagreements between what the code says of itself and what it does, each with
a run that finds it:

1. `rev_split`. `Ledger::deltas_at` returns one row per posting, `apply_epoch`
   applies the first row of a key in an epoch and skips the others as already applied.
   The entry is then wrong for as long as it is resident (`ExactAcrossRows`).
2. `rev_report`. A keyed read AS OF an old epoch misses, folds, and installs a pinned
   entry in a full view; the report check asks about the view and not about its entries.
3. `flight_stranded`. A fold ticket is dropped while a reader is between
   `reap_cancelled` and `mark_joined`: `cancel` sees no joiner and skips the
   rendezvous, the joiner asks the guarded copy of the flag, is admitted, and waits
   for a wake-up that was not sent.
4. `sealer_visible`. A record whose sync failed, or whose process died before it, is
   read back at the next open and published although nothing synced it: `open` syncs
   only a file it trims. A power loss then erases an epoch that was visible.
5. `raft_reordered`. `AppendEntries` cuts the follower's log at the previous index whatever follows
   it. A message overtaken by a later one of the same leader cuts off entries that the follower
   has meanwhile reported committed, against "Truncation is only ever of uncommitted
   entries". The simulator reorders when it is told to, and does not see this: it compares
   `committed_history`, which only grows.
6. `raft_stale_hint`. The same happens on links that keep their order, through three things that are
   harmless one by one. (a) A rejection for a stale term carries the length of the rejecting log, and a leader
   takes it for its next index, though the rejected message may be one it sent in a term it led before. (b) `hash_at` answers
   one and the same sentinel for every index past the end, so a leader whose next index lies past its log sends the
   sentinel, and a follower that lacks the index too finds that the hashes are equal. (c) The follower answers with its own
   length, and the leader takes that for a replica of its log (`MatchIsHeld` fails here). As the simulator fans every
   `AppendEntries` out to all peers, the follower that accepts need not be the one whose hint it was. In the run
   a leader then commits an entry that only it holds, and the next leader cuts it off. The trace: n1 seals two entries in
   term 1 that reach nobody; n2 leads term 2, seals one, and its message to n1 is delayed; n1 leads term 3, brings n3
   its first two entries and seals two more; n1 and n2 stand in term 4, n1 rejects the delayed message with hint 4,
   n3 makes n2 the leader; n2 takes the hint, n3 accepts at index 3 with length 2, and n2 commits its own index 2.

Also seen, without a run:

* Under Always a failed sync inside `append` is answered `Io`, documented as "The epoch did not
  commit" (`sequencer.rs:69`), and the record is committed at the next open (the retry is then
  answered Duplicate, so money is safe).
* Under Every(n), which `Sequencer::open` accepts and the daemon does not use, a sync that fails is answered Io and the
  sealer goes on (`sequencer.rs:486-495`): the record becomes visible with the next batch, and the retry
  commits a second time. `RetriesAreSafe` in the place of `AlwaysRetriesSafe` in `SealerCrash.cfg` finds it.
* With a bounded window the base forgets keys one transaction at a time and the sealer after a
  whole batch, and after a restart they rebuild their windows in different orders. The base may then accept
  a key to which the sink answers Duplicate: the client gets an error, the
  base keeps an epoch that is in no segment, and the next receipt's `fetch_max` publishes past it
  (`rev_engine.rs:656-671`).
* A retry of an append whose sink failed, or has not answered yet, is told Duplicate by the base
  although nothing is durable (the comment at `rev_engine.rs:1294` notes the order).
* On an empty ledger `head()` is 0, as on a ledger of one epoch. The seeding loop then takes
  the view past epoch 0, the first append is never applied to it (an entry read before
  it stays wrong, a full view misses its accounts), and a frontier of 0 makes epoch 0
  readable before it is durable. The models start with a seeded epoch 0.
* After `BrokenChain` the next heartbeat backs up like after any other rejection, against the comment at
  `consensus/src/lib.rs:447`.

## 6. Proofs

`RevViewProofs` proves about `RevView`, for any finite sets of keys and readers,
any integers as deltas and any bounds:

* `TypeCorrect`: `Spec => []TypeOK`
* `EntriesCertified`: `Spec => []CertifiedInterval`, given `~Full`
* `ReadsExact`: `Spec => []AnswersExact`, given `~Full`
* `Inductive`: `Spec => []IInv`, given `~Full`, which these two rest on.

Assumed everywhere: `ConstantsAssumption`. Nothing is assumed of the rows of an epoch. The two properties say themselves what
they claim of a key that an epoch names twice: nothing of the entry's value at anchors from that epoch on (`Netted`), where
`rev_split` shows that there is nothing to claim. That the view is partial (`~Full`) is
a hypothesis, because
a full view takes a delta for a whole value when a key that was posted to has no entry (`AbsentIsUntouched` is what the
lemmas ask instead; `DurableEngineProofs` shows that the engine provides it, so its theorems are about both kinds of view). The types
need neither: what a merge
installs is stamped with an epoch of the history however many rows its epochs hold (`BaseInv`, `LandFoldTypes`).

The argument. `IInv` adds to the three properties what keeps them. About the base:
a fold at an epoch is the fold before it plus the row of the epoch, and keys an epoch
does not name keep their fold (`BaseInv`); the sum of the rows is the first of them when there is no other (`RowsNet`). So an entry stamped at the last delta of its key
is exact through the applied frontier, and an applied delta moves both ends
together; a pinned entry is certified at its stamp only, and takes no delta. About
flights: a generation belongs to one flight, a ticket's flight has the anchor of
the ticket, and a waiter has the anchor and key of the owner whose generation it
waits for (`FlightInv`); so publishing hands each waiter the fold it asked for. Each
action has a lemma; a last step combines them. `IInv` was model-checked before it was
proved.

`SealerProofs` proves about `Sealer`, for any submitters, keys, policies, windows
and bounds:

* `Implements`: `Spec => DurableSpec`, the refinement of `DurableLog`
* `PublishesDurable`: `Spec => PublishIsDurable`
* `RetriesSafe`: `Spec => []AlwaysRetriesSafe`, for windows of any size, through crashes and restarts
* `Types`: `Spec => []TypeOK`, with `TypedInductive` below it
* `TellsTheTruth`: `Spec => RepliesTrue`, for windows of any size
* `Inductive`: `Spec => []IInv`, which they rest on.

The argument. `IInv` says where a batch stands: whoever is in the queue or in the
batch waits, and waits in one place (`Waits`), so its key cannot change before it is
answered; from the write to the answer the last record is the batch
(`BatchRecorded`); and by the time the epoch is published the whole file is synced,
through `append` under Always and through the sealer otherwise (`SyncedInTime`). So what
`Answer` acknowledges is on stable storage, and `HistoryKept` shows that no step takes a
synced record back.

`RetriesSafe` says that a key which commits twice does so only when more transactions than the window may hold
have committed in between. It rests on `FarInv`, whose parts are about the file under Always:

* the window lists its keys from the oldest commit to the newest (`OldestFirst`);
* a key of the file that the window has lost is *outgrown*: more transactions than the window may hold
  have committed since (`ForgottenFar`);
* two commits of one key are outgrown, the first by the second (`RepeatsFar`).

The step that matters is the one that drops a key. Those that stay are one more than the window holds when the key leaves,
they are all different, and by `OldestFirst` none is older than the key that leaves. So each has a place of its own in the
records since, and there are at least as many transactions there as keys (`LeavesWhenOld`, by cardinalities: `Places`,
`KeysHavePlaces`). A batch that is written holds no key of the window, so whichever of its keys is in the file is
outgrown already, and `RepeatsFar` follows. A record whose sync failed is not in the window, but then the sealer has stopped
and the window is rebuilt from the file. Under Every(n) it has not stopped, which is why the theorem is about Always.

The types of the sealer need an invariant of their own (`TInv`): that whoever waits is owed exactly one answer, by the queue or the batch
(`AllOwed`), and that the window is right. The window has two forms, the map
`seen` and the list `order`, which name the same keys, and what it remembers of a key is the newest epoch that holds it (`WindowInv`). So a key that is found in it is answered with
a true epoch, and a key that is not is new to it until the batch is answered (`BatchInv`), also when the window has
forgotten it. That the rebuilt list names every key once is proved by counting ranks (`RecoveredFacts`); the sort of the
library is opaque to the provers, so `RecoveredOrder` defines the order by ranks too.

`RaftGroupProofs` proves about `RaftGroup`, for any finite set of nodes, any bounds,
and links that reorder or not:

* `TypeCorrect`: `Spec => []TypeOK`
* `OneLeaderPerTerm`: `Spec => []ElectionSafety`
* `LogsMatch`: `Spec => []LogMatching`
* `LogInductive`: the invariant the last one rests on.

The argument. Election safety needs each node's vote in past terms, which the state no longer
has. The invariant says that a function from nodes and terms to votes exists that
explains everything in sight: the votes of the present, the votes in flight, the votes
counted by candidates and by leaders. Two leaders of one term have two majorities, which meet in a node that voted
once. Log matching needs that leaders are unique: every copy of a log, in a node or in an `AppendEntries`, agrees
with every other up to any entry of the same term, and the leader of a term has
every entry of that term anywhere. `ExtremeElements` has the lemmas on greatest elements, sums and
majorities that the proofs use, as the library's folds are opaque to the provers.

`RaftCommitProofs` proves about the same module what the group promises its clients, for any finite set of nodes and any bounds:

* `HistoriesNeverFork`: `[]HistoriesAgree`
* `CommittedNeverTruncated`: `[]CommittedStaysInLog`
* `MatchedIsReplicated`: `[]MatchIsHeld`
* `CommittedIsKeptByVotes`: `[]CommittedCannotBeOutvoted`
* `CommitInductive`: the invariant they rest on.

Each is proved of `Spec /\ [][~TakesHintPastLog]_vars`, given `~Reorder`. Both premises are necessary: `raft_reordered` is a
counterexample without the second, and `raft_stale_hint` without the first. `TakesHintPastLog` is the one step of finding 6 where a
leader takes the hint of a `StaleTerm` rejection that lies past the end of its own log; a leader that took the smaller of the hint and
its own length would never take it. Finding 6 was met when the proof could not do without this premise.

The argument. Agreement needs the logs of the past: a vote of term t was given with the log of that moment, and the voter's
log has changed since. The invariant says that a function `h` exists that gives, for each node and term, the log with
which the node left that term (`Remembers`), and that explains what is in sight. An entry of term t is `Blocked` at an index
when a majority left term t without it: it was not committed and never will be. A log is `Safe` for a term when, of
every entry of every earlier term, it has the entry or the entry is blocked. Leaders are safe (`LeadersSafe`), and so is all that they
send (`AppendsSafe`): the majority that elects a leader either holds the newest such entry, and then the
leader's log is as good and has it, or shows that it is blocked (`VotesSafe`). A committed entry was on a majority in its own
term, so it is not blocked, and every leader after it has it. The match indices are where the order of a link is needed: what the leader
counts, the peer held when it answered, and no message of that leader that is still on its way is shorter (`CommitInv`).

`FlightProofs` proves about `FlightRendezvous`, for any finite set of readers and any number of places:

* `FlightTyped`: `Spec => []TypeOK`
* `PlacesCounted`: `Spec => []PlacesMatch`
* `PublicationReachesAll`: `Spec => []PublishReachesAll`
* `KeepsPromise`: `Spec => PromiseSpec`, the refinement of `FlightPromise`
* `FlightInductive`, `StoredInductive`: the invariants they rest on.

The argument. The view lock covers all of `begin_read` and all of `finish_fold` (`LockHeld`), and a flight is
found only while it is in the table, from which its owner takes it before it publishes (`InTable`). So whoever has a place got it before the
owner looked at `joined`, and marked the flight first (`MarkedFirst`): the check that lets `publish` skip the rendezvous
sees the mark whenever anybody waits. When it does not skip, the answer is stored before the notification (`AnswerStored`), and
nobody parks after it (`AllWoken`). The refinement adds that an answer or a cancellation that is stored tells how far the
owner has come (`StoredByOwner`), so there is one end and not both; while neither is stored, those with a place are
those who wait (`WaitingHavePlaces`), and the step that stores it ends every wait at once. `cancel` is called without the view lock, and there the same argument fails: finding 3.

`CrossShardProofs` proves about `CrossShard`, for any shards, epochs, currencies, movements and
coordinators:

* `TypeCorrect`, `ToldFromLog` (`ToldIsRecorded`), `OneDecision` (`CoordinatorsAgree`),
  `AllOrNone` (`SameAtEveryAnchor`)
* `Implements`: `Spec => AtomicCommitSpec`
* `Inductive`: the invariant they rest on.

The argument. What a participant answers never changes, so a complete set of votes, whoever collected it, is the set of
answers, and the decision is a function of the answers and the movements. So every decision anywhere, in a coordinator,
in the log, on its way or applied, is that function's value, and the first record is as good as any.

`RevViewProofs` also proves what the view holds and leaks, partial or full, whatever the rows of its epochs:

* `OneTicketPerFlight`: `Spec => []SingleFlight`
* `MarkersHaveFlights`: `Spec => []MarkerHasFlight`
* `StateIsBounded`: `Spec => []BoundedState`
* `StateInductive`: the invariant they rest on.

The argument. A generation is on one ticket, and a flight that is not dead has the owner that
holds it (`OwnersInv`), so only that owner can settle it; a wipe takes the flights of all
tickets issued before it, and what it issues after is above all of them. A marker stays as long as its flight, and
a reap takes both. `resident` is the number of entries, an epoch adds to a full view exactly those it counts, a
landing adds one and evicts exactly the excess (`CountInv`), and a flight starts only when the table has room (`TableInv`).

`DurableEngineProofs` proves about `DurableEngine`, for any keys, readers and bounds and for both kinds of view:

* `FrontierStays`: `DurableEngineSpec => VisibleStays`
* `FullViewKeepsAll`: `DurableEngineSpec => []FullKeepsAll`
* `EngineEntriesCertified`: `DurableEngineSpec => []CertifiedInterval`
* `EngineInductive`: the invariant the last two rest on.

None has a hypothesis beyond the assumptions on the constants; the first two of the view carry the premise `Netted` in their
formulas, for the value of a key and not for its presence.

The argument. The frontiers are ordered (`FrontierInv`): what is visible is synced, or stands exactly where recovery
put it, and both are below what was given to the sink and the head. So a frontier that a receipt has moved is synced, with all that was
recovered below it; a death keeps what is synced, and a
restart cuts the base back to an epoch that the sink was given. For the view, `LockInv` is what the
engine's locks add to `IInv`: every marker belongs to a reader that folds, and while an epoch is applied nobody
does. So an epoch always meets a full view without markers, in which every account posted to has its entry
(`PostedAreResident`), and a delta is taken for a whole value only when it is one. A full view evicts nothing, and
the next process starts from a view that is exact at its first epoch, however far behind the recovered base.

Only model-checked:

* Liveness: `SubmitReturns` and `JoinedInTimeLeaves`. Fairness and ENABLED are out of the prover's reach.

Neither proved nor true: the exactness of an entry past an epoch that names its key twice (`rev_split` refutes it), that a recovered
frontier which nothing synced survives a further death (finding 4), and the exactness of a
full view outside the engine's locks (it is proved in `DurableEngineProofs` where the code uses it).

## 7. Not modelled

Inside the modelled components: statistics and counters; `Unsupported` and plan
checks; the stride of the Bounded rung; arithmetic overflow of balances; decoding
errors of envelopes and records and damage inside a segment; the engine's idempotency window and the
base's admission of a transaction by balance and holds; the empty ledger; scan folds.

The side-car store is the one stateful component left out that would repay a model: its compaction
writes a new file and renames it. The distributed read path, the consistency ladder,
the hash chain and the scan fold are pure functions of an immutable prefix. Most of the
repository is neither: a language with its parser, checker, optimizer and interpreter,
client protocols, benchmarks and their drivers, and documents. Their correctness is about syntax trees, bytes and
measurements, which tests and types reach and a model of states does not. Other components: see `PROJECT.json`.
