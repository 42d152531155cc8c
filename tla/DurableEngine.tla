--------------------------- MODULE DurableEngine ---------------------------
(***************************************************************************)
(* The serving engine with a durable sink (src/crates/nilestream-server/   *)
(* src/rev_engine.rs, RevEngine::append, Pending, with_durable_bounded):   *)
(* an append is applied to the base and the view under the write guard,    *)
(* its record becomes durable after the guard is released, and the client  *)
(* that waits for it makes its epoch visible.  Reads are anchored at what  *)
(* is visible, behind the base they fold and the view they ask.            *)
(*                                                                         *)
(* The sink is used through its contract (DurableLog, which Sealer         *)
(* implements): it answers in the order it was given the epochs, and a     *)
(* restart finds at least what it answered and at most what it was given.  *)
(* What a restart finds beyond is not durable: the segment is synced when  *)
(* it is opened only if a torn record had to be cut off, and the next      *)
(* death may take the rest away although it was visible.                   *)
(* Epoch 0 stands for the seeded prefix, which every process rebuilds.     *)
(***************************************************************************)
EXTENDS RevEngine

CONSTANT MaxLives   \* bound: the processes that one behaviour may see

ASSUME DurableAssumption == MaxLives \in Nat

VARIABLES
    writing,   \* does an append hold the write guard?
    sink,      \* the sealer thread: up, or stopped by a failing disk
    sent,      \* the last epoch handed to the sink
    synced,    \* the last epoch on stable storage: every answer lies below it
    recovered, \* the last epoch this process found in the segment
    visible,   \* the frontier reads are anchored at
    life       \* the processes so far

sinkVars == <<sent, synced, sink>>
procVars == <<recovered, life>>
engineVars == <<vars, writing, sinkVars, procVars, visible>>

-----------------------------------------------------------------------------
(* RevEngine::append                                                       *)

\* The base takes the epoch and the sink its record, under the write guard.
AppendSent ==
    /\ ~writing /\ ~Reading
    /\ sink = "up"
    /\ SealEpoch
    /\ writing' = TRUE
    /\ sent' = head + 1
    /\ UNCHANGED <<synced, sink, visible, procVars>>

\* The sink takes no more: the base keeps the epoch, and the view is not told.
AppendRefused ==
    /\ ~writing /\ ~Reading
    /\ sink = "stopped"
    /\ SealEpoch
    /\ UNCHANGED <<writing, sinkVars, visible, procVars>>

\* Runtime::advance, one epoch at a time: the new one, after a restart all that
\* were recovered before it.  The guard goes with the last.
AdvanceView ==
    /\ writing
    /\ ApplyEpoch
    /\ writing' = (next_to_apply < head)
    /\ UNCHANGED <<sinkVars, visible, procVars>>

-----------------------------------------------------------------------------
(* The sink, and the clients that wait for it                              *)

\* Some of the epochs given to this process's sink are synced, and with them
\* all that precedes them in the segment.
SinkCommits ==
    /\ sink = "up"
    /\ synced' \in Larger(synced, recovered) + 1 .. sent
    /\ UNCHANGED <<vars, writing, sent, sink, visible, procVars>>

SinkStops ==
    /\ sink = "up"
    /\ sink' = "stopped"
    /\ UNCHANGED <<vars, writing, sent, synced, visible, procVars>>

\* Mutant: the receipt is for what the sink was given.
ReceiptOnSend == sent

\* The receipts that have come back, through which epoch.
Receipted == synced

\* Pending::wait of the client that appended epoch e.  Clients wait in any
\* order, so the frontier may jump (fetch_max), and a receipt may be dropped.
Publishes(e) ==
    /\ e <= Receipted
    /\ visible' = e
    /\ UNCHANGED <<vars, writing, sinkVars, procVars>>

-----------------------------------------------------------------------------
(* Reads, and the next process                                             *)

KeyedReadVisible ==
    /\ ~writing
    /\ ReadAsOf(visible)
    /\ UNCHANGED <<writing, sinkVars, visible, procVars>>

ReaderSteps ==
    /\ \E r \in Readers : FinishFold(r) \/ DropWait(r)
    /\ UNCHANGED <<writing, sinkVars, visible, procVars>>

\* Runtime::install and the seeding loop; recovery does not advance the view.
SeededSlot(k) ==
    IF Full /\ Touched(k, 0) THEN Present(epochs[0].rows[k].lead, 0) ELSE Absent

\* The process dies, and its successor replays what the segment holds, through
\* some epoch the sink was given and no earlier than what is synced, and makes
\* it visible.  Segment::open syncs the file only after it cut off a torn record,
\* which is one that followed the last it keeps.
Restart ==
    /\ life < MaxLives
    /\ life' = life + 1
    /\ \E last \in synced .. sent :
          /\ head' = last
          /\ epochs' = [e \in 0 .. last |-> epochs[e]]
          /\ sent' = last
          /\ \/ synced' = synced
             \/ last < sent /\ synced' = last
          /\ recovered' = last
          /\ visible' = last
    /\ sink' = "up"
    /\ writing' = FALSE
    /\ slots' = [k \in Keys |-> SeededSlot(k)]
    /\ resident' = Cardinality({k \in Keys : SeededSlot(k) # Absent})
    /\ pinned' = {}
    /\ meta' = {}
    /\ applied' = 0
    /\ next_to_apply' = 1
    /\ in_flight' = [k \in Keys |-> NoFlight]
    /\ flight_generation' = 0
    /\ rd' = [r \in Readers |-> Idle]
    /\ wiped_at' = 0

-----------------------------------------------------------------------------

DurableInit ==
    /\ Init
    /\ writing = FALSE
    /\ sink = "up"
    /\ sent = 0 /\ synced = 0 /\ recovered = 0 /\ visible = 0
    /\ life = 1

DurableNext ==
    \/ AppendSent \/ AppendRefused \/ AdvanceView
    \/ SinkCommits \/ SinkStops
    \/ \E e \in visible + 1 .. sent : Publishes(e)
    \/ KeyedReadVisible \/ ReaderSteps
    \/ Restart

DurableEngineSpec == DurableInit /\ [][DurableNext]_engineVars

-----------------------------------------------------------------------------
(* Properties                                                              *)

\* What must outlive the process: the whole visible frontier once a receipt has
\* moved it, recovered epochs below it included.  A frontier that stands where
\* recovery put it is good only as far as the segment is synced.
Owed == IF visible > recovered \/ visible < synced THEN visible ELSE synced

\* What a client could read stays readable and stays what it was.  While the
\* process lives its frontier never goes back and no epoch below it changes,
\* also when sinks stop, appends are refused and receipts come in any order; when
\* it dies, once or again, the next one has all that is owed ("an observation
\* that is later erased is not a stale read", RevEngine::frontier).
VisibleStays ==
    [][ LET kept == IF life' = life THEN visible ELSE Owed
        IN /\ kept <= visible'
           /\ \A e \in 0 .. kept : e <= head' /\ epochs'[e] = epochs[e] ]_engineVars
=============================================================================
