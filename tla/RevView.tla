------------------------------- MODULE RevView -------------------------------
(***************************************************************************)
(* The partially materialised view runtime of nilestream-core              *)
(* (src/crates/nilestream-core/src/rev.rs).                                *)
(*                                                                         *)
(* A view caches, per key, the fold of an append-only base.  A read names  *)
(* an anchor epoch.  It is answered from the cache when the anchor lies in *)
(* the interval an entry is certified for; otherwise the reader folds the  *)
(* base outside the view lock, and one such fold per key (the flight) may  *)
(* install its result and be joined by readers of the same anchor.  Epochs *)
(* are sealed and applied to the view while folds are in the air; a fold   *)
(* may be abandoned, the view may be wiped, and entries are evicted to a   *)
(* budget.                                                                 *)
(*                                                                         *)
(* An action is one critical section under the view lock, except SealEpoch *)
(* (the base's own lock) and the two that drop a ticket (no lock).         *)
(***************************************************************************)
EXTENDS Integers, FiniteSets

CONSTANTS
    Keys,          \* group keys of the view
    Readers,       \* concurrent callers of begin_read / finish_fold
    Deltas,        \* amounts one row may carry
    MaxEpoch,      \* bound: the last epoch the base seals
    MaxGeneration, \* bound: the flights one behaviour may own
    Budget,        \* resident entries a partial view may hold
    MaxFlights,    \* MAX_FLIGHTS
    MaxWaiters,    \* MAX_WAITERS
    CapEpochs,     \* MergeCaps::max_epochs (0 is MergeCaps::OFF)
    CapRows,       \* MergeCaps::max_rows
    Full,          \* Materialize::Full, which also means no budget
    SplitKeys      \* keys that an epoch may name in two rows, one per posting

ASSUME ConstantsAssumption ==
    /\ IsFiniteSet(Keys) /\ IsFiniteSet(Readers)
    /\ Deltas \subseteq Int
    /\ MaxEpoch \in Nat
    /\ MaxGeneration \in Nat
    /\ Budget \in Nat
    /\ MaxFlights \in Nat \ {0}
    /\ MaxWaiters \in Nat
    /\ CapEpochs \in Nat
    /\ CapRows \in Nat
    /\ Full \in BOOLEAN
    /\ SplitKeys \subseteq Keys

VARIABLES
    head,              \* the newest sealed epoch
    epochs,            \* per sealed epoch: the rows of each key, and the fold
    slots,             \* the cache: absent, pending(at) or present(val, at)
    pinned,            \* keys whose entry is true at its own stamp only
    meta,              \* keys that hold eviction-policy metadata
    resident,          \* the counter the budget is enforced against
    applied,           \* the epoch deltas are applied through
    next_to_apply,     \* the first epoch not yet applied
    in_flight,         \* the owned fold of each key; generation 0 is none
    flight_generation, \* the last generation handed out
    rd,                \* what each reader holds: a ticket, a place, an answer
    wiped_at           \* history: the generation current at the last wipe

base == <<head, epochs>>
view == <<slots, pinned, meta, resident, applied, next_to_apply>>
flights == <<in_flight, flight_generation>>
vars == <<base, view, flights, rd, wiped_at>>

-----------------------------------------------------------------------------
(* The base: an immutable history (trait Base).                            *)

\* The rows an epoch may hold for one key: how many, the first, their sum.
Rows == {[n |-> 0, lead |-> 0, sum |-> 0]}
          \cup {[n |-> 1, lead |-> d, sum |-> d] : d \in Deltas}
          \cup {[n |-> 2, lead |-> p[1], sum |-> p[1] + p[2]] : p \in Deltas \X Deltas}

\* The rows an epoch may hold.
EpochRows ==
    {rows \in [Keys -> Rows] : \A k \in Keys \ SplitKeys : rows[k].n < 2}

\* Base::reconstruct: the fold of k over the prefix ending at epoch e.
Reconstruct(k, e) == epochs[e].total[k]

\* Does Base::deltas_at(e) name k?
Touched(k, e) == epochs[e].rows[k].n > 0

\* No epoch through a names k in more than one row (deltas_at, which the ledger
\* builds row by row of its postings).
Netted(k, a) == \A e \in 0 .. a : epochs[e].rows[k].n < 2

\* Base::delta_rows_at, summed over the epochs after a and through b.
RowsAfter(a, b) ==
    Cardinality({row \in (a + 1 .. b) \X Keys \X {1, 2} :
                     row[3] <= epochs[row[1]].rows[row[2]].n})

\* The record of an epoch holding these rows on top of the fold so far.
EpochRec(rows, before) ==
    [rows |-> rows, total |-> [k \in Keys |-> before[k] + rows[k].sum]]

\* Ledger::submit: one more epoch on an immutable past.
SealEpoch ==
    /\ head < MaxEpoch
    /\ \E rows \in EpochRows :
         epochs' = [e \in 0 .. head + 1 |->
                      IF e <= head THEN epochs[e]
                      ELSE EpochRec(rows, epochs[head].total)]
    /\ head' = head + 1
    /\ UNCHANGED <<view, flights, rd, wiped_at>>

-----------------------------------------------------------------------------
(* Slots, tickets and the interval an entry is certified for.              *)

Larger(a, b) == IF a >= b THEN a ELSE b

Absent == [tag |-> "absent", val |-> 0, at |-> 0]
Pending(e) == [tag |-> "pending", val |-> 0, at |-> e]
Present(v, e) == [tag |-> "present", val |-> v, at |-> e]

IsPresent(k) == slots[k].tag = "present"

\* The last anchor the entry of k may answer: its own stamp when pinned,
\* otherwise every epoch the view has applied as well.
Effective(k) == IF k \in pinned THEN slots[k].at
                ELSE Larger(slots[k].at, applied)

\* Rev::hit
Hits(k, a) == IsPresent(k) /\ slots[k].at <= a /\ a <= Effective(k)

NoFlight == [anchor |-> 0, gen |-> 0, cancelled |-> FALSE, marked |-> FALSE]
Flying == {k \in Keys : in_flight[k].gen > 0}
Dead == {k \in Flying : in_flight[k].cancelled}

Idle == [st |-> "idle"]
Fold(k, a, g) == [st |-> "fold", key |-> k, anchor |-> a, gen |-> g]
Wait(k, a, g) == [st |-> "wait", key |-> k, anchor |-> a, gen |-> g]
Answer(k, a, v) == [st |-> "done", key |-> k, anchor |-> a, val |-> v]
Hit(k, a, v) == [st |-> "hit", key |-> k, anchor |-> a, val |-> v]

CanRead(r) == rd[r].st \in {"idle", "done", "hit"}
Folding(r) == rd[r].st = "fold"
Waiting(r) == rd[r].st = "wait"

\* A fold owned by the view carries its flight's generation; one that only
\* answers its own caller carries 0 and will not install.
Installs(r) == Folding(r) /\ rd[r].gen > 0

WaitersOf(g) == {r \in Readers : Waiting(r) /\ rd[r].gen = g}

-----------------------------------------------------------------------------
(* begin_read_with: hit, join, fold alone, or own the flight.              *)

ReadHit(r, k, a) ==
    /\ Hits(k, a)
    /\ rd' = [rd EXCEPT ![r] = Hit(k, a, slots[k].val)]
    /\ UNCHANGED <<base, view, flights, wiped_at>>

Live(k) == k \in Flying \ Dead

\* Mutant: any live flight of the key is joined, whatever its anchor.
JoinFlightOfKey(r, k, a) ==
    /\ ~Hits(k, a)
    /\ Live(k)
    /\ Cardinality(WaitersOf(in_flight[k].gen)) < MaxWaiters
    /\ rd' = [rd EXCEPT ![r] = Wait(k, a, in_flight[k].gen)]
    /\ UNCHANGED <<base, view, flights, wiped_at>>

\* Same key, same anchor, a caller that may wait, and room among the waiters.
JoinFlight(r, k, a) ==
    /\ ~Hits(k, a)
    /\ Live(k) /\ in_flight[k].anchor = a
    /\ Cardinality(WaitersOf(in_flight[k].gen)) < MaxWaiters
    /\ rd' = [rd EXCEPT ![r] = Wait(k, a, in_flight[k].gen)]
    /\ UNCHANGED <<base, view, flights, wiped_at>>

\* The caller's own fold: it may not wait (ReadMode::Alone), the waiter list
\* is full, the flight is at another anchor, or the flight table is full of
\* live flights.
MustFoldAlone(k, a, alone) ==
    \/ /\ Live(k)
       /\ \/ alone
          \/ in_flight[k].anchor # a
          \/ Cardinality(WaitersOf(in_flight[k].gen)) >= MaxWaiters
    \/ /\ k \notin Flying
       /\ Cardinality(Flying) >= MaxFlights
       /\ Dead = {}

FoldAlone(r, k, a) ==
    /\ ~Hits(k, a)
    /\ \E alone \in BOOLEAN : MustFoldAlone(k, a, alone)
    /\ rd' = [rd EXCEPT ![r] = Fold(k, a, 0)]
    /\ UNCHANGED <<base, view, flights, wiped_at>>

\* reap_cancelled on its own key; reclaim_cancelled_flights on every key when
\* the table is full.
Reaped(k) ==
    IF k \in Dead THEN {k}
    ELSE IF Cardinality(Flying) >= MaxFlights THEN Dead ELSE {}

\* Mutant: a reaped flight leaves its marker in the slot.
AfterReapKeepsMarker(k, dead) == slots[k]

\* A reaped flight gives back the absence its marker replaced, if the marker
\* is still there.
AfterReap(k, dead) ==
    IF k \in dead /\ in_flight[k].marked /\ slots[k] = Pending(in_flight[k].anchor)
    THEN Absent ELSE slots[k]

\* A new flight.  The marker replaces an absence, never a value.
OwnFlight(r, k, a) ==
    /\ ~Hits(k, a)
    /\ ~Live(k)
    /\ flight_generation < MaxGeneration
    /\ Cardinality(Flying \ Reaped(k)) < MaxFlights
    /\ LET dead == Reaped(k)
           found == AfterReap(k, dead)
           gen == flight_generation + 1
       IN /\ slots' = [j \in Keys |->
                         IF j = k /\ found.tag # "present" THEN Pending(a)
                         ELSE AfterReap(j, dead)]
          /\ in_flight' = [j \in Keys |->
                IF j = k THEN [anchor |-> a, gen |-> gen, cancelled |-> FALSE,
                               marked |-> found.tag # "present"]
                ELSE IF j \in dead THEN NoFlight ELSE in_flight[j]]
          /\ flight_generation' = gen
          /\ rd' = [rd EXCEPT ![r] = Fold(k, a, gen)]
    /\ UNCHANGED <<base, pinned, meta, resident, applied, next_to_apply, wiped_at>>

BeginRead(r, k, a) ==
    /\ CanRead(r)
    /\ \/ ReadHit(r, k, a)
       \/ JoinFlight(r, k, a)
       \/ FoldAlone(r, k, a)
       \/ OwnFlight(r, k, a)

-----------------------------------------------------------------------------
(* finish_fold_merging: install what the fold found, then publish it.      *)

\* Mutant: the budget is enforced before the entry that has just arrived counts.
EvictableLate(present) ==
    {out \in SUBSET present :
        Cardinality(out) = IF Full \/ Cardinality(present) <= Budget + 1 THEN 0
                           ELSE Cardinality(present) - Budget - 1}

\* enforce_budget drops as many entries as the budget is exceeded by; which
\* ones is the eviction policy's affair.  A full view has no budget.
Evictable(present) ==
    {out \in SUBSET present :
        Cardinality(out) = IF Full \/ Cardinality(present) <= Budget THEN 0
                           ELSE Cardinality(present) - Budget}

\* install_at
Install(k, v, stamp, pin) ==
    LET was == {j \in Keys : IsPresent(j)}
    IN \E out \in Evictable(was \cup {k}) :
         /\ slots' = [j \in Keys |-> IF j \in out THEN Absent
                                     ELSE IF j = k THEN Present(v, stamp)
                                     ELSE slots[j]]
         /\ pinned' = (IF pin THEN pinned \cup {k} ELSE pinned \ {k}) \ out
         /\ meta' = (meta \cup {k}) \ out
         /\ resident' = resident + (IF k \in was THEN 0 ELSE 1) - Cardinality(out)

\* merge_suffix: the deltas after the fold's anchor, when within both caps.
MayMerge(a) ==
    /\ a < applied
    /\ applied - a <= CapEpochs
    /\ RowsAfter(a, applied) <= CapRows

\* Mutant: a merged entry is stamped with the first epoch the view has yet to see.
LastDeltaPastEnd(k, a) == applied + 1

\* The epoch of the last delta of k after a, or a when there is none.
LastDelta(k, a) ==
    CHOOSE e \in a .. applied :
        /\ e = a \/ Touched(k, e)
        /\ \A f \in e + 1 .. applied : ~Touched(k, f)

\* Mutant: a fold that lands late is certified through the applied frontier.
LandFoldUnpinned(k, a) == Install(k, Reconstruct(k, a), a, FALSE)

LandFold(k, a) ==
    IF MayMerge(a)
    THEN Install(k, Reconstruct(k, a) + (Reconstruct(k, applied) - Reconstruct(k, a)),
                 LastDelta(k, a), FALSE)
    ELSE Install(k, Reconstruct(k, a), a, a < applied)

\* Mutant: a landing looks up its flight by key and not by generation.
MineByKey(r) == Installs(r) /\ in_flight[rd[r].key].gen > 0

\* Is the flight this ticket was issued for still the one in the table?
Mine(r) == Installs(r) /\ in_flight[rd[r].key].gen = rd[r].gen

\* The owner has its answer, and everyone who joined takes the same value for
\* what they asked.
Publish(r) ==
    LET found == Reconstruct(rd[r].key, rd[r].anchor)
    IN rd' = [q \in Readers |->
                 IF q = r \/ (rd[r].gen > 0 /\ q \in WaitersOf(rd[r].gen))
                 THEN Answer(rd[q].key, rd[q].anchor, found)
                 ELSE rd[q]]

FinishFold(r) ==
    /\ Folding(r)
    /\ IF Mine(r)
       THEN /\ in_flight' = [in_flight EXCEPT ![rd[r].key] = NoFlight]
            /\ LandFold(rd[r].key, rd[r].anchor)
       ELSE UNCHANGED <<in_flight, slots, pinned, meta, resident>>
    /\ Publish(r)
    /\ UNCHANGED <<base, applied, next_to_apply, flight_generation, wiped_at>>

-----------------------------------------------------------------------------
(* Tickets dropped, epochs applied, the view wiped.                        *)

\* Drop for FoldTicket: the flight is marked dead and its waiters go round
\* again; the table entry and the marker stay for a later reader to reap.
DropFold(r) ==
    /\ Folding(r)
    /\ in_flight' = IF Mine(r)
                    THEN [in_flight EXCEPT ![rd[r].key].cancelled = TRUE]
                    ELSE in_flight
    /\ rd' = [q \in Readers |->
                 IF q = r \/ (rd[r].gen > 0 /\ q \in WaitersOf(rd[r].gen)) THEN Idle
                 ELSE rd[q]]
    /\ UNCHANGED <<base, view, flight_generation, wiped_at>>

\* Drop for WaitTicket: the place in the queue is given back.
DropWait(r) ==
    /\ Waiting(r)
    /\ rd' = [rd EXCEPT ![r] = Idle]
    /\ UNCHANGED <<base, view, flights, wiped_at>>

\* Mutant: a delta is added to an entry that already includes its epoch.
FoldedTwice(k, e) ==
    LET s == slots[k]
        d == epochs[e].rows[k].lead
    IN IF k \in pinned \/ ~Touched(k, e) THEN s
       ELSE IF s.tag = "present" THEN Present(s.val + d, e)
       ELSE IF s.tag = "absent" /\ Full THEN Present(d, e)
       ELSE s

\* Mutant: a full view, too, folds deltas into resident entries only.
FoldedIfResident(k, e) ==
    LET s == slots[k]
    IN IF k \notin pinned /\ Touched(k, e) /\ s.tag = "present" /\ s.at < e
       THEN Present(s.val + epochs[e].rows[k].lead, e) ELSE s

\* What apply_epoch(e) makes of one slot.  The first row of a key moves the
\* stamp to e, so a further row of the same epoch is skipped as already seen.
Folded(k, e) ==
    LET s == slots[k]
        d == epochs[e].rows[k].lead
    IN IF k \in pinned \/ ~Touched(k, e) THEN s
       ELSE IF s.tag = "present" /\ s.at < e THEN Present(s.val + d, e)
       ELSE IF s.tag = "absent" /\ Full THEN Present(d, e)
       ELSE s

\* Runtime::advance over one view whose rung is maintained at every epoch.
ApplyEpoch ==
    /\ next_to_apply <= head
    /\ slots' = [k \in Keys |-> Folded(k, next_to_apply)]
    /\ resident' = resident + Cardinality({k \in Keys : /\ ~IsPresent(k)
                                                       /\ Folded(k, next_to_apply).tag = "present"})
    /\ applied' = next_to_apply
    /\ next_to_apply' = next_to_apply + 1
    /\ UNCHANGED <<base, pinned, meta, flights, rd, wiped_at>>

Wipe ==
    /\ slots' = [k \in Keys |-> Absent]
    /\ pinned' = {}
    /\ meta' = {}
    /\ in_flight' = [k \in Keys |-> NoFlight]
    /\ resident' = 0
    /\ wiped_at' = flight_generation
    /\ UNCHANGED <<base, applied, next_to_apply, flight_generation, rd>>

-----------------------------------------------------------------------------

\* Runtime::install, then the seeding loop: epoch 0 is sealed and applied.
Init ==
    /\ head = 0
    /\ epochs \in {[e \in {0} |-> EpochRec(rows, [k \in Keys |-> 0])] :
                       rows \in EpochRows}
    /\ slots = [k \in Keys |-> IF Full /\ Touched(k, 0)
                               THEN Present(epochs[0].rows[k].lead, 0) ELSE Absent]
    /\ pinned = {}
    /\ meta = {}
    /\ resident = Cardinality({k \in Keys : IsPresent(k)})
    /\ applied = 0
    /\ next_to_apply = 1
    /\ in_flight = [k \in Keys |-> NoFlight]
    /\ flight_generation = 0
    /\ rd = [r \in Readers |-> Idle]
    /\ wiped_at = 0

Next ==
    \/ SealEpoch
    \/ ApplyEpoch
    \/ Wipe
    \/ \E r \in Readers, k \in Keys : \E a \in 0 .. head : BeginRead(r, k, a)
    \/ \E r \in Readers : FinishFold(r)
    \/ \E r \in Readers : DropFold(r)
    \/ \E r \in Readers : DropWait(r)

Spec == Init /\ [][Next]_vars

-----------------------------------------------------------------------------
(* Properties.                                                             *)

SlotT == [tag : {"absent", "pending", "present"}, val : Int, at : 0 .. head]
FlightT == [anchor : 0 .. head, gen : 0 .. flight_generation,
            cancelled : BOOLEAN, marked : BOOLEAN]
EpochT == [rows : [Keys -> [n : Nat, lead : Int, sum : Int]],
           total : [Keys -> Int]]
ReaderT == {Idle}
             \cup [st : {"fold", "wait"}, key : Keys, anchor : 0 .. head,
                   gen : 0 .. flight_generation]
             \cup [st : {"done", "hit"}, key : Keys, anchor : 0 .. head, val : Int]

\* The types of the variables of Rev and of its callers' tickets; no stamp and
\* no anchor is ever past the base's head, and the view is applied through a
\* sealed epoch, the one before the next it expects.
TypeOK ==
    /\ head \in Nat
    /\ epochs \in [0 .. head -> EpochT]
    /\ slots \in [Keys -> SlotT]
    /\ pinned \subseteq Keys
    /\ meta \subseteq Keys
    /\ resident \in Int
    /\ applied \in 0 .. head
    /\ next_to_apply = applied + 1
    /\ in_flight \in [Keys -> FlightT]
    /\ flight_generation \in Nat
    /\ rd \in [Readers -> ReaderT]
    /\ wiped_at \in 0 .. flight_generation

\* Every resident entry is the fold of the base at every anchor it may be asked
\* for: at its stamp, and unless pinned at each epoch applied since, whatever
\* folds, landings, merges, evictions and epochs came in between (hit,
\* install_at, merge_suffix and apply_epoch together).  It is claimed of the
\* anchors through which the key has one row per epoch.
CertifiedInterval ==
    \A k \in Keys : IsPresent(k) =>
        \A a \in slots[k].at .. Effective(k) :
            a <= head /\ (Netted(k, a) => slots[k].val = Reconstruct(k, a))

\* A reader's answer is the fold of its key at exactly the anchor it asked for:
\* always when it folded or was handed another reader's fold (Joined), and when
\* it hit, at the anchors through which the key has one row per epoch.
AnswersExact ==
    \A r \in Readers :
        \/ rd[r].st = "done"
        \/ rd[r].st = "hit" /\ Netted(rd[r].key, rd[r].anchor)
        => rd[r].val = Reconstruct(rd[r].key, rd[r].anchor)

\* What the view holds is bounded by its budget and the flight table, however
\* many keys were ever read: entries, markers, policy metadata, pins and the
\* counter the budget is enforced with (enforce_budget, reap_cancelled,
\* begin_read_with).
BoundedState ==
    LET present == {k \in Keys : IsPresent(k)}
        pending == {k \in Keys : slots[k].tag = "pending"}
    IN /\ resident = Cardinality(present)
       /\ meta \cup pinned \subseteq present
       /\ Cardinality(Flying) <= MaxFlights
       /\ Cardinality(pending) <= MaxFlights
       /\ ~Full => Cardinality(present) <= Budget

\* A live flight has exactly one ticket out that will settle it, and a ticket
\* issued since the last wipe still has its flight: no wipe, reap or late
\* completion takes a flight from its owner or strands one without an owner.
SingleFlight ==
    /\ \A k \in Keys : Live(k) =>
          \E r \in Readers : rd[r] = Fold(k, in_flight[k].anchor, in_flight[k].gen)
    /\ \A r \in Readers : Installs(r) /\ rd[r].gen > wiped_at =>
          Mine(r) /\ Live(rd[r].key) /\ in_flight[rd[r].key].anchor = rd[r].anchor

\* A Pending marker always belongs to the flight that placed it, so that
\* settling or reaping the flight removes it: no key is left pending for ever.
MarkerHasFlight ==
    \A k \in Keys : slots[k].tag = "pending" =>
        /\ k \in Flying
        /\ in_flight[k].marked
        /\ slots[k] = Pending(in_flight[k].anchor)

=============================================================================
