------------------------ MODULE DurableEngineProofs ------------------------
(***************************************************************************)
(* Proofs about DurableEngine, for every value of its constants: what was  *)
(* visible stays as far as it is owed, a full view keeps every account,    *)
(* and every entry of a view, full or partial, is exact at the anchors     *)
(* through which its key has one row per epoch, through failing sinks and  *)
(* restarts.                                                               *)
(***************************************************************************)
EXTENDS DurableEngine, RevViewProofs

(***************************************************************************)
(* The frontiers.                                                          *)
(***************************************************************************)

\* What is visible was synced or found by this process, and what was synced,
\* found or made visible was sent and is in the base.
FrontierInv ==
    /\ {visible, recovered, synced, sent, head, life} \subseteq Nat
    /\ recovered <= visible
    /\ visible <= synced \/ visible = recovered
    /\ visible <= sent /\ synced <= sent /\ sent <= head

\* The steps of the engine are steps of the view runtime, except that it dies.
LEMMA EngineSteps ==
  ASSUME FrontierInv, [DurableNext]_engineVars
  PROVE  \/ SealEpoch /\ ~writing /\ ~Reading
         \/ ApplyEpoch /\ writing
         \/ /\ \E r \in Readers, k \in Keys : \E a \in 0 .. head : BeginRead(r, k, a)
            /\ ~writing
            /\ UNCHANGED writing
         \/ /\ \E r \in Readers : FinishFold(r) \/ DropWait(r)
            /\ UNCHANGED writing
         \/ UNCHANGED <<vars, writing>>
         \/ Restart
<1>1. 0 .. visible \subseteq 0 .. head
  BY DEF FrontierInv
<1>2. CASE KeyedReadVisible
  BY <1>1, <1>2 DEF KeyedReadVisible, ReadAsOf
<1> QED
  BY <1>2 DEF DurableNext, AppendSent, AppendRefused, AdvanceView, SinkCommits,
     SinkStops, Publishes, ReaderSteps, engineVars

\* The base is only added to by an append, and only cut back by a restart, to
\* an epoch that the sink was given.
LEMMA BaseMoves ==
  ASSUME FrontierInv, [DurableNext]_engineVars
  PROVE  \/ UNCHANGED base
         \/ SealEpoch
         \/ Restart
BY EngineSteps, OnlySealMovesBase
   DEF Next, vars, ApplyEpoch, BeginRead, ReadHit, JoinFlight, FoldAlone,
       OwnFlight, FinishFold, DropWait

\* What the frontiers promise of a step, and of a death.
Keeps(kept) ==
    kept <= visible' /\ \A e \in 0 .. kept : e <= head' /\ epochs'[e] = epochs[e]

LEMMA FrontierStep ==
  ASSUME FrontierInv, [DurableNext]_engineVars
  PROVE  /\ FrontierInv'
         /\ Keeps(IF life' = life THEN visible ELSE Owed)
<1> USE DEF FrontierInv
\* A step that leaves the frontiers, and of the base at least the past.
<1>1. ASSUME UNCHANGED <<visible, recovered, synced, life>>,
             head' \in Nat, sent' \in sent .. head', head <= head',
             \A e \in 0 .. head : epochs'[e] = epochs[e]
      PROVE  FrontierInv' /\ life' = life /\ Keeps(visible)
  BY <1>1 DEF Keeps
<1>2. CASE AppendSent \/ AppendRefused
  <2>1. head' = head + 1 /\ \A e \in 0 .. head : epochs'[e] = epochs[e]
    BY <1>2 DEF AppendSent, AppendRefused, SealEpoch
  <2>2. UNCHANGED <<visible, recovered, synced, life>> /\ sent' \in {sent, head + 1}
    BY <1>2 DEF AppendSent, AppendRefused, sinkVars, procVars
  <2> QED
    BY <1>1, <2>1, <2>2
<1>3. CASE SinkCommits
  <2>1. /\ UNCHANGED <<visible, recovered, life, sent, head, epochs>>
        /\ synced' \in Larger(synced, recovered) + 1 .. sent
    BY <1>3 DEF SinkCommits, vars, base, procVars
  <2>2. FrontierInv'
    BY <2>1 DEF Larger
  <2> QED
    BY <2>1, <2>2 DEF Keeps
<1>4. ASSUME NEW e \in visible + 1 .. sent, Publishes(e)
      PROVE  FrontierInv' /\ life' = life /\ Keeps(visible)
  <2>1. /\ UNCHANGED <<recovered, synced, life, sent, head, epochs>>
        /\ visible' = e /\ e <= synced
    BY <1>4 DEF Publishes, Receipted, vars, base, sinkVars, procVars
  <2>2. FrontierInv'
    BY <2>1
  <2> QED
    BY <2>1, <2>2 DEF Keeps
<1>5. CASE Restart
  <2>1. PICK last \in synced .. sent :
          /\ head' = last /\ epochs' = [e \in 0 .. last |-> epochs[e]]
          /\ sent' = last /\ synced' \in {synced, last}
          /\ recovered' = last /\ visible' = last
    BY <1>5 DEF Restart
  <2>2. FrontierInv'
    BY <1>5, <2>1 DEF Restart
  <2>3. Owed \in Nat /\ Owed <= synced
    BY DEF Owed
  <2>4. life' = life + 1
    BY <1>5 DEF Restart
  <2> QED
    BY <2>1, <2>2, <2>3, <2>4 DEF Keeps
<1>6. CASE AdvanceView \/ SinkStops \/ KeyedReadVisible \/ ReaderSteps \/ UNCHANGED engineVars
  <2>1. UNCHANGED base
    <3>1. CASE AdvanceView
      BY <3>1 DEF AdvanceView, ApplyEpoch
    <3>2. CASE SinkStops \/ UNCHANGED engineVars
      BY <3>2 DEF SinkStops, engineVars, vars
    <3>3. CASE KeyedReadVisible
      BY <3>3 DEF KeyedReadVisible, ReadAsOf, BeginRead, ReadHit, JoinFlight, FoldAlone,
         OwnFlight
    <3>4. CASE ReaderSteps
      BY <3>4 DEF ReaderSteps, FinishFold, DropWait
    <3> QED
      BY <1>6, <3>1, <3>2, <3>3, <3>4
  <2>2. UNCHANGED <<visible, recovered, synced, sent, life>>
    BY <1>6 DEF AdvanceView, SinkStops, KeyedReadVisible, ReaderSteps, engineVars, sinkVars,
       procVars
  <2> QED
    BY <1>1, <2>1, <2>2 DEF base
<1> QED
  BY <1>2, <1>3, <1>4, <1>5, <1>6 DEF DurableNext

LEMMA FrontierInit == DurableInit => FrontierInv
BY DEF DurableInit, Init, FrontierInv

\* What a client could read stays readable and stays what it was, whatever the
\* sink and the appends do and however often the process dies; after a death this
\* is claimed of what is owed: all that was visible if a receipt had moved the
\* frontier, otherwise what the segment has synced (Pending::wait, recovery).
THEOREM FrontierStays == DurableEngineSpec => VisibleStays
<1>1. FrontierInv /\ [DurableNext]_engineVars => FrontierInv'
  BY FrontierStep
<1>2. FrontierInv /\ [DurableNext]_engineVars
        => [LET kept == IF life' = life THEN visible ELSE Owed
            IN /\ kept <= visible'
               /\ \A e \in 0 .. kept : e <= head' /\ epochs'[e] = epochs[e]]_engineVars
  BY FrontierStep DEF Keeps
<1> QED
  BY <1>1, <1>2, FrontierInit, PTL DEF DurableEngineSpec, VisibleStays

-----------------------------------------------------------------------------
(***************************************************************************)
(* The view under the engine's locks.                                      *)
(***************************************************************************)

\* Whoever placed a marker is still folding, so that none is there when an
\* epoch is applied.
MarkersAreHeld ==
    \A k \in Keys : slots[k].tag = "pending" =>
        \E r \in Readers : /\ Installs(r)
                           /\ rd[r].key = k
                           /\ rd[r].gen = in_flight[k].gen

NoneAbandoned == \A k \in Keys : ~in_flight[k].cancelled

\* A full view has an entry for every key that was posted to.
PostedAreResident ==
    Full => \A k \in Keys :
        (\E e \in 0 .. applied : Touched(k, e)) => IsPresent(k)

LockInv ==
    /\ PinsAreEntries /\ MarkersAreHeld /\ NoneAbandoned /\ PostedAreResident
    /\ writing => ~Reading

EngineInv == FrontierInv /\ IInv /\ LockInv

\* Reads of the engine, which place markers and land folds.
LEMMA ReadKeeps ==
  ASSUME TypeOK, LockInv, ~writing, NEW r \in Readers, NEW k \in Keys,
         NEW a \in 0 .. head, BeginRead(r, k, a), UNCHANGED writing
  PROVE  LockInv'
<1> USE DEF LockInv
<1>1. UNCHANGED <<base, pinned, applied>> /\ ~Folding(r)
  BY DEF BeginRead, ReadHit, JoinFlight, FoldAlone, OwnFlight, view, CanRead, Folding
<1>2. ASSUME UNCHANGED <<slots, in_flight>>,
             \A q \in Readers \ {r} : rd'[q] = rd[q]
      PROVE  LockInv'
  <2>1. MarkersAreHeld'
    BY <1>1, <1>2 DEF MarkersAreHeld, Installs, Folding
  <2> QED
    BY <1>1, <1>2, <2>1 DEF PinsAreEntries, NoneAbandoned, PostedAreResident,
       IsPresent, Touched, base
<1>3. CASE ReadHit(r, k, a) \/ JoinFlight(r, k, a) \/ FoldAlone(r, k, a)
  BY <1>2, <1>3 DEF ReadHit, JoinFlight, FoldAlone, view, flights, TypeOK
<1>4. CASE OwnFlight(r, k, a)
  <2> DEFINE g == flight_generation + 1
  <2>1. Dead = {} /\ Reaped(k) = {}
    BY DEF NoneAbandoned, Dead, Flying, Reaped
  <2>2. \A j \in Keys : AfterReap(j, {}) = slots[j]
    BY DEF AfterReap
  <2>3. /\ slots' = [j \in Keys |->
              IF j = k /\ slots[k].tag # "present" THEN Pending(a) ELSE slots[j]]
        /\ in_flight' = [j \in Keys |->
              IF j = k THEN [anchor |-> a, gen |-> g, cancelled |-> FALSE,
                             marked |-> slots[k].tag # "present"]
              ELSE in_flight[j]]
        /\ rd' = [rd EXCEPT ![r] = Fold(k, a, g)]
    BY <1>4, <2>1, <2>2 DEF OwnFlight
  <2>4. g \in Nat \ {0}
    BY DEF TypeOK
  <2>5. rd'[r] = Fold(k, a, g) /\ \A q \in Readers \ {r} : rd'[q] = rd[q]
    BY <2>3 DEF TypeOK
  <2>6. Installs(r)' /\ rd'[r].key = k /\ rd'[r].gen = g
    BY <2>4, <2>5 DEF Installs, Folding, Fold
  <2> HIDE DEF g
  <2>7. \A j \in Keys : IsPresent(j) => slots'[j] = slots[j] /\ IsPresent(j)'
    BY <2>3 DEF IsPresent
  <2>8. PinsAreEntries'
    BY <1>1, <2>7 DEF PinsAreEntries, TypeOK
  <2>9. PostedAreResident'
    BY <1>1, <2>7 DEF PostedAreResident, Touched, base
  <2>10. NoneAbandoned'
    BY <2>3 DEF NoneAbandoned
  <2>11. MarkersAreHeld'
    <3> SUFFICES ASSUME NEW j \in Keys, slots'[j].tag = "pending"
                 PROVE  \E q \in Readers : /\ Installs(q)'
                                           /\ rd'[q].key = j
                                           /\ rd'[q].gen = in_flight'[j].gen
      BY DEF MarkersAreHeld
    <3>1. CASE j = k
      BY <2>3, <2>6, <3>1
    <3>2. CASE j # k
      <4>1. slots[j].tag = "pending" /\ in_flight'[j] = in_flight[j]
        BY <2>3, <3>2
      <4>2. PICK q \in Readers : /\ Installs(q) /\ rd[q].key = j
                                 /\ rd[q].gen = in_flight[j].gen
        BY <4>1 DEF MarkersAreHeld
      <4>3. q # r
        BY <1>1, <4>2 DEF Installs
      <4> QED
        BY <2>5, <4>1, <4>2, <4>3 DEF Installs, Folding
    <3> QED
      BY <3>1, <3>2
  <2> QED
    BY <2>8, <2>9, <2>10, <2>11
<1> QED
  BY <1>3, <1>4 DEF BeginRead

LEMMA FinishKeeps ==
  ASSUME TypeOK, LockInv, NEW r \in Readers, FinishFold(r) \/ DropWait(r),
         UNCHANGED writing
  PROVE  LockInv'
<1> USE DEF LockInv
<1>1. UNCHANGED <<base, applied>> /\ (Folding(r) \/ Waiting(r))
  BY DEF FinishFold, DropWait, view
<1>2. rd[r].key \in Keys /\ rd[r].anchor \in 0 .. head
  BY <1>1, TicketFields
<1>3. \A q \in Readers : /\ Folding(q)' => rd'[q] = rd[q]
                         /\ q # r /\ Folding(q) => rd'[q] = rd[q]
  BY DEF FinishFold, DropWait, Publish, WaitersOf, Waiting, Folding, Idle, Answer, TypeOK
<1>4. /\ PinsAreEntries'
      /\ \A j \in Keys : /\ slots'[j].tag = "pending" => slots'[j] = slots[j]
                         /\ Full /\ IsPresent(j) => IsPresent(j)'
  BY <1>2, LandFoldKeeps DEF FinishFold, DropWait, view, PinsAreEntries, IsPresent
<1>5. PostedAreResident'
  BY <1>1, <1>4 DEF PostedAreResident, Touched, base
<1>6. NoneAbandoned'
  BY DEF NoneAbandoned, FinishFold, DropWait, flights, NoFlight, TypeOK
<1>7. MarkersAreHeld'
  <2> SUFFICES ASSUME NEW j \in Keys, slots'[j].tag = "pending"
               PROVE  \E q \in Readers : /\ Installs(q)'
                                         /\ rd'[q].key = j
                                         /\ rd'[q].gen = in_flight'[j].gen
    BY DEF MarkersAreHeld
  <2>1. PICK q \in Readers : /\ Installs(q) /\ rd[q].key = j
                             /\ rd[q].gen = in_flight[j].gen
    BY <1>4 DEF MarkersAreHeld
  <2>2. q # r /\ in_flight'[j] = in_flight[j]
    <3>1. CASE DropWait(r)
      BY <2>1, <3>1 DEF DropWait, flights, Installs, Folding, Waiting
    <3>2. CASE FinishFold(r) /\ ~Mine(r)
      BY <2>1, <3>2 DEF FinishFold, Mine
    <3>3. CASE FinishFold(r) /\ Mine(r)
      <4>1. j # rd[r].key
        BY <1>2, <3>3, LandFoldKeeps DEF FinishFold
      <4> QED
        BY <2>1, <3>3, <4>1 DEF FinishFold, TypeOK
    <3> QED
      BY <3>1, <3>2, <3>3
  <2> QED
    BY <1>3, <2>1, <2>2 DEF Installs, Folding
<1>8. Reading' => Reading
  BY <1>3 DEF Reading, Folding
<1> QED
  BY <1>4, <1>5, <1>6, <1>7, <1>8

\* An epoch is applied when nobody folds, and so to a view without markers.
LEMMA ApplyKeeps ==
  ASSUME TypeOK, LockInv, ~Reading, ApplyEpoch
  PROVE  AbsentIsUntouched /\ LockInv'
<1> USE DEF LockInv
<1> DEFINE e == next_to_apply
<1>1. /\ e = applied + 1 /\ applied \in Nat /\ applied' = e
      /\ UNCHANGED <<base, pinned, in_flight, rd>>
      /\ slots' = [k \in Keys |-> Folded(k, e)]
  BY DEF ApplyEpoch, TypeOK, flights
<1>2. \A k \in Keys : slots[k].tag \in {"absent", "present"}
  BY DEF MarkersAreHeld, Installs, Reading, TypeOK, SlotT
<1>3. AbsentIsUntouched
  BY <1>2 DEF PostedAreResident, AbsentIsUntouched, IsPresent
<1> HIDE DEF e
<1>4. \A k \in Keys : /\ slots'[k].tag # "pending"
                      /\ IsPresent(k) => IsPresent(k)'
                      /\ Full /\ Touched(k, e) => IsPresent(k)'
  <2> SUFFICES ASSUME NEW k \in Keys
               PROVE  /\ slots'[k].tag # "pending"
                      /\ IsPresent(k) => IsPresent(k)'
                      /\ Full /\ Touched(k, e) => IsPresent(k)'
    OBVIOUS
  <2>1. slots'[k] = Folded(k, e)
    BY <1>1
  <2> QED
    BY <1>2, <2>1 DEF Folded, Present, IsPresent, PinsAreEntries
<1>5. PinsAreEntries'
  BY <1>1, <1>4 DEF PinsAreEntries, TypeOK
<1>6. PostedAreResident'
  BY <1>1, <1>4 DEF PostedAreResident, Touched, base
<1> QED
  BY <1>1, <1>3, <1>4, <1>5, <1>6
     DEF MarkersAreHeld, NoneAbandoned, Reading, Folding

LEMMA SealKeeps ==
  ASSUME TypeOK, LockInv, ~Reading, SealEpoch
  PROVE  LockInv'
<1>1. /\ UNCHANGED <<view, in_flight, rd>>
      /\ \A e \in 0 .. head : epochs'[e] = epochs[e]
      /\ applied \in 0 .. head
  BY SealKeepsPast DEF SealEpoch, flights, TypeOK
<1>2. \A k \in Keys : \A e \in 0 .. applied : Touched(k, e)' <=> Touched(k, e)
  BY <1>1 DEF Touched, TypeOK
<1> QED
  BY <1>1, <1>2 DEF LockInv, PinsAreEntries, MarkersAreHeld, NoneAbandoned,
     PostedAreResident, IsPresent, Installs, Reading, Folding, view

\* The next process starts with a prefix of the base and with a view of its
\* first epoch.
LEMMA RestartKeeps ==
  ASSUME FrontierInv, IInv, Restart
  PROVE  IInv' /\ LockInv'
<1> USE DEF IInv
<1>1. PICK last \in 0 .. head :
        head' = last /\ epochs' = [e \in 0 .. last |-> epochs[e]]
  BY DEF Restart, FrontierInv
<1>2. /\ head \in Nat /\ head' \in Nat
      /\ \A e \in 0 .. head' : e \in 0 .. head /\ epochs'[e] = epochs[e]
  BY <1>1 DEF TypeOK
<1>3. /\ slots' = [k \in Keys |-> SeededSlot(k)]
      /\ pinned' = {} /\ meta' = {} /\ applied' = 0 /\ next_to_apply' = 1
      /\ in_flight' = [k \in Keys |-> NoFlight] /\ flight_generation' = 0
      /\ rd' = [r \in Readers |-> Idle] /\ wiped_at' = 0
      /\ writing' = FALSE
  BY DEF Restart
<1>4. \A k \in Keys : \A e \in 0 .. head' :
        /\ Touched(k, e)' <=> Touched(k, e)
        /\ Reconstruct(k, e)' = Reconstruct(k, e)
        /\ Netted(k, e)' <=> Netted(k, e)
  BY <1>2 DEF Touched, Reconstruct, Netted
<1>5. TypeOK'
  <2>1. epochs' \in [0 .. head' -> EpochT]
    BY <1>1, <1>2 DEF TypeOK
  <2>2. slots' \in [Keys -> SlotT']
    <3>1. 0 \in 0 .. head /\ 0 \in 0 .. head'
      BY <1>2
    <3>2. \A k \in Keys : epochs[0].rows[k].lead \in Int
      BY <3>1 DEF TypeOK, EpochT
    <3> QED
      BY <1>3, <3>1, <3>2 DEF SeededSlot, SlotT, Present, Absent
  <2>3. resident' \in Int
    <3>1. {k \in Keys : SeededSlot(k) # Absent} \subseteq Keys
      OBVIOUS
    <3>2. Cardinality({k \in Keys : SeededSlot(k) # Absent}) \in Nat
      BY <3>1, FS_Subset, FS_CardinalityType, ConstantsAssumption DEF ConstantsAssumption
    <3> QED
      BY <3>2 DEF Restart
  <2>4. in_flight' \in [Keys -> FlightT'] /\ rd' \in [Readers -> ReaderT']
    BY <1>2, <1>3 DEF NoFlight, FlightT, ReaderT
  <2>5. EpochT' = EpochT
    BY SameTypes
  <2> QED
    BY <1>2, <1>3, <2>1, <2>2, <2>3, <2>4, <2>5 DEF TypeOK
<1>6. BaseInv'
  <2>1. RowsNet' /\ FirstFold' /\ FoldsAddUp'
    <3>1. RowsNet'
      BY <1>2, <1>4 DEF BaseInv, RowsNet
    <3>2. FirstFold'
      BY <1>2, <1>4 DEF BaseInv, FirstFold
    <3>3. FoldsAddUp'
      BY <1>2, <1>4 DEF BaseInv, FoldsAddUp
    <3> QED
      BY <3>1, <3>2, <3>3
  <2>2. QuietKeepsFold'
    BY <1>2, <1>4 DEF BaseInv, QuietKeepsFold
  <2>3. HistoryEnds'
    <3> SUFFICES ASSUME NEW k \in Keys, NEW a \in 0 .. head', NEW b \in 0 .. head',
                        a <= b
                 PROVE  \E e \in a .. b : EndOfHistory(k, a, b, e)'
      BY DEF HistoryEnds
    <3>1. PICK e \in a .. b : EndOfHistory(k, a, b, e)
      BY <1>2 DEF BaseInv, HistoryEnds
    <3>2. EndOfHistory(k, a, b, e)'
      BY <1>2, <1>4, <3>1 DEF EndOfHistory
    <3> QED
      BY <3>2
  <2> QED
    BY <2>1, <2>2, <2>3 DEF BaseInv
<1>7. CertifiedInterval'
  <2>1. \A k \in Keys : slots'[k] = IF Full /\ Touched(k, 0)'
                                    THEN Present(epochs'[0].rows[k].lead, 0) ELSE Absent
    BY <1>2, <1>3, <1>4 DEF SeededSlot
  <2> SUFFICES ASSUME NEW k \in Keys, slots'[k].tag = "present",
                      NEW a \in slots'[k].at .. Effective(k)'
               PROVE  a <= head' /\ (Netted(k, a)' => slots'[k].val = Reconstruct(k, a)')
    BY DEF CertifiedInterval, IsPresent
  <2>2. slots'[k] = Present(epochs'[0].rows[k].lead, 0) /\ Touched(k, 0)'
    BY <2>1 DEF Absent
  <2>3. slots'[k].at = 0 /\ Effective(k)' = 0 /\ slots'[k].val = epochs'[0].rows[k].lead
    BY <1>3, <2>2 DEF Present, Effective, Larger
  <2>4. a = 0 /\ 0 \in 0 .. head'
    BY <1>2, <2>3
  <2> QED
    BY <1>2, <1>6, <2>2, <2>3, <2>4 DEF BaseInv, FirstFold, RowsNet, Netted
<1>8. FlightInv' /\ AnswersExact'
  BY <1>3 DEF FlightInv, FlightsDiffer, TicketIsOfFlight, WaiterIsOfOwner,
     AnswersExact, NoFlight, Idle, Folding, Waiting
<1>9. LockInv'
  <2>1. \A k \in Keys : /\ slots'[k].tag # "pending"
                        /\ Full /\ Touched(k, 0)' => slots'[k].tag = "present"
    BY <1>2, <1>3, <1>4 DEF SeededSlot, Present, Absent
  <2>2. PostedAreResident'
    BY <1>3, <2>1 DEF PostedAreResident, IsPresent
  <2> QED
    BY <1>3, <2>1, <2>2 DEF LockInv, PinsAreEntries, MarkersAreHeld, NoneAbandoned,
       NoFlight
<1> QED
  BY <1>5, <1>6, <1>7, <1>8, <1>9

-----------------------------------------------------------------------------
(***************************************************************************)
(* The theorems about the view.                                            *)
(***************************************************************************)

LEMMA EngineInitInv == ASSUME DurableInit PROVE EngineInv
<1>1. FrontierInv
  BY FrontierInit
<1>2. IInv
  BY InitInv DEF DurableInit
<1>3. LockInv
  <2>1. \A k \in Keys : /\ slots[k].tag # "pending"
                        /\ Full /\ Touched(k, 0) => slots[k].tag = "present"
    BY DEF DurableInit, Init, Present, Absent
  <2>2. pinned = {} /\ applied = 0 /\ ~writing /\ \A k \in Keys : in_flight[k] = NoFlight
    BY DEF DurableInit, Init
  <2>3. PinsAreEntries /\ MarkersAreHeld /\ NoneAbandoned
    BY <2>1, <2>2 DEF PinsAreEntries, MarkersAreHeld, NoneAbandoned, NoFlight
  <2>4. PostedAreResident
    BY <2>1, <2>2 DEF PostedAreResident, IsPresent
  <2> QED
    BY <2>2, <2>3, <2>4 DEF LockInv
<1> QED
  BY <1>1, <1>2, <1>3 DEF EngineInv

LEMMA EngineStep ==
  ASSUME EngineInv, [DurableNext]_engineVars
  PROVE  EngineInv'
<1> USE DEF EngineInv
<1>1. FrontierInv'
  BY FrontierStep
<1>2. ASSUME [Next]_vars, AbsentIsUntouched \/ ~ApplyEpoch PROVE IInv'
  BY <1>2, TypeStep, BaseStep, FlightStep, CertStep, AnswerStep DEF IInv
<1>3. CASE SealEpoch /\ ~writing /\ ~Reading
  <2>1. IInv'
    BY <1>2, <1>3 DEF Next, SealEpoch, ApplyEpoch, TypeOK, IInv, view
  <2>2. LockInv'
    BY <1>3, SealKeeps DEF IInv
  <2> QED
    BY <1>1, <2>1, <2>2
<1>4. CASE ApplyEpoch /\ writing
  <2>1. ~Reading
    BY <1>4 DEF LockInv
  <2>2. AbsentIsUntouched /\ LockInv'
    BY <1>4, <2>1, ApplyKeeps DEF IInv
  <2> QED
    BY <1>1, <1>2, <1>4, <2>2 DEF Next
<1>5. ASSUME NEW r \in Readers, NEW k \in Keys, NEW a \in 0 .. head,
             BeginRead(r, k, a), ~writing, UNCHANGED writing
      PROVE  EngineInv'
  <2>1. ~ApplyEpoch
    BY <1>5 DEF BeginRead, ReadHit, JoinFlight, FoldAlone, OwnFlight, view,
       ApplyEpoch, IInv, TypeOK
  <2> QED
    BY <1>1, <1>2, <1>5, <2>1, ReadKeeps DEF Next, IInv
<1>6. ASSUME NEW r \in Readers, FinishFold(r) \/ DropWait(r), UNCHANGED writing
      PROVE  EngineInv'
  <2>1. ~ApplyEpoch
    BY <1>6 DEF FinishFold, DropWait, view, ApplyEpoch, IInv, TypeOK
  <2> QED
    BY <1>1, <1>2, <1>6, <2>1, FinishKeeps DEF Next, IInv
<1>7. CASE UNCHANGED <<vars, writing>>
  <2>1. ~ApplyEpoch
    BY <1>7 DEF vars, view, ApplyEpoch, IInv, TypeOK
  <2>2. LockInv'
    BY <1>7 DEF LockInv, vars, base, view, flights, PinsAreEntries, MarkersAreHeld,
       NoneAbandoned, PostedAreResident, IsPresent, Touched, Installs, Reading, Folding
  <2> QED
    BY <1>1, <1>2, <1>7, <2>1, <2>2
<1>8. CASE Restart
  BY <1>1, <1>8, RestartKeeps
<1> QED
  BY <1>3, <1>4, <1>5, <1>6, <1>7, <1>8, EngineSteps

\* The engine's invariant, whether its view is full or partial.
THEOREM EngineInductive == DurableEngineSpec => []EngineInv
BY EngineInitInv, EngineStep, PTL DEF DurableEngineSpec

\* A full view misses no account, and shows the balance of every account with one
\* row per epoch, whatever reads install, sinks refuse and restarts recover
\* (apply_epoch, install_at, Materialize::Full).
THEOREM FullViewKeepsAll == DurableEngineSpec => []FullKeepsAll
<1>1. EngineInv => FullKeepsAll
  <2> SUFFICES ASSUME EngineInv, Full, NEW k \in Keys, IsPresent(k),
                      Netted(k, Effective(k))
               PROVE  slots[k].val = Reconstruct(k, Effective(k))
    BY DEF EngineInv, LockInv, PostedAreResident, FullKeepsAll
  <2>1. slots[k].at \in Nat /\ applied \in Nat
    BY DEF EngineInv, IInv, TypeOK, SlotT
  <2>2. Effective(k) \in slots[k].at .. Effective(k)
    BY <2>1 DEF Effective, Larger
  <2> QED
    BY <2>2 DEF EngineInv, IInv, CertifiedInterval
<1> QED
  BY <1>1, EngineInductive, PTL

\* Every entry of the engine's view, full or partial, is the fold of its key at
\* each anchor it may be asked for and through which that key has one row per
\* epoch, also when the view lags behind the base that a restart recovered.
THEOREM EngineEntriesCertified == DurableEngineSpec => []CertifiedInterval
<1>1. EngineInv => CertifiedInterval
  BY DEF EngineInv, IInv
<1> QED
  BY <1>1, EngineInductive, PTL

=============================================================================
