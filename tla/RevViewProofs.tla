--------------------------- MODULE RevViewProofs ---------------------------
(***************************************************************************)
(* Proofs about RevView.  For every value of its constants: its types,     *)
(* and what the view holds, where a live flight has one ticket that will   *)
(* settle it, a marker has its flight, and the whole state is bounded by   *)
(* the budget and the flight table.  For a partial view (~Full): every     *)
(* resident entry is the fold of the base over the whole interval it is    *)
(* certified for, and every reader is answered with the fold of its key at *)
(* the anchor it asked for; of what the view answers by itself this is     *)
(* claimed at the anchors through which the key has one row per epoch.     *)
(***************************************************************************)
EXTENDS RevView, FiniteSetTheorems, TLAPS

(***************************************************************************)
(* The inductive invariant.                                                *)
(***************************************************************************)

\* An epoch holds for each key nothing, or rows of which the first, when there is
\* no other, is the whole delta.
RowsNet ==
    \A e \in 0 .. head : \A k \in Keys :
        /\ epochs[e].rows[k].n < 2 => epochs[e].rows[k].lead = epochs[e].rows[k].sum
        /\ ~Touched(k, e) => epochs[e].rows[k].sum = 0

\* The fold at an epoch is the fold before it and the epoch's delta.
FirstFold == \A k \in Keys : Reconstruct(k, 0) = epochs[0].rows[k].sum
FoldsAddUp ==
    \A e \in 1 .. head : \A k \in Keys :
        Reconstruct(k, e) = Reconstruct(k, e - 1) + epochs[e].rows[k].sum

\* A key nobody posts to keeps its fold.
QuietKeepsFold ==
    \A k \in Keys : \A a, b \in 0 .. head :
        a <= b /\ (\A e \in a + 1 .. b : ~Touched(k, e))
            => Reconstruct(k, a) = Reconstruct(k, b)

\* What LastDelta chooses among: the end of the history of k after a.
EndOfHistory(k, a, b, e) ==
    /\ e \in a .. b
    /\ e = a \/ Touched(k, e)
    /\ \A f \in e + 1 .. b : ~Touched(k, f)

HistoryEnds ==
    \A k \in Keys : \A a, b \in 0 .. head :
        a <= b => \E e \in a .. b : EndOfHistory(k, a, b, e)

BaseInv == RowsNet /\ FirstFold /\ FoldsAddUp /\ QuietKeepsFold /\ HistoryEnds

\* A generation names one flight: its key and its anchor, wherever it is held.
FlightsDiffer ==
    \A j, k \in Keys : in_flight[j].gen > 0 /\ in_flight[j].gen = in_flight[k].gen
        => j = k

TicketIsOfFlight ==
    \A r \in Readers, k \in Keys :
        /\ Folding(r) \/ Waiting(r)
        /\ rd[r].gen > 0
        /\ rd[r].gen = in_flight[k].gen
        => k = rd[r].key /\ in_flight[k].anchor = rd[r].anchor

WaiterIsOfOwner ==
    \A q, r \in Readers :
        /\ Waiting(q) /\ Folding(r)
        /\ rd[r].gen > 0
        /\ rd[q].gen = rd[r].gen
        => rd[q].key = rd[r].key /\ rd[q].anchor = rd[r].anchor

FlightInv == FlightsDiffer /\ TicketIsOfFlight /\ WaiterIsOfOwner

IInv == TypeOK /\ BaseInv /\ FlightInv /\ CertifiedInterval /\ AnswersExact

\* A pin belongs to an entry.
PinsAreEntries == \A k \in pinned : IsPresent(k)

\* What makes it right for a full view to take a delta for a whole value.
AbsentIsUntouched ==
    Full => \A k \in Keys : slots[k].tag = "absent" =>
                \A e \in 0 .. applied : ~Touched(k, e)

-----------------------------------------------------------------------------
(***************************************************************************)
(* The base: its rows, and what sealing an epoch leaves of its past.       *)
(***************************************************************************)

\* The row of a key in an epoch, when there is no other, is its whole delta.
LEMMA RowsShape ==
  ASSUME NEW r \in Rows
  PROVE  /\ r \in [n : Nat, lead : Int, sum : Int]
         /\ r.n < 2 => r.lead = r.sum
         /\ ~(r.n > 0) => r.sum = 0
<1>1. Deltas \subseteq Int
  BY ConstantsAssumption DEF ConstantsAssumption
<1>2. ASSUME NEW p \in Deltas \X Deltas, r = [n |-> 2, lead |-> p[1], sum |-> p[1] + p[2]]
      PROVE  r \in [n : Nat, lead : Int, sum : Int]
  <2>1. p[1] \in Int /\ p[2] \in Int
    BY <1>1
  <2> QED
    BY <1>2, <2>1
<1>3. ASSUME NEW p \in Deltas \X Deltas,
             r = [n |-> 2, lead |-> p[1], sum |-> p[1] + p[2]]
      PROVE  r.n = 2
  BY <1>3
<1>4. ASSUME NEW d \in Deltas, r = [n |-> 1, lead |-> d, sum |-> d]
      PROVE  r \in [n : Nat, lead : Int, sum : Int] /\ r.n = 1 /\ r.lead = r.sum
  BY <1>1, <1>4
<1>5. ASSUME r = [n |-> 0, lead |-> 0, sum |-> 0]
      PROVE  r \in [n : Nat, lead : Int, sum : Int] /\ r.n = 0 /\ r.lead = 0 /\ r.sum = 0
  BY <1>5
<1> QED
  BY <1>2, <1>3, <1>4, <1>5 DEF Rows

\* Ledger::submit adds an epoch and rewrites none.
LEMMA SealKeepsPast ==
  ASSUME TypeOK, SealEpoch
  PROVE  /\ head' = head + 1
         /\ epochs' \in [0 .. head' -> EpochT]
         /\ \A e \in 0 .. head : epochs'[e] = epochs[e]
         /\ \A k \in Keys :
              /\ epochs'[head'].rows[k].n < 2
                   => epochs'[head'].rows[k].lead = epochs'[head'].rows[k].sum
              /\ ~(epochs'[head'].rows[k].n > 0) => epochs'[head'].rows[k].sum = 0
              /\ epochs'[head'].total[k]
                   = epochs'[head].total[k] + epochs'[head'].rows[k].sum
<1>1. PICK rows \in EpochRows :
        epochs' = [e \in 0 .. head + 1 |->
                     IF e <= head THEN epochs[e]
                     ELSE EpochRec(rows, epochs[head].total)]
  BY DEF SealEpoch
<1> rows \in [Keys -> Rows]
  BY <1>1 DEF EpochRows
<1>2. head \in Nat /\ head' = head + 1
  BY DEF SealEpoch, TypeOK
<1>3. \A e \in 0 .. head : epochs'[e] = epochs[e]
  BY <1>1, <1>2
<1>4. epochs'[head'] = EpochRec(rows, epochs[head].total)
  BY <1>1, <1>2
<1>5. epochs[head].total \in [Keys -> Int]
  BY <1>2 DEF TypeOK, EpochT
<1>6. \A k \in Keys :
        /\ rows[k] \in [n : Nat, lead : Int, sum : Int]
        /\ rows[k].n < 2 => rows[k].lead = rows[k].sum
        /\ ~(rows[k].n > 0) => rows[k].sum = 0
  BY <1>1, RowsShape
<1>7. EpochRec(rows, epochs[head].total) \in EpochT
  BY <1>1, <1>5, <1>6 DEF EpochRec, EpochT
<1>8. epochs' \in [0 .. head' -> EpochT]
  BY <1>1, <1>2, <1>7 DEF TypeOK
<1>9. epochs'[head].total = epochs[head].total
  BY <1>2, <1>3
<1> QED
  BY <1>2, <1>3, <1>4, <1>6, <1>8, <1>9 DEF EpochRec

LEMMA SealBase ==
  ASSUME TypeOK, BaseInv, SealEpoch
  PROVE  BaseInv'
<1>1. /\ head \in Nat /\ head' = head + 1
      /\ \A e \in 0 .. head : epochs'[e] = epochs[e]
      /\ \A k \in Keys :
           /\ epochs'[head'].rows[k].n < 2
                => epochs'[head'].rows[k].lead = epochs'[head'].rows[k].sum
           /\ ~(epochs'[head'].rows[k].n > 0) => epochs'[head'].rows[k].sum = 0
           /\ epochs'[head'].total[k]
                = epochs[head].total[k] + epochs'[head'].rows[k].sum
  BY SealKeepsPast DEF TypeOK
<1>2. \A k \in Keys : \A e \in 0 .. head :
        /\ Touched(k, e)' <=> Touched(k, e)
        /\ Reconstruct(k, e)' = Reconstruct(k, e)
        /\ Reconstruct(k, e) \in Int
  BY <1>1 DEF Touched, Reconstruct, TypeOK, EpochT
<1>3. RowsNet'
  BY <1>1, <1>2 DEF BaseInv, RowsNet, Touched
<1>4. FirstFold' /\ FoldsAddUp'
  <2>1. FoldsAddUp'
    BY <1>1, <1>2 DEF BaseInv, FoldsAddUp, Reconstruct
  <2>2. epochs'[0] = epochs[0]
    BY <1>1
  <2> QED
    BY <2>1, <2>2 DEF BaseInv, FirstFold, Reconstruct
<1>5. QuietKeepsFold'
  <2> SUFFICES ASSUME NEW k \in Keys, NEW a \in 0 .. head', NEW b \in 0 .. head',
                      a <= b, \A e \in a + 1 .. b : ~Touched(k, e)'
               PROVE  Reconstruct(k, a)' = Reconstruct(k, b)'
    BY DEF QuietKeepsFold
  <2>1. CASE b <= head
    BY <1>1, <1>2, <2>1 DEF BaseInv, QuietKeepsFold
  <2>2. CASE b = head + 1 /\ a = b
    BY <2>2
  <2>3. CASE b = head + 1 /\ a <= head
    <3>1. Reconstruct(k, a)' = Reconstruct(k, head)
      BY <1>1, <1>2, <2>3 DEF BaseInv, QuietKeepsFold
    <3>2. epochs'[head'].rows[k].sum = 0
      BY <1>1, <2>3 DEF Touched
    <3>3. Reconstruct(k, head) = Reconstruct(k, b)'
      BY <1>1, <1>2, <2>3, <3>2 DEF Reconstruct
    <3> QED
      BY <3>1, <3>3
  <2> QED
    BY <1>1, <2>1, <2>2, <2>3
<1>6. HistoryEnds'
  <2> SUFFICES ASSUME NEW k \in Keys, NEW a \in 0 .. head', NEW b \in 0 .. head',
                      a <= b
               PROVE  \E e \in a .. b : EndOfHistory(k, a, b, e)'
    BY DEF HistoryEnds
  <2>1. CASE b <= head
    <3>1. a \in 0 .. head /\ b \in 0 .. head
      BY <1>1, <2>1
    <3>2. PICK e \in a .. b : EndOfHistory(k, a, b, e)
      BY <3>1 DEF BaseInv, HistoryEnds
    <3> QED
      BY <1>1, <1>2, <2>1, <3>2 DEF EndOfHistory
  <2>2. CASE b = head + 1 /\ (a = b \/ Touched(k, b)')
    <3>1. EndOfHistory(k, a, b, b)'
      BY <1>1, <2>2 DEF EndOfHistory
    <3> QED
      BY <1>1, <3>1, <2>2
  <2>3. CASE b = head + 1 /\ a <= head /\ ~Touched(k, b)'
    <3> a \in 0 .. head /\ head \in 0 .. head
      BY <1>1, <2>3
    <3>1. PICK e \in a .. head : EndOfHistory(k, a, head, e)
      BY <2>3 DEF BaseInv, HistoryEnds
    <3>2. \A f \in e + 1 .. b : ~Touched(k, f)'
      BY <1>1, <1>2, <2>3, <3>1 DEF EndOfHistory
    <3>3. EndOfHistory(k, a, b, e)'
      BY <1>1, <1>2, <2>3, <3>1, <3>2 DEF EndOfHistory
    <3> QED
      BY <1>1, <2>3, <3>3
  <2> QED
    BY <1>1, <2>1, <2>2, <2>3
<1> QED
  BY <1>3, <1>4, <1>5, <1>6 DEF BaseInv

\* What merge_suffix finds: the last delta of k after a, past which k is quiet.
LEMMA LastDeltaEnds ==
  ASSUME TypeOK, BaseInv, NEW k \in Keys, NEW a \in 0 .. applied
  PROVE  /\ LastDelta(k, a) \in a .. applied
         /\ \A e \in LastDelta(k, a) .. applied :
              Reconstruct(k, e) = Reconstruct(k, applied)
<1>0. head \in Nat /\ applied \in 0 .. head /\ a \in 0 .. head /\ a <= applied
  BY DEF TypeOK
<1>1. \E e \in a .. applied : EndOfHistory(k, a, applied, e)
  BY <1>0 DEF BaseInv, HistoryEnds
<1>2. EndOfHistory(k, a, applied, LastDelta(k, a))
  BY <1>1 DEF LastDelta, EndOfHistory
<1> QED
  BY <1>0, <1>2 DEF EndOfHistory, BaseInv, QuietKeepsFold

-----------------------------------------------------------------------------
(***************************************************************************)
(* Landing a fold: one entry arrives, some leave, the others stay.         *)
(***************************************************************************)

\* The entry v at stamp is the fold of k up to the epoch upto.
FoldUpTo(k, v, stamp, upto) ==
    \A a \in stamp .. upto : a <= head /\ v = Reconstruct(k, a)

\* What install_at and the eviction after it do to the cache.
LEMMA InstallEffect ==
  ASSUME TypeOK, NEW k \in Keys, NEW v \in Int, NEW stamp \in 0 .. head,
         NEW pin \in BOOLEAN, Install(k, v, stamp, pin)
  PROVE  /\ slots' \in [Keys -> SlotT]
         /\ pinned' \subseteq Keys /\ meta' \subseteq Keys /\ resident' \in Int
         /\ \A j \in Keys : slots'[j].tag = "present" =>
              /\ j = k => slots'[j] = Present(v, stamp) /\ (j \in pinned' <=> pin)
              /\ j # k => slots'[j] = slots[j] /\ (j \in pinned' <=> j \in pinned)
<1> DEFINE was == {j \in Keys : IsPresent(j)}
<1>1. PICK out \in Evictable(was \cup {k}) :
         /\ slots' = [j \in Keys |-> IF j \in out THEN Absent
                                     ELSE IF j = k THEN Present(v, stamp)
                                     ELSE slots[j]]
         /\ pinned' = (IF pin THEN pinned \cup {k} ELSE pinned \ {k}) \ out
         /\ meta' = (meta \cup {k}) \ out
         /\ resident' = resident + (IF k \in was THEN 0 ELSE 1) - Cardinality(out)
  BY DEF Install
<1>2. out \subseteq Keys
  BY <1>1 DEF Evictable
<1>3. Cardinality(out) \in Nat
  BY <1>2, FS_Subset, FS_CardinalityType, ConstantsAssumption DEF ConstantsAssumption
<1>4. Present(v, stamp) \in SlotT /\ Absent \in SlotT
  BY DEF SlotT, Present, Absent, TypeOK
<1>5. slots' \in [Keys -> SlotT]
  BY <1>1, <1>4 DEF TypeOK
<1>6. resident' \in Int
  <2>1. resident \in Int
    BY DEF TypeOK
  <2>2. (IF k \in was THEN 0 ELSE 1) \in Int
    OBVIOUS
  <2> QED
    BY <1>1, <1>3, <2>1, <2>2
<1>7. ASSUME NEW j \in Keys, slots'[j].tag = "present"
      PROVE  j \notin out
  BY <1>1, <1>7 DEF Absent
<1> QED
  BY <1>1, <1>2, <1>5, <1>6, <1>7 DEF TypeOK

\* A landing places no marker and, in a full view, takes no entry away.
LEMMA InstallKeeps ==
  ASSUME TypeOK, PinsAreEntries, NEW k \in Keys, NEW v, NEW stamp, NEW pin \in BOOLEAN,
         Install(k, v, stamp, pin)
  PROVE  /\ PinsAreEntries'
         /\ \A j \in Keys : /\ slots'[j].tag = "pending" => j # k /\ slots'[j] = slots[j]
                            /\ Full /\ IsPresent(j) => IsPresent(j)'
<1> DEFINE was == {j \in Keys : IsPresent(j)}
<1>1. PICK out \in Evictable(was \cup {k}) :
         /\ slots' = [j \in Keys |-> IF j \in out THEN Absent
                                     ELSE IF j = k THEN Present(v, stamp)
                                     ELSE slots[j]]
         /\ pinned' = (IF pin THEN pinned \cup {k} ELSE pinned \ {k}) \ out
  BY DEF Install
<1>2. out \subseteq Keys /\ IsFiniteSet(out)
  BY <1>1, FS_Subset, ConstantsAssumption DEF Evictable, ConstantsAssumption
<1>3. Full => out = {}
  BY <1>1, <1>2, FS_EmptySet DEF Evictable
<1>4. PinsAreEntries'
  BY <1>1 DEF PinsAreEntries, IsPresent, Present, TypeOK
<1>5. \A j \in Keys : /\ slots'[j].tag = "pending" => j # k /\ slots'[j] = slots[j]
                      /\ Full /\ IsPresent(j) => IsPresent(j)'
  BY <1>1, <1>3 DEF IsPresent, Present, Absent
<1> QED
  BY <1>4, <1>5

LEMMA LandFoldKeeps ==
  ASSUME TypeOK, PinsAreEntries, NEW k \in Keys, NEW a \in 0 .. head, LandFold(k, a)
  PROVE  /\ PinsAreEntries'
         /\ \A j \in Keys : /\ slots'[j].tag = "pending" => j # k /\ slots'[j] = slots[j]
                            /\ Full /\ IsPresent(j) => IsPresent(j)'
<1>1. (a < applied) \in BOOLEAN
  BY DEF TypeOK
<1> QED
  BY <1>1, InstallKeeps DEF LandFold

\* A landing installs a fold under a stamp that says how far it is one.
LEMMA LandFoldInstalls ==
  ASSUME TypeOK, BaseInv, NEW k \in Keys, NEW anchor \in 0 .. head, LandFold(k, anchor)
  PROVE  \E v \in Int, stamp \in 0 .. head, pin \in BOOLEAN :
            /\ Install(k, v, stamp, pin)
            /\ FoldUpTo(k, v, stamp, IF pin THEN stamp ELSE Larger(stamp, applied))
<1>1. head \in Nat /\ applied \in 0 .. head
  BY DEF TypeOK
<1>2. \A j \in Keys, a \in 0 .. head : Reconstruct(j, a) \in Int
  BY <1>1 DEF TypeOK, EpochT, Reconstruct
<1>3. CASE MayMerge(anchor)
  <2>1. anchor \in 0 .. applied
    BY <1>1, <1>3 DEF MayMerge
  <2>2. /\ LastDelta(k, anchor) \in anchor .. applied
        /\ \A e \in LastDelta(k, anchor) .. applied :
             Reconstruct(k, e) = Reconstruct(k, applied)
    BY <2>1, LastDeltaEnds
  <2> DEFINE w == Reconstruct(k, anchor)
                    + (Reconstruct(k, applied) - Reconstruct(k, anchor))
  <2>3. w = Reconstruct(k, applied) /\ w \in Int
    BY <1>1, <1>2, <2>1
  <2>4. FoldUpTo(k, w, LastDelta(k, anchor), Larger(LastDelta(k, anchor), applied))
    BY <1>1, <2>1, <2>2, <2>3 DEF FoldUpTo, Larger
  <2>5. Install(k, w, LastDelta(k, anchor), FALSE)
    BY <1>3 DEF LandFold
  <2>6. LastDelta(k, anchor) \in 0 .. head
    BY <1>1, <2>1, <2>2
  <2> HIDE DEF w
  <2> QED
    BY <2>3, <2>4, <2>5, <2>6
<1>4. CASE ~MayMerge(anchor)
  <2>1. Install(k, Reconstruct(k, anchor), anchor, anchor < applied)
    BY <1>4 DEF LandFold
  <2>2. FoldUpTo(k, Reconstruct(k, anchor), anchor,
                 IF anchor < applied THEN anchor ELSE Larger(anchor, applied))
    BY <1>1 DEF FoldUpTo, Larger
  <2>3. (anchor < applied) \in BOOLEAN /\ Reconstruct(k, anchor) \in Int
    BY <1>1, <1>2
  <2> QED
    BY <2>1, <2>2, <2>3
<1> QED
  BY <1>3, <1>4

LEMMA LandFoldTypes ==
  ASSUME TypeOK, BaseInv, NEW k \in Keys, NEW anchor \in 0 .. head, LandFold(k, anchor)
  PROVE  /\ slots' \in [Keys -> SlotT]
         /\ pinned' \subseteq Keys /\ meta' \subseteq Keys /\ resident' \in Int
<1>1. PICK v \in Int, stamp \in 0 .. head, pin \in BOOLEAN : Install(k, v, stamp, pin)
  BY LandFoldInstalls
<1> QED
  BY <1>1, InstallEffect

\* A landing leaves each entry certified for no more than the fold it is.
LEMMA LandFoldCertified ==
  ASSUME TypeOK, BaseInv, CertifiedInterval,
         NEW k \in Keys, NEW anchor \in 0 .. head, LandFold(k, anchor),
         UNCHANGED <<base, applied>>
  PROVE  CertifiedInterval'
<1>1. head \in Nat /\ applied \in 0 .. head
  BY DEF TypeOK
<1>2. \A j \in Keys, a \in 0 .. head : Reconstruct(j, a) \in Int
  BY <1>1 DEF TypeOK, EpochT, Reconstruct
<1>3. PICK v \in Int, stamp \in 0 .. head, pin \in BOOLEAN :
        /\ Install(k, v, stamp, pin)
        /\ FoldUpTo(k, v, stamp, IF pin THEN stamp ELSE Larger(stamp, applied))
  BY LandFoldInstalls
<1>4. /\ slots' \in [Keys -> SlotT]
      /\ pinned' \subseteq Keys /\ meta' \subseteq Keys /\ resident' \in Int
      /\ \A j \in Keys : slots'[j].tag = "present" =>
           /\ j = k => slots'[j] = Present(v, stamp) /\ (j \in pinned' <=> pin)
           /\ j # k => slots'[j] = slots[j] /\ (j \in pinned' <=> j \in pinned)
  BY <1>3, InstallEffect
<1>5. \A j \in Keys, a \in 0 .. head :
        Reconstruct(j, a)' = Reconstruct(j, a) /\ (Netted(j, a)' <=> Netted(j, a))
  BY DEF base, Reconstruct, Netted
<1>6. CertifiedInterval'
  <2> SUFFICES ASSUME NEW j \in Keys, slots'[j].tag = "present",
                      NEW a \in slots'[j].at .. Effective(j)'
               PROVE  a <= head /\ (Netted(j, a)' => slots'[j].val = Reconstruct(j, a)')
    BY DEF CertifiedInterval, IsPresent, base
  <2>1. CASE j = k
    <3>1. slots'[j].at = stamp /\ slots'[j].val = v /\ (j \in pinned' <=> pin)
      BY <1>4, <2>1 DEF Present
    <3>2. a \in stamp .. (IF pin THEN stamp ELSE Larger(stamp, applied))
      BY <3>1 DEF Effective
    <3>3. a <= head /\ v = Reconstruct(k, a)
      BY <1>3, <3>2 DEF FoldUpTo
    <3>4. a \in 0 .. head
      BY <1>1, <3>2, <3>3
    <3> QED
      BY <1>5, <2>1, <3>1, <3>3, <3>4
  <2>2. CASE j # k
    <3>1. slots'[j] = slots[j] /\ (j \in pinned' <=> j \in pinned)
      BY <1>4, <2>2
    <3>2. Effective(j)' = Effective(j)
      BY <3>1 DEF Effective
    <3>3. a <= head /\ (Netted(j, a) => slots[j].val = Reconstruct(j, a))
      BY <3>1, <3>2 DEF CertifiedInterval, IsPresent
    <3>4. a \in 0 .. head
      BY <1>1, <3>1, <3>3 DEF TypeOK, SlotT
    <3> QED
      BY <1>5, <3>1, <3>3, <3>4
  <2> QED
    BY <2>1, <2>2
<1> QED
  BY <1>6

-----------------------------------------------------------------------------
(***************************************************************************)
(* The types.                                                              *)
(***************************************************************************)

LEMMA TypeInit == ASSUME Init PROVE TypeOK
<1>1. PICK rows \in EpochRows :
        epochs = [e \in {0} |-> EpochRec(rows, [k \in Keys |-> 0])]
  BY DEF Init
<1> rows \in [Keys -> Rows]
  BY <1>1 DEF EpochRows
<1>2. \A k \in Keys : rows[k] \in [n : Nat, lead : Int, sum : Int]
  BY <1>1, RowsShape
<1>3. EpochRec(rows, [k \in Keys |-> 0]) \in EpochT
  BY <1>1, <1>2 DEF EpochRec, EpochT
<1>4. epochs \in [0 .. head -> EpochT]
  BY <1>1, <1>3 DEF Init
<1>5. slots \in [Keys -> SlotT]
  <2>1. \A k \in Keys : epochs[0].rows[k].lead \in Int
    BY <1>4 DEF Init, EpochT
  <2> QED
    BY <2>1 DEF Init, SlotT, Present, Absent
<1>6. resident \in Int
  <2>1. {k \in Keys : IsPresent(k)} \subseteq Keys
    OBVIOUS
  <2>2. Cardinality({k \in Keys : IsPresent(k)}) \in Nat
    BY <2>1, FS_Subset, FS_CardinalityType, ConstantsAssumption DEF ConstantsAssumption
  <2> QED
    BY <2>2 DEF Init
<1>7. in_flight \in [Keys -> FlightT]
  BY DEF Init, NoFlight, FlightT
<1>8. rd \in [Readers -> ReaderT]
  BY DEF Init, ReaderT
<1> QED
  BY <1>4, <1>5, <1>6, <1>7, <1>8 DEF Init, TypeOK

\* apply_epoch writes slots of the right type, at the epoch it applies.
LEMMA FoldedType ==
  ASSUME TypeOK, NEW k \in Keys, NEW e \in 0 .. head
  PROVE  Folded(k, e) \in SlotT
<1>1. slots[k] \in SlotT /\ epochs[e].rows[k].lead \in Int
  BY DEF TypeOK, EpochT
<1> QED
  BY <1>1 DEF Folded, SlotT, Present

\* Values of a ticket's type, whatever its anchor and its flight.
LEMMA TicketTypes ==
  ASSUME TypeOK, NEW k \in Keys, NEW a \in 0 .. head
  PROVE  /\ \A g \in 0 .. flight_generation :
              Fold(k, a, g) \in ReaderT /\ Wait(k, a, g) \in ReaderT
         /\ \A v \in Int : Answer(k, a, v) \in ReaderT /\ Hit(k, a, v) \in ReaderT
         /\ Reconstruct(k, a) \in Int
BY DEF TypeOK, ReaderT, Fold, Wait, Answer, Hit, Reconstruct, EpochT

\* A reader that holds a ticket holds one of these fields.
LEMMA TicketFields ==
  ASSUME TypeOK, NEW r \in Readers, Folding(r) \/ Waiting(r)
  PROVE  /\ rd[r].key \in Keys
         /\ rd[r].anchor \in 0 .. head
         /\ rd[r].gen \in 0 .. flight_generation
<1>1. rd[r] \in ReaderT
  BY DEF TypeOK
<1> QED
  BY <1>1 DEF ReaderT, Idle, Folding, Waiting

\* Publish answers readers that hold tickets, and no others.
LEMMA PublishEffect ==
  ASSUME TypeOK, NEW r \in Readers, Folding(r), Publish(r)
  PROVE  /\ rd' \in [Readers -> ReaderT]
         /\ \A q \in Readers :
              \/ rd'[q] = rd[q]
              \/ /\ q = r \/ (Waiting(q) /\ rd[r].gen > 0 /\ rd[q].gen = rd[r].gen)
                 /\ rd'[q] = Answer(rd[q].key, rd[q].anchor,
                                    Reconstruct(rd[r].key, rd[r].anchor))
<1> DEFINE found == Reconstruct(rd[r].key, rd[r].anchor)
<1>1. found \in Int
  BY TicketFields, TicketTypes
<1>2. \A q \in Readers : Folding(q) \/ Waiting(q) =>
        Answer(rd[q].key, rd[q].anchor, found) \in ReaderT
  BY <1>1, TicketFields, TicketTypes
<1>3. rd' = [q \in Readers |->
                 IF q = r \/ (rd[r].gen > 0 /\ q \in WaitersOf(rd[r].gen))
                 THEN Answer(rd[q].key, rd[q].anchor, found)
                 ELSE rd[q]]
  BY DEF Publish
<1>4. \A q \in Readers : q \in WaitersOf(rd[r].gen) <=> Waiting(q) /\ rd[q].gen = rd[r].gen
  BY DEF WaitersOf
<1> HIDE DEF found
<1>5. rd' \in [Readers -> ReaderT]
  BY <1>2, <1>3, <1>4 DEF TypeOK
<1>6. \A q \in Readers :
              \/ rd'[q] = rd[q]
              \/ /\ q = r \/ (Waiting(q) /\ rd[r].gen > 0 /\ rd[q].gen = rd[r].gen)
                 /\ rd'[q] = Answer(rd[q].key, rd[q].anchor, found)
  BY <1>3, <1>4
<1> QED
  BY <1>5, <1>6 DEF found

\* OwnFlight touches slots that hold no value, and the flight table.
LEMMA OwnFlightEffect ==
  ASSUME TypeOK, NEW r \in Readers, NEW k \in Keys, NEW a \in 0 .. head,
         OwnFlight(r, k, a)
  PROVE  /\ slots' \in [Keys -> SlotT]
         /\ \A j \in Keys : slots'[j].tag = "present" => slots'[j] = slots[j]
         /\ flight_generation' = flight_generation + 1
         /\ in_flight' \in [Keys -> [anchor : 0 .. head, gen : 0 .. flight_generation',
                                     cancelled : BOOLEAN, marked : BOOLEAN]]
         /\ in_flight'[k].anchor = a /\ in_flight'[k].gen = flight_generation'
         /\ \A j \in Keys \ {k} : \/ in_flight'[j] = in_flight[j]
                                  \/ in_flight'[j] = NoFlight
         /\ rd' = [rd EXCEPT ![r] = Fold(k, a, flight_generation')]
<1> DEFINE dead == Reaped(k)
           found == AfterReap(k, dead)
           gen == flight_generation + 1
<1>1. /\ slots' = [j \in Keys |->
                     IF j = k /\ found.tag # "present" THEN Pending(a)
                     ELSE AfterReap(j, dead)]
      /\ in_flight' = [j \in Keys |->
            IF j = k THEN [anchor |-> a, gen |-> gen, cancelled |-> FALSE,
                           marked |-> found.tag # "present"]
            ELSE IF j \in dead THEN NoFlight ELSE in_flight[j]]
      /\ flight_generation' = gen
      /\ rd' = [rd EXCEPT ![r] = Fold(k, a, gen)]
  BY DEF OwnFlight
<1>2. \A j \in Keys : /\ AfterReap(j, dead) \in {slots[j], Absent}
                      /\ AfterReap(j, dead).tag = "present" => AfterReap(j, dead) = slots[j]
  BY DEF AfterReap, Absent
<1>3. Absent \in SlotT /\ Pending(a) \in SlotT /\ Pending(a).tag # "present"
  BY DEF SlotT, Absent, Pending, TypeOK
<1>4. slots' \in [Keys -> SlotT]
  BY <1>1, <1>2, <1>3 DEF TypeOK
<1>5. \A j \in Keys : slots'[j].tag = "present" => slots'[j] = slots[j]
  BY <1>1, <1>2, <1>3
<1>6. gen \in 0 .. flight_generation' /\ flight_generation \in Nat /\ head \in Nat
  BY <1>1 DEF TypeOK
<1>7. in_flight' \in [Keys -> [anchor : 0 .. head, gen : 0 .. flight_generation',
                               cancelled : BOOLEAN, marked : BOOLEAN]]
  <2> DEFINE FT == [anchor : 0 .. head, gen : 0 .. flight_generation',
                    cancelled : BOOLEAN, marked : BOOLEAN]
  <2>1. NoFlight \in FT
    BY <1>1, <1>6 DEF NoFlight
  <2>2. \A j \in Keys : in_flight[j] \in FT
    BY <1>1, <1>6 DEF TypeOK, FlightT
  <2>3. [anchor |-> a, gen |-> gen, cancelled |-> FALSE,
         marked |-> found.tag # "present"] \in FT
    BY <1>6
  <2> HIDE DEF FT, found
  <2>4. in_flight' \in [Keys -> FT]
    BY <1>1, <2>1, <2>2, <2>3
  <2> QED
    BY <2>4 DEF FT
<1> QED
  BY <1>1, <1>4, <1>5, <1>7

\* The types depend on the head and on the last generation alone.
LEMMA SameTypes ==
  /\ EpochT' = EpochT
  /\ head' = head => SlotT' = SlotT
  /\ UNCHANGED <<head, flight_generation>> => FlightT' = FlightT /\ ReaderT' = ReaderT
BY DEF EpochT, SlotT, FlightT, ReaderT

LEMMA NoFlightType == TypeOK => NoFlight \in FlightT
BY DEF TypeOK, FlightT, NoFlight

LEMMA TypeStep == ASSUME TypeOK, BaseInv, [Next]_vars PROVE TypeOK'
<1>1. CASE SealEpoch
  <2>1. head' = head + 1 /\ epochs' \in [0 .. head' -> EpochT]
    BY <1>1, SealKeepsPast
  <2>2. 0 .. head \subseteq 0 .. head'
    BY <2>1 DEF TypeOK
  <2>3. slots' \in [Keys -> SlotT'] /\ in_flight' \in [Keys -> FlightT']
    BY <1>1, <2>1, <2>2 DEF SealEpoch, TypeOK, SlotT, FlightT, view, flights
  <2>4. rd' \in [Readers -> ReaderT']
    <3>1. ReaderT \subseteq ReaderT'
      BY <1>1, <2>2 DEF SealEpoch, ReaderT, flights
    <3> QED
      BY <1>1, <3>1 DEF SealEpoch, TypeOK
  <2> QED
    BY <1>1, <2>1, <2>2, <2>3, <2>4 DEF SealEpoch, TypeOK, EpochT, view, flights
<1>2. CASE ApplyEpoch
  <2>1. next_to_apply \in 0 .. head /\ head \in Nat
    BY <1>2 DEF ApplyEpoch, TypeOK
  <2>2. slots' \in [Keys -> SlotT]
    BY <1>2, <2>1, FoldedType DEF ApplyEpoch
  <2>3. resident' \in Int
    <3> DEFINE new == {k \in Keys : /\ ~IsPresent(k)
                                    /\ Folded(k, next_to_apply).tag = "present"}
    <3>1. Cardinality(new) \in Nat
      BY FS_Subset, FS_CardinalityType, ConstantsAssumption DEF ConstantsAssumption
    <3> QED
      BY <1>2, <3>1 DEF ApplyEpoch, TypeOK
  <2>4. applied' \in 0 .. head /\ next_to_apply' = applied' + 1
    BY <1>2, <2>1 DEF ApplyEpoch
  <2> QED
    BY <1>2, <2>2, <2>3, <2>4, SameTypes
       DEF ApplyEpoch, TypeOK, base, flights
<1>3. CASE Wipe
  <2>1. slots' \in [Keys -> SlotT] /\ in_flight' \in [Keys -> FlightT]
    BY <1>3, NoFlightType DEF Wipe, TypeOK, SlotT, Absent
  <2> QED
    BY <1>3, <2>1, SameTypes DEF Wipe, TypeOK, base
<1>4. ASSUME NEW r \in Readers, NEW k \in Keys, NEW a \in 0 .. head, BeginRead(r, k, a)
      PROVE  TypeOK'
  <2>1. ASSUME UNCHANGED <<base, view, flights, wiped_at>>,
               NEW t \in ReaderT, rd' = [rd EXCEPT ![r] = t]
        PROVE  TypeOK'
    <3>1. rd' \in [Readers -> ReaderT]
      BY <2>1 DEF TypeOK
    <3> QED
      BY <2>1, <3>1, SameTypes DEF TypeOK, base, view, flights
  <2>2. CASE ReadHit(r, k, a)
    <3>1. slots[k].val \in Int
      BY DEF TypeOK, SlotT
    <3> QED
      BY <2>1, <2>2, <3>1, TicketTypes DEF ReadHit
  <2>3. CASE JoinFlight(r, k, a)
    <3>1. in_flight[k].gen \in 0 .. flight_generation
      BY DEF TypeOK, FlightT
    <3> QED
      BY <2>1, <2>3, <3>1, TicketTypes DEF JoinFlight
  <2>4. CASE FoldAlone(r, k, a)
    <3>1. 0 \in 0 .. flight_generation
      BY DEF TypeOK
    <3> QED
      BY <2>1, <2>4, <3>1, TicketTypes DEF FoldAlone
  <2>5. CASE OwnFlight(r, k, a)
    <3>1. UNCHANGED <<base, pinned, meta, resident, applied, next_to_apply, wiped_at>>
      BY <2>5 DEF OwnFlight
    <3>2. /\ slots' \in [Keys -> SlotT]
          /\ flight_generation' = flight_generation + 1
          /\ in_flight' \in [Keys -> FlightT']
          /\ rd' = [rd EXCEPT ![r] = Fold(k, a, flight_generation')]
      BY <2>5, <3>1, OwnFlightEffect DEF FlightT, base
    <3>3. flight_generation \in Nat /\ flight_generation' \in 0 .. flight_generation'
      BY <3>2 DEF TypeOK
    <3>4. rd' \in [Readers -> ReaderT']
      <4>1. ReaderT \subseteq ReaderT'
        BY <3>1, <3>2, <3>3 DEF ReaderT, base
      <4>2. Fold(k, a, flight_generation') \in ReaderT'
        BY <3>1, <3>3 DEF ReaderT, Fold, base
      <4> QED
        BY <3>2, <4>1, <4>2 DEF TypeOK
    <3> QED
      BY <3>1, <3>2, <3>3, <3>4, SameTypes DEF TypeOK, base
  <2> QED
    BY <1>4, <2>2, <2>3, <2>4, <2>5 DEF BeginRead
<1>5. ASSUME NEW r \in Readers, FinishFold(r) PROVE TypeOK'
  <2>1. UNCHANGED <<base, applied, next_to_apply, flight_generation, wiped_at>>
        /\ Folding(r) /\ Publish(r)
    BY <1>5 DEF FinishFold
  <2>2. rd' \in [Readers -> ReaderT]
    BY <2>1, PublishEffect
  <2>3. /\ slots' \in [Keys -> SlotT] /\ in_flight' \in [Keys -> FlightT]
        /\ pinned' \subseteq Keys /\ meta' \subseteq Keys /\ resident' \in Int
    <3>1. CASE Mine(r)
      <4>1. rd[r].key \in Keys /\ rd[r].anchor \in 0 .. head
        BY <2>1, TicketFields
      <4>2. in_flight' \in [Keys -> FlightT]
        BY <1>5, <3>1, NoFlightType DEF FinishFold, TypeOK
      <4>3. LandFold(rd[r].key, rd[r].anchor)
        BY <1>5, <3>1 DEF FinishFold
      <4> QED
        BY <2>1, <4>1, <4>2, <4>3, LandFoldTypes
    <3>2. CASE ~Mine(r)
      BY <1>5, <3>2 DEF FinishFold, TypeOK
    <3> QED
      BY <3>1, <3>2
  <2> QED
    BY <2>1, <2>2, <2>3, SameTypes DEF TypeOK, base
<1>6. ASSUME NEW r \in Readers, DropFold(r) PROVE TypeOK'
  <2>1. UNCHANGED <<base, view, flight_generation, wiped_at>>
    BY <1>6 DEF DropFold
  <2>2. in_flight' \in [Keys -> FlightT]
    <3>1. \A k \in Keys : [in_flight[k] EXCEPT !.cancelled = TRUE] \in FlightT
      BY DEF TypeOK, FlightT
    <3> QED
      BY <1>6, <3>1 DEF DropFold, TypeOK
  <2>3. rd' \in [Readers -> ReaderT]
    BY <1>6 DEF DropFold, TypeOK, ReaderT
  <2> QED
    BY <2>1, <2>2, <2>3, SameTypes DEF TypeOK, base, view
<1>7. ASSUME NEW r \in Readers, DropWait(r) PROVE TypeOK'
  <2>1. rd' \in [Readers -> ReaderT]
    BY <1>7 DEF DropWait, TypeOK, ReaderT
  <2> QED
    BY <1>7, <2>1, SameTypes DEF DropWait, TypeOK, base, view, flights
<1>8. CASE UNCHANGED vars
  BY <1>8, SameTypes DEF TypeOK, vars, base, view, flights
<1> QED
  BY <1>1, <1>2, <1>3, <1>4, <1>5, <1>6, <1>7, <1>8 DEF Next

-----------------------------------------------------------------------------
(***************************************************************************)
(* The steps.                                                              *)
(***************************************************************************)

\* Only SealEpoch moves the base.
LEMMA OnlySealMovesBase ==
  ASSUME [Next]_vars PROVE SealEpoch \/ UNCHANGED base
<1>1. ApplyEpoch \/ Wipe => UNCHANGED base
  BY DEF ApplyEpoch, Wipe
<1>2. \A r \in Readers, k \in Keys : \A a \in 0 .. head : BeginRead(r, k, a) => UNCHANGED base
  BY DEF BeginRead, ReadHit, JoinFlight, FoldAlone, OwnFlight
<1>3. \A r \in Readers : FinishFold(r) => UNCHANGED base
  BY DEF FinishFold
<1>4. \A r \in Readers : DropFold(r) \/ DropWait(r) => UNCHANGED base
  BY DEF DropFold, DropWait
<1>5. UNCHANGED vars => UNCHANGED base
  BY DEF vars
<1> QED
  BY <1>1, <1>2, <1>3, <1>4, <1>5 DEF Next

LEMMA BaseStep == ASSUME TypeOK, BaseInv, [Next]_vars PROVE BaseInv'
<1>1. CASE SealEpoch
  BY <1>1, SealBase
<1>2. CASE UNCHANGED base
  <2>1. UNCHANGED <<head, epochs>> /\ BaseInv
    BY <1>2 DEF base
  <2>2. RowsNet' /\ FirstFold'
    BY <2>1 DEF BaseInv, RowsNet, FirstFold, Touched, Reconstruct
  <2>3. FoldsAddUp'
    BY <2>1 DEF BaseInv, FoldsAddUp, Reconstruct
  <2>4. QuietKeepsFold'
    BY <2>1 DEF BaseInv, QuietKeepsFold, Touched, Reconstruct
  <2>5. HistoryEnds'
    BY <2>1 DEF BaseInv, HistoryEnds, EndOfHistory, Touched, Reconstruct
  <2> QED
    BY <2>2, <2>3, <2>4, <2>5 DEF BaseInv
<1> QED
  BY <1>1, <1>2, OnlySealMovesBase

\* Whatever a step does, the past of the base stays as it was.
LEMMA PastStays ==
  ASSUME IInv, [Next]_vars
  PROVE  /\ head \in Nat /\ head' \in Nat /\ head <= head'
         /\ \A k \in Keys : \A a \in 0 .. head :
              Reconstruct(k, a)' = Reconstruct(k, a) /\ (Netted(k, a)' <=> Netted(k, a))
<1>1. head \in Nat
  BY DEF IInv, TypeOK
<1>2. CASE SealEpoch
  BY <1>1, <1>2, SealKeepsPast DEF IInv, Reconstruct, Netted
<1>3. CASE UNCHANGED base
  BY <1>1, <1>3 DEF base, Reconstruct, Netted
<1> QED
  BY <1>2, <1>3, OnlySealMovesBase

\* What apply_epoch makes of an entry is the fold through the epoch it applies.
LEMMA FoldedCertified ==
  ASSUME TypeOK, BaseInv, CertifiedInterval, AbsentIsUntouched, ApplyEpoch,
         NEW k \in Keys, slots'[k].tag = "present",
         NEW a \in slots'[k].at .. Effective(k)'
  PROVE  a <= head /\ (Netted(k, a) => slots'[k].val = Reconstruct(k, a))
<1> DEFINE e == next_to_apply
<1>1. /\ e = applied + 1 /\ e \in 1 .. head /\ applied \in 0 .. head /\ head \in Nat
      /\ applied' = e /\ pinned' = pinned /\ slots'[k] = Folded(k, e)
  BY DEF ApplyEpoch, TypeOK, view
<1>2. slots[k].at \in 0 .. head /\ slots[k] \in SlotT
  BY DEF TypeOK, SlotT
<1>3. \A b \in 0 .. head : Reconstruct(k, b) \in Int
  BY <1>1 DEF Reconstruct, TypeOK, EpochT
<1>4. /\ Reconstruct(k, e) = Reconstruct(k, applied) + epochs[e].rows[k].sum
      /\ ~Touched(k, e) => epochs[e].rows[k].sum = 0
      /\ Netted(k, e) => /\ epochs[e].rows[k].lead = epochs[e].rows[k].sum
                         /\ Netted(k, applied)
  BY <1>1 DEF BaseInv, FoldsAddUp, RowsNet, Netted
<1> HIDE DEF e
<1>5. CASE k \in pinned
  <2>1. slots'[k] = slots[k] /\ Effective(k)' = slots[k].at
    BY <1>1, <1>5 DEF Folded, Effective
  <2> QED
    BY <1>2, <1>5, <2>1 DEF CertifiedInterval, IsPresent, Effective
<1>6. CASE k \notin pinned /\ ~Touched(k, e)
  <2>1. slots'[k] = slots[k] /\ Effective(k)' = Larger(slots[k].at, e)
    BY <1>1, <1>6 DEF Folded, Effective
  <2>2. \A b \in slots[k].at .. Larger(slots[k].at, applied) :
          b <= head /\ (Netted(k, b) => slots[k].val = Reconstruct(k, b))
    BY <1>6, <2>1 DEF CertifiedInterval, IsPresent, Effective
  <2>3. CASE a <= Larger(slots[k].at, applied)
    BY <1>1, <1>2, <2>1, <2>2, <2>3
  <2>4. CASE a > Larger(slots[k].at, applied)
    <3>1. a = e /\ slots[k].at <= applied
      BY <1>1, <1>2, <2>1, <2>4 DEF Larger
    <3>2. Netted(k, applied) => slots[k].val = Reconstruct(k, applied)
      BY <1>1, <1>2, <2>2, <3>1 DEF Larger
    <3>3. Reconstruct(k, e) = Reconstruct(k, applied)
      BY <1>1, <1>3, <1>4, <1>6
    <3> QED
      BY <1>1, <1>4, <2>1, <3>1, <3>2, <3>3
  <2> QED
    BY <1>1, <1>2, <2>1, <2>3, <2>4 DEF Larger
<1>7. CASE k \notin pinned /\ Touched(k, e) /\ slots[k].tag = "present" /\ slots[k].at < e
  <2>1. slots'[k] = Present(slots[k].val + epochs[e].rows[k].lead, e)
    BY <1>1, <1>7 DEF Folded
  <2>2. slots'[k].at = e /\ Effective(k)' = e
    BY <1>1, <1>7, <2>1 DEF Present, Effective, Larger
  <2>3. Netted(k, applied) => slots[k].val = Reconstruct(k, applied)
    BY <1>1, <1>2, <1>7 DEF CertifiedInterval, IsPresent, Effective, Larger
  <2>4. Netted(k, e) => slots'[k].val = Reconstruct(k, e)
    BY <1>4, <1>7, <2>1, <2>3 DEF Present
  <2> QED
    BY <1>1, <2>2, <2>4
<1>8. CASE k \notin pinned /\ Touched(k, e) /\ slots[k].tag = "absent" /\ Full
  <2>1. slots'[k] = Present(epochs[e].rows[k].lead, e)
    BY <1>1, <1>8 DEF Folded
  <2>2. slots'[k].at = e /\ Effective(k)' = e
    BY <1>1, <1>8, <2>1 DEF Present, Effective, Larger
  <2>3. \A f \in 0 .. applied : ~Touched(k, f)
    BY <1>8 DEF AbsentIsUntouched
  <2>4. Reconstruct(k, 0) = 0
    BY <1>1, <2>3 DEF BaseInv, FirstFold, RowsNet
  <2>5. Reconstruct(k, applied) = Reconstruct(k, 0)
    BY <1>1, <2>3 DEF BaseInv, QuietKeepsFold
  <2>6. epochs[e].rows[k].sum \in Int
    BY <1>1 DEF TypeOK, EpochT
  <2>7. Netted(k, e) => slots'[k].val = Reconstruct(k, e)
    BY <1>4, <1>8, <2>1, <2>4, <2>5, <2>6 DEF Present
  <2> QED
    BY <1>1, <2>2, <2>7
<1>9. CASE /\ k \notin pinned /\ Touched(k, e)
           /\ ~(slots[k].tag = "present" /\ slots[k].at < e)
           /\ ~(slots[k].tag = "absent" /\ Full)
  <2>1. slots'[k] = slots[k]
    BY <1>1, <1>9 DEF Folded
  <2>2. slots[k].at >= e /\ Effective(k)' = slots[k].at /\ Effective(k) = slots[k].at
    BY <1>1, <1>2, <1>9, <2>1 DEF Effective, Larger
  <2> QED
    BY <2>1, <2>2 DEF CertifiedInterval, IsPresent
<1> QED
  BY <1>5, <1>6, <1>7, <1>8, <1>9

LEMMA CertStep ==
  ASSUME IInv, AbsentIsUntouched \/ ~ApplyEpoch, [Next]_vars
  PROVE  CertifiedInterval'
\* Where entries stay as they were, or go, they stay certified.
<1>1. ASSUME UNCHANGED <<applied, pinned>>,
             \A j \in Keys : slots'[j].tag = "present" => slots'[j] = slots[j]
      PROVE  CertifiedInterval'
  <2> SUFFICES ASSUME NEW k \in Keys, slots'[k].tag = "present",
                      NEW a \in slots'[k].at .. Effective(k)'
               PROVE  a <= head' /\ (Netted(k, a)' => slots'[k].val = Reconstruct(k, a)')
    BY DEF CertifiedInterval, IsPresent
  <2>1. slots'[k] = slots[k] /\ Effective(k)' = Effective(k)
    BY <1>1 DEF Effective
  <2>2. a <= head /\ (Netted(k, a) => slots[k].val = Reconstruct(k, a))
    BY <2>1 DEF IInv, CertifiedInterval, IsPresent
  <2>3. a \in 0 .. head
    BY <2>1, <2>2 DEF IInv, TypeOK, SlotT
  <2> QED
    BY <2>1, <2>2, <2>3, PastStays
<1>2. CASE SealEpoch
  BY <1>1, <1>2 DEF SealEpoch, view
<1>3. CASE ApplyEpoch
  <2>1. UNCHANGED base
    BY <1>3 DEF ApplyEpoch
  <2> SUFFICES ASSUME NEW k \in Keys, slots'[k].tag = "present",
                      NEW a \in slots'[k].at .. Effective(k)'
               PROVE  a <= head' /\ (Netted(k, a)' => slots'[k].val = Reconstruct(k, a)')
    BY DEF CertifiedInterval, IsPresent
  <2>2. a <= head /\ (Netted(k, a) => slots'[k].val = Reconstruct(k, a))
    BY <1>3, FoldedCertified DEF IInv
  <2> QED
    BY <2>1, <2>2 DEF base, Reconstruct, Netted
<1>4. CASE Wipe
  BY <1>4 DEF Wipe, Absent, CertifiedInterval, IsPresent
<1>5. ASSUME NEW r \in Readers, NEW k \in Keys, NEW a \in 0 .. head, BeginRead(r, k, a)
      PROVE  CertifiedInterval'
  <2>1. CASE ReadHit(r, k, a) \/ JoinFlight(r, k, a) \/ FoldAlone(r, k, a)
    BY <1>1, <2>1 DEF ReadHit, JoinFlight, FoldAlone, view
  <2>2. CASE OwnFlight(r, k, a)
    <3>1. UNCHANGED <<applied, pinned>>
      BY <2>2 DEF OwnFlight
    <3> QED
      BY <1>1, <2>2, <3>1, OwnFlightEffect DEF IInv
  <2> QED
    BY <1>5, <2>1, <2>2 DEF BeginRead
<1>6. ASSUME NEW r \in Readers, FinishFold(r) PROVE CertifiedInterval'
  <2>1. CASE Mine(r)
    <3>1. rd[r].key \in Keys /\ rd[r].anchor \in 0 .. head
      BY <1>6, TicketFields DEF FinishFold, IInv
    <3>2. LandFold(rd[r].key, rd[r].anchor) /\ UNCHANGED <<base, applied>>
      BY <1>6, <2>1 DEF FinishFold
    <3> QED
      BY <3>1, <3>2, LandFoldCertified DEF IInv
  <2>2. CASE ~Mine(r)
    BY <1>1, <1>6, <2>2 DEF FinishFold
  <2> QED
    BY <2>1, <2>2
<1>7. ASSUME NEW r \in Readers, DropFold(r) \/ DropWait(r) PROVE CertifiedInterval'
  BY <1>1, <1>7 DEF DropFold, DropWait, view
<1>8. CASE UNCHANGED vars
  BY <1>1, <1>8 DEF vars, view
<1> QED
  BY <1>2, <1>3, <1>4, <1>5, <1>6, <1>7, <1>8 DEF Next

\* Tickets that stay or go, and flights that stay or go, are still each other's.
LEMMA FlightsShrink ==
  ASSUME TypeOK, FlightInv,
         \A k \in Keys : \/ /\ in_flight'[k].gen = in_flight[k].gen
                            /\ in_flight'[k].anchor = in_flight[k].anchor
                         \/ in_flight'[k].gen = 0,
         \A q \in Readers : rd'[q] = rd[q] \/ rd'[q].st \in {"idle", "done", "hit"}
  PROVE  FlightInv'
<1>1. \A q \in Readers : Folding(q)' \/ Waiting(q)' => rd'[q] = rd[q]
  BY DEF Folding, Waiting
<1>2. FlightsDiffer'
  BY DEF FlightInv, FlightsDiffer
<1>3. TicketIsOfFlight'
  BY <1>1 DEF FlightInv, TicketIsOfFlight, Folding, Waiting
<1>4. WaiterIsOfOwner'
  BY <1>1 DEF FlightInv, WaiterIsOfOwner, Folding, Waiting
<1> QED
  BY <1>2, <1>3, <1>4 DEF FlightInv

LEMMA FlightStep == ASSUME IInv, [Next]_vars PROVE FlightInv'
<1> USE DEF IInv
<1>1. CASE UNCHANGED <<in_flight, rd>>
  BY <1>1, FlightsShrink
<1>2. CASE SealEpoch \/ ApplyEpoch \/ UNCHANGED vars
  BY <1>1, <1>2 DEF SealEpoch, ApplyEpoch, vars, flights
<1>3. CASE Wipe
  <2>1. \A k \in Keys : in_flight'[k].gen = 0
    BY <1>3 DEF Wipe, NoFlight
  <2>2. rd' = rd
    BY <1>3 DEF Wipe
  <2> QED
    BY <2>1, <2>2, FlightsShrink
<1>4. ASSUME NEW r \in Readers, NEW k \in Keys, NEW a \in 0 .. head, BeginRead(r, k, a)
      PROVE  FlightInv'
  <2>1. CASE ReadHit(r, k, a)
    BY <2>1, FlightsShrink DEF ReadHit, flights, Hit, TypeOK
  <2>2. CASE JoinFlight(r, k, a)
    <3> DEFINE g == in_flight[k].gen
    <3>1. /\ in_flight' = in_flight /\ in_flight[k].anchor = a
          /\ rd' = [rd EXCEPT ![r] = Wait(k, a, g)]
      BY <2>2 DEF JoinFlight, flights
    <3>2. g > 0
      BY <2>2 DEF JoinFlight, Live, Flying
    <3>3. rd'[r] = Wait(k, a, g) /\ \A q \in Readers \ {r} : rd'[q] = rd[q]
      BY <3>1 DEF TypeOK
    <3>4. ~Folding(r)' /\ Waiting(r)' /\ rd'[r].key = k /\ rd'[r].anchor = a /\ rd'[r].gen = g
      BY <3>3 DEF Folding, Waiting, Wait
    <3>5. \A q \in Readers \ {r} : /\ Folding(q)' <=> Folding(q)
                                   /\ Waiting(q)' <=> Waiting(q)
      BY <3>3 DEF Folding, Waiting
    <3>6. FlightsDiffer'
      BY <3>1 DEF FlightInv, FlightsDiffer
    <3>7. TicketIsOfFlight'
      BY <3>1, <3>2, <3>3, <3>4, <3>5 DEF FlightInv, FlightsDiffer, TicketIsOfFlight
    <3>8. WaiterIsOfOwner'
      BY <3>1, <3>2, <3>3, <3>4, <3>5 DEF FlightInv, TicketIsOfFlight, WaiterIsOfOwner
    <3> QED
      BY <3>6, <3>7, <3>8 DEF FlightInv
  <2>3. CASE FoldAlone(r, k, a)
    <3>1. in_flight' = in_flight /\ rd' = [rd EXCEPT ![r] = Fold(k, a, 0)]
      BY <2>3 DEF FoldAlone, flights
    <3>2. rd'[r] = Fold(k, a, 0) /\ \A q \in Readers \ {r} : rd'[q] = rd[q]
      BY <3>1 DEF TypeOK
    <3>3. rd'[r].gen = 0 /\ ~Waiting(r)'
      BY <3>2 DEF Fold, Waiting
    <3>4. FlightsDiffer'
      BY <3>1 DEF FlightInv, FlightsDiffer
    <3>5. TicketIsOfFlight'
      BY <3>1, <3>2, <3>3 DEF FlightInv, TicketIsOfFlight, Folding, Waiting
    <3>6. WaiterIsOfOwner'
      BY <3>1, <3>2, <3>3 DEF FlightInv, WaiterIsOfOwner, Folding, Waiting
    <3> QED
      BY <3>4, <3>5, <3>6 DEF FlightInv
  <2>4. CASE OwnFlight(r, k, a)
    <3> DEFINE g == flight_generation'
    <3>1. /\ flight_generation' = flight_generation + 1
          /\ in_flight'[k].anchor = a /\ in_flight'[k].gen = g
          /\ \A j \in Keys \ {k} : in_flight'[j] = in_flight[j] \/ in_flight'[j] = NoFlight
          /\ rd' = [rd EXCEPT ![r] = Fold(k, a, g)]
      BY <2>4, OwnFlightEffect
    <3>2. rd'[r] = Fold(k, a, g) /\ \A q \in Readers \ {r} : rd'[q] = rd[q]
      BY <3>1 DEF TypeOK
    <3>3. /\ Folding(r)' /\ ~Waiting(r)' /\ rd'[r].key = k
          /\ rd'[r].anchor = a /\ rd'[r].gen = g
      BY <3>2 DEF Folding, Waiting, Fold
    <3>4. /\ flight_generation \in Nat
          /\ \A j \in Keys : in_flight[j].gen \in 0 .. flight_generation
      BY DEF TypeOK, FlightT
    <3>5. \A j \in Keys \ {k} : \/ in_flight'[j] = in_flight[j]
                                \/ in_flight'[j].gen = 0
      BY <3>1 DEF NoFlight
    <3>6. \A q \in Readers \ {r} :
            /\ Folding(q)' <=> Folding(q)
            /\ Waiting(q)' <=> Waiting(q)
            /\ Folding(q) \/ Waiting(q) => rd[q].gen \in 0 .. flight_generation
      BY <3>2, TicketFields DEF Folding, Waiting
    <3> HIDE DEF g
    <3>7. FlightsDiffer'
      BY <3>1, <3>4, <3>5 DEF FlightInv, FlightsDiffer, g
    <3>8. TicketIsOfFlight'
      <4> SUFFICES ASSUME NEW q \in Readers, NEW j \in Keys,
                          Folding(q)' \/ Waiting(q)',
                          rd'[q].gen > 0, rd'[q].gen = in_flight'[j].gen
                   PROVE  j = rd'[q].key /\ in_flight'[j].anchor = rd'[q].anchor
        BY DEF TicketIsOfFlight
      <4>1. CASE q = r
        BY <3>1, <3>3, <3>4, <3>5, <4>1 DEF g
      <4>2. CASE q # r /\ j = k
        BY <3>1, <3>2, <3>4, <3>6, <4>2 DEF g
      <4>3. CASE q # r /\ j # k
        BY <3>2, <3>5, <3>6, <4>3 DEF FlightInv, TicketIsOfFlight
      <4> QED
        BY <4>1, <4>2, <4>3
    <3>9. WaiterIsOfOwner'
      <4> SUFFICES ASSUME NEW q \in Readers, NEW p \in Readers,
                          Waiting(q)', Folding(p)', rd'[p].gen > 0,
                          rd'[q].gen = rd'[p].gen
                   PROVE  rd'[q].key = rd'[p].key /\ rd'[q].anchor = rd'[p].anchor
        BY DEF WaiterIsOfOwner
      <4>1. q # r
        BY <3>3
      <4>2. CASE p = r
        BY <3>1, <3>2, <3>3, <3>4, <3>6, <4>1, <4>2 DEF g
      <4>3. CASE p # r
        BY <3>2, <3>6, <4>1, <4>3 DEF FlightInv, WaiterIsOfOwner
      <4> QED
        BY <4>2, <4>3
    <3> QED
      BY <3>7, <3>8, <3>9 DEF FlightInv
  <2> QED
    BY <1>4, <2>1, <2>2, <2>3, <2>4 DEF BeginRead
<1>5. ASSUME NEW r \in Readers, FinishFold(r) PROVE FlightInv'
  <2>1. \A q \in Readers : rd'[q] = rd[q] \/ rd'[q].st \in {"idle", "done", "hit"}
    <3>1. Folding(r) /\ Publish(r)
      BY <1>5 DEF FinishFold
    <3>2. \A q \in Readers :
            rd'[q] = rd[q] \/ \E k, a, v : rd'[q] = Answer(k, a, v)
      BY <3>1, PublishEffect
    <3>3. \A k, a, v : Answer(k, a, v).st = "done"
      BY DEF Answer
    <3> QED
      BY <3>2, <3>3
  <2>2. \A k \in Keys : in_flight'[k] = in_flight[k] \/ in_flight'[k].gen = 0
    BY <1>5 DEF FinishFold, NoFlight, TypeOK
  <2> QED
    BY <2>1, <2>2, FlightsShrink
<1>6. ASSUME NEW r \in Readers, DropFold(r) PROVE FlightInv'
  <2>1. \A q \in Readers : rd'[q] = rd[q] \/ rd'[q].st \in {"idle", "done", "hit"}
    BY <1>6 DEF DropFold, Idle, TypeOK
  <2>2. \A k \in Keys : /\ in_flight'[k].gen = in_flight[k].gen
                        /\ in_flight'[k].anchor = in_flight[k].anchor
    BY <1>6 DEF DropFold, TypeOK, FlightT
  <2> QED
    BY <2>1, <2>2, FlightsShrink
<1>7. ASSUME NEW r \in Readers, DropWait(r) PROVE FlightInv'
  <2>1. \A q \in Readers : rd'[q] = rd[q] \/ rd'[q].st \in {"idle", "done", "hit"}
    BY <1>7 DEF DropWait, Idle, TypeOK
  <2> QED
    BY <1>7, <2>1, FlightsShrink DEF DropWait, flights
<1> QED
  BY <1>2, <1>3, <1>4, <1>5, <1>6, <1>7 DEF Next

\* What a reader has been answered stays right, as the past does.
LEMMA AnswerStays ==
  ASSUME IInv, [Next]_vars, NEW q \in Readers, rd'[q] = rd[q],
         rd[q].st \in {"done", "hit"}
  PROVE  /\ Reconstruct(rd[q].key, rd[q].anchor)' = Reconstruct(rd[q].key, rd[q].anchor)
         /\ Netted(rd[q].key, rd[q].anchor)' <=> Netted(rd[q].key, rd[q].anchor)
<1>1. rd[q] \in ReaderT
  BY DEF IInv, TypeOK
<1>2. PICK k \in Keys, a \in 0 .. head : rd[q].key = k /\ rd[q].anchor = a
  BY <1>1 DEF ReaderT, Idle
<1>3. Reconstruct(k, a)' = Reconstruct(k, a) /\ (Netted(k, a)' <=> Netted(k, a))
  BY PastStays
<1> QED
  BY <1>2, <1>3 DEF Reconstruct, Netted

\* A reader keeps its answer, or stops having one, or is given a right one.
LEMMA AnswerStep == ASSUME IInv, [Next]_vars PROVE AnswersExact'
<1> DEFINE GetsFold(q) == \E k \in Keys, a \in 0 .. head :
                            rd'[q] = Answer(k, a, Reconstruct(k, a))
           GetsHit(q) == \E k \in Keys, a \in 0 .. head, v \in Int :
                           /\ rd'[q] = Hit(k, a, v)
                           /\ Netted(k, a) => v = Reconstruct(k, a)
<1> SUFFICES ASSUME NEW q \in Readers,
                    \/ rd'[q].st = "done"
                    \/ rd'[q].st = "hit" /\ Netted(rd[q].key, rd[q].anchor)'
             PROVE  rd'[q].val = Reconstruct(rd[q].key, rd[q].anchor)'
  BY DEF AnswersExact
<1>1. CASE rd'[q] = rd[q]
  <2>1. /\ rd[q].st \in {"done", "hit"}
        /\ rd[q].st = "done" \/ Netted(rd[q].key, rd[q].anchor)'
    BY <1>1
  <2>2. rd[q].st = "done" \/ Netted(rd[q].key, rd[q].anchor)
    BY <1>1, <2>1, AnswerStays
  <2>3. rd[q].val = Reconstruct(rd[q].key, rd[q].anchor)
    BY <2>1, <2>2 DEF IInv, AnswersExact
  <2> QED
    BY <1>1, <2>1, <2>3, AnswerStays
<1>2. CASE GetsFold(q)
  <2>1. PICK k \in Keys, a \in 0 .. head : rd'[q] = Answer(k, a, Reconstruct(k, a))
    BY <1>2
  <2>2. Reconstruct(k, a)' = Reconstruct(k, a)
    BY PastStays
  <2> QED
    BY <2>1, <2>2 DEF Answer, Reconstruct
<1>3. CASE GetsHit(q)
  <2>1. PICK k \in Keys, a \in 0 .. head, v \in Int :
          rd'[q] = Hit(k, a, v) /\ (Netted(k, a) => v = Reconstruct(k, a))
    BY <1>3
  <2>2. Reconstruct(k, a)' = Reconstruct(k, a) /\ (Netted(k, a)' <=> Netted(k, a))
    BY PastStays
  <2>3. rd'[q].key = k /\ rd'[q].anchor = a /\ rd'[q].val = v /\ rd'[q].st = "hit"
    BY <2>1 DEF Hit
  <2>4. Netted(rd[q].key, rd[q].anchor)' <=> Netted(k, a)'
    BY <2>3 DEF Netted
  <2>5. Reconstruct(rd[q].key, rd[q].anchor)' = Reconstruct(k, a)'
    BY <2>3 DEF Reconstruct
  <2> QED
    BY <2>1, <2>2, <2>3, <2>4, <2>5
<1>4. rd'[q] = rd[q] \/ GetsFold(q) \/ GetsHit(q)
  <2>1. CASE SealEpoch \/ ApplyEpoch \/ Wipe \/ UNCHANGED vars
    BY <2>1 DEF SealEpoch, ApplyEpoch, Wipe, vars
  <2>2. ASSUME NEW r \in Readers, NEW k \in Keys, NEW a \in 0 .. head, BeginRead(r, k, a)
        PROVE  rd'[q] = rd[q] \/ GetsHit(q)
    <3>1. CASE ReadHit(r, k, a)
      <4>1. slots[k].val \in Int /\ (Netted(k, a) => slots[k].val = Reconstruct(k, a))
        BY <3>1 DEF ReadHit, Hits, IInv, CertifiedInterval, TypeOK, SlotT
      <4>2. rd'[q] = rd[q] \/ rd'[q] = Hit(k, a, slots[k].val)
        BY <3>1 DEF ReadHit, IInv, TypeOK
      <4> QED
        BY <4>1, <4>2
    <3>2. CASE JoinFlight(r, k, a) \/ FoldAlone(r, k, a)
      BY <3>2 DEF JoinFlight, FoldAlone, IInv, TypeOK, Fold, Wait
    <3>3. CASE OwnFlight(r, k, a)
      BY <3>3, OwnFlightEffect DEF IInv, TypeOK, Fold
    <3> QED
      BY <2>2, <3>1, <3>2, <3>3 DEF BeginRead
  <2>3. ASSUME NEW r \in Readers, FinishFold(r)
        PROVE  rd'[q] = rd[q] \/ GetsFold(q)
    <3>1. Folding(r) /\ Publish(r)
      BY <2>3 DEF FinishFold
    <3>2. rd[r].key \in Keys /\ rd[r].anchor \in 0 .. head
      BY <3>1, TicketFields DEF IInv
    <3>3. ASSUME Waiting(q), rd[r].gen > 0, rd[q].gen = rd[r].gen
          PROVE  rd[q].key = rd[r].key /\ rd[q].anchor = rd[r].anchor
      BY <3>1, <3>3 DEF IInv, FlightInv, WaiterIsOfOwner
    <3>4. \/ rd'[q] = rd[q]
          \/ rd'[q] = Answer(rd[r].key, rd[r].anchor, Reconstruct(rd[r].key, rd[r].anchor))
      BY <3>1, <3>3, PublishEffect DEF IInv
    <3> QED
      BY <3>2, <3>4
  <2>4. ASSUME NEW r \in Readers, DropFold(r) \/ DropWait(r)
        PROVE  rd'[q] = rd[q]
    BY <2>4 DEF DropFold, DropWait, IInv, TypeOK, Idle
  <2> QED
    BY <2>1, <2>2, <2>3, <2>4 DEF Next
<1> QED
  BY <1>1, <1>2, <1>3, <1>4

-----------------------------------------------------------------------------
(***************************************************************************)
(* The theorems.                                                           *)
(***************************************************************************)

\* A view that starts with the base's first epoch is exact at it.
LEMMA SeededCertified ==
  ASSUME TypeOK, BaseInv, pinned = {}, applied = 0,
         \A k \in Keys : slots[k] = IF Full /\ Touched(k, 0)
                                    THEN Present(epochs[0].rows[k].lead, 0) ELSE Absent
  PROVE  CertifiedInterval
<1> SUFFICES ASSUME NEW k \in Keys, slots[k].tag = "present",
                    NEW a \in slots[k].at .. Effective(k)
             PROVE  a <= head /\ (Netted(k, a) => slots[k].val = Reconstruct(k, a))
  BY DEF CertifiedInterval, IsPresent
<1>1. slots[k] = Present(epochs[0].rows[k].lead, 0) /\ Touched(k, 0)
  BY DEF Absent
<1>2. slots[k].at = 0 /\ Effective(k) = 0 /\ slots[k].val = epochs[0].rows[k].lead
  BY <1>1 DEF Present, Effective, Larger
<1>3. a = 0 /\ 0 \in 0 .. head /\ head \in Nat
  BY <1>2 DEF TypeOK
<1> QED
  BY <1>1, <1>2, <1>3 DEF BaseInv, FirstFold, RowsNet, Netted

LEMMA BaseInit == ASSUME Init PROVE BaseInv
<1>1. PICK rows \in EpochRows :
        epochs = [e \in {0} |-> EpochRec(rows, [k \in Keys |-> 0])]
  BY DEF Init
<1> rows \in [Keys -> Rows]
  BY <1>1 DEF EpochRows
<1>2. \A k \in Keys : epochs[0].rows[k] = rows[k]
  BY <1>1 DEF EpochRec
<1>3. RowsNet
  BY <1>1, <1>2, RowsShape DEF Init, RowsNet, Touched
<1>4. FirstFold /\ FoldsAddUp
  <2>1. \A k \in Keys : rows[k].sum \in Int
    BY <1>1, RowsShape
  <2>2. \A k \in Keys : epochs[0].total[k] = 0 + rows[k].sum
    BY <1>1 DEF EpochRec
  <2>3. FirstFold
    BY <1>2, <2>1, <2>2 DEF FirstFold, Reconstruct
  <2> QED
    BY <2>3 DEF Init, FoldsAddUp
<1>5. QuietKeepsFold
  BY DEF Init, QuietKeepsFold
<1>6. HistoryEnds
  BY DEF Init, HistoryEnds, EndOfHistory
<1> QED
  BY <1>3, <1>4, <1>5, <1>6 DEF BaseInv

LEMMA InitInv == ASSUME Init PROVE IInv
<1>1. TypeOK /\ BaseInv
  BY TypeInit, BaseInit
<1>2. FlightInv
  BY DEF Init, FlightInv, FlightsDiffer, TicketIsOfFlight, WaiterIsOfOwner,
         NoFlight, Idle, Folding, Waiting
<1>3. CertifiedInterval
  BY <1>1, SeededCertified DEF Init
<1>4. AnswersExact
  BY DEF Init, AnswersExact, Idle
<1> QED
  BY <1>1, <1>2, <1>3, <1>4 DEF IInv

\* The inductive invariant holds of every behaviour of a partial view.
THEOREM Inductive == ASSUME ~Full PROVE Spec => []IInv
<1>1. Init => IInv
  BY InitInv
<1>2. IInv /\ [Next]_vars => IInv'
  BY TypeStep, BaseStep, FlightStep, CertStep, AnswerStep DEF IInv, AbsentIsUntouched
<1> QED
  BY <1>1, <1>2, PTL DEF Spec

\* The variables of Rev keep their types, and no stamp, ticket or flight is ever
\* anchored past the head of the base.
THEOREM TypeCorrect == Spec => []TypeOK
  BY TypeInit, BaseInit, TypeStep, BaseStep, PTL DEF Spec

\* Every resident entry of a partial view is the fold of the base at each anchor
\* it may be asked for and through which its key has one row per epoch, whatever
\* landings, merges, evictions, wipes and epochs came in between (hit,
\* install_at, merge_suffix and apply_epoch together).
THEOREM EntriesCertified == ASSUME ~Full PROVE Spec => []CertifiedInterval
<1>1. IInv => CertifiedInterval
  BY DEF IInv
<1> QED
  BY <1>1, Inductive, PTL

\* Every reader of a partial view is answered with the fold of its key at the
\* anchor it asked for: by its own fold or the fold it joined always, by a hit
\* where its key has one row per epoch through that anchor.
THEOREM ReadsExact == ASSUME ~Full PROVE Spec => []AnswersExact
<1>1. IInv => AnswersExact
  BY DEF IInv
<1> QED
  BY <1>1, Inductive, PTL

-----------------------------------------------------------------------------
(***************************************************************************)
(* The inductive invariant, on top of IInv.                                *)
(***************************************************************************)

\* A generation is on one fold ticket.
OneOwner ==
    \A q, r \in Readers : Installs(q) /\ Installs(r) /\ rd[q].gen = rd[r].gen => q = r

LiveHasOwner ==
    \A k \in Keys : Live(k) =>
        \E r \in Readers : rd[r] = Fold(k, in_flight[k].anchor, in_flight[k].gen)

TicketHasFlight ==
    \A r \in Readers : Installs(r) /\ rd[r].gen > wiped_at =>
        Mine(r) /\ Live(rd[r].key) /\ in_flight[rd[r].key].anchor = rd[r].anchor

OwnersInv == OneOwner /\ LiveHasOwner /\ TicketHasFlight

PresentKeys == {k \in Keys : IsPresent(k)}

\* The counter is right, and nothing outlives its entry.
CountInv ==
    /\ resident = Cardinality(PresentKeys)
    /\ meta \subseteq PresentKeys /\ PinsAreEntries
    /\ ~Full => Cardinality(PresentKeys) <= Budget

TableInv == Cardinality(Flying) <= MaxFlights

StateInv == OwnersInv /\ MarkerHasFlight /\ CountInv /\ TableInv

LEMMA KeysAreFinite ==
  ASSUME NEW S \in SUBSET Keys
  PROVE  /\ IsFiniteSet(S) /\ Cardinality(S) \in Nat
         /\ \A T \in SUBSET S : IsFiniteSet(T) /\ Cardinality(T) \in Nat
                                /\ Cardinality(T) <= Cardinality(S)
<1>1. IsFiniteSet(S)
  BY FS_Subset, ConstantsAssumption DEF ConstantsAssumption
<1> QED
  BY <1>1, FS_Subset, FS_CardinalityType

-----------------------------------------------------------------------------
(***************************************************************************)
(* What a landing does to what is counted.                                 *)
(***************************************************************************)

\* Enforcing the budget takes out what the entry that arrived made too much.
LEMMA InstallCounts ==
  ASSUME TypeOK, CountInv, NEW k \in Keys, NEW v, NEW stamp,
         NEW pin \in BOOLEAN, Install(k, v, stamp, pin)
  PROVE  CountInv'
<1> DEFINE was == PresentKeys
           full == was \cup {k}
<1>1. PICK out \in Evictable(full) :
         /\ slots' = [j \in Keys |-> IF j \in out THEN Absent
                                     ELSE IF j = k THEN Present(v, stamp)
                                     ELSE slots[j]]
         /\ meta' = (meta \cup {k}) \ out
         /\ resident' = resident + (IF k \in was THEN 0 ELSE 1) - Cardinality(out)
  BY DEF Install, PresentKeys
<1>2. PinsAreEntries'
  BY InstallKeeps DEF CountInv
<1>3. was \subseteq Keys /\ full \subseteq Keys /\ out \subseteq full
  BY <1>1 DEF Evictable, PresentKeys
<1>4. PresentKeys' = full \ out
  BY <1>1, <1>3 DEF PresentKeys, IsPresent, Present, Absent
<1>5. /\ IsFiniteSet(was) /\ IsFiniteSet(full)
      /\ Cardinality(was) \in Nat /\ Cardinality(full) \in Nat /\ Cardinality(out) \in Nat
  BY <1>3, KeysAreFinite
<1>6. Cardinality(full) = Cardinality(was) + (IF k \in was THEN 0 ELSE 1)
  BY <1>5, FS_AddElement
<1>7. Cardinality(full \ out) = Cardinality(full) - Cardinality(out)
  <2>1. full \cap out = out
    BY <1>3
  <2> QED
    BY <1>5, <2>1, FS_Difference
<1>8. Cardinality(out) = IF Full \/ Cardinality(full) <= Budget THEN 0
                         ELSE Cardinality(full) - Budget
  BY <1>1 DEF Evictable
<1> HIDE DEF was, full
<1>9. /\ resident' = Cardinality(PresentKeys)'
      /\ ~Full => Cardinality(PresentKeys)' <= Budget
  <2>1. Budget \in Nat
    BY ConstantsAssumption DEF ConstantsAssumption
  <2>2. resident = Cardinality(was)
    BY DEF CountInv, was
  <2> QED
    BY <1>1, <1>4, <1>5, <1>6, <1>7, <1>8, <2>1, <2>2
<1>10. meta' \subseteq PresentKeys'
  BY <1>1, <1>4 DEF CountInv, was, full
<1> QED
  BY <1>2, <1>9, <1>10 DEF CountInv

LEMMA LandFoldCounts ==
  ASSUME TypeOK, CountInv, NEW k \in Keys, NEW a \in 0 .. head, LandFold(k, a)
  PROVE  CountInv'
<1>1. (a < applied) \in BOOLEAN
  BY DEF TypeOK
<1> QED
  BY <1>1, InstallCounts DEF LandFold

\* Where entries are the same ones, the counts are.
LEMMA SameCounts ==
  ASSUME CountInv, UNCHANGED <<resident, meta, pinned>>,
         \A j \in Keys : IsPresent(j)' <=> IsPresent(j), pinned \subseteq Keys
  PROVE  CountInv'
<1>1. PresentKeys' = PresentKeys
  BY DEF PresentKeys
<1> QED
  BY <1>1 DEF CountInv, PinsAreEntries

LEMMA CountStep == ASSUME TypeOK, CountInv, [Next]_vars PROVE CountInv'
<1>0. pinned \subseteq Keys
  BY DEF TypeOK
<1>1. CASE SealEpoch \/ UNCHANGED vars
  BY <1>0, <1>1, SameCounts DEF SealEpoch, vars, view, IsPresent
<1>2. CASE ApplyEpoch
  <2> DEFINE new == {k \in Keys : ~IsPresent(k) /\ Folded(k, next_to_apply).tag = "present"}
  <2>1. \A k \in Keys : IsPresent(k) \/ ~Full =>
                           (Folded(k, next_to_apply).tag = "present" <=> IsPresent(k))
    BY DEF Folded, Present, IsPresent
  <2>2. PresentKeys' = PresentKeys \cup new /\ PresentKeys \cap new = {}
    BY <1>2, <2>1 DEF ApplyEpoch, PresentKeys, IsPresent
  <2>3. resident' = resident + Cardinality(new) /\ UNCHANGED <<meta, pinned>>
    BY <1>2 DEF ApplyEpoch
  <2>4. ~Full => new = {}
    BY <2>1
  <2>5. /\ IsFiniteSet(PresentKeys) /\ Cardinality(PresentKeys) \in Nat
        /\ IsFiniteSet(new) /\ Cardinality(new) \in Nat
    BY KeysAreFinite DEF PresentKeys
  <2> HIDE DEF new
  <2>6. Cardinality(PresentKeys \cap new) = 0
    BY <2>2, FS_EmptySet
  <2>7. Cardinality(PresentKeys') = Cardinality(PresentKeys) + Cardinality(new)
    <3> DEFINE was == PresentKeys
    <3> HIDE DEF was
    <3>1. Cardinality(was \cup new) = Cardinality(was) + Cardinality(new) - Cardinality(was \cap new)
      BY <2>5, FS_Union DEF was
    <3> QED
      BY <2>2, <2>5, <2>6, <3>1 DEF was
  <2>8. ~Full => PresentKeys' = PresentKeys
    BY <2>2, <2>4
  <2>9. PinsAreEntries'
    BY <2>2, <2>3 DEF CountInv, PinsAreEntries, PresentKeys, TypeOK
  <2> QED
    BY <2>2, <2>3, <2>7, <2>8, <2>9 DEF CountInv
<1>3. CASE Wipe
  <2>1. PresentKeys' = {}
    BY <1>3 DEF Wipe, PresentKeys, IsPresent, Absent
  <2> QED
    BY <1>3, <2>1, FS_EmptySet, ConstantsAssumption
       DEF Wipe, CountInv, PinsAreEntries, ConstantsAssumption
<1>4. ASSUME NEW r \in Readers, NEW k \in Keys, NEW a \in 0 .. head, BeginRead(r, k, a)
      PROVE  CountInv'
  <2>1. CASE ReadHit(r, k, a) \/ JoinFlight(r, k, a) \/ FoldAlone(r, k, a)
    BY <1>0, <2>1, SameCounts DEF ReadHit, JoinFlight, FoldAlone, view, IsPresent
  <2>2. CASE OwnFlight(r, k, a)
    <3>1. \A j \in Keys : IsPresent(j)' <=> IsPresent(j)
      BY <2>2 DEF OwnFlight, AfterReap, Pending, Absent, IsPresent
    <3> QED
      BY <1>0, <2>2, <3>1, SameCounts DEF OwnFlight
  <2> QED
    BY <1>4, <2>1, <2>2 DEF BeginRead
<1>5. ASSUME NEW r \in Readers, FinishFold(r) PROVE CountInv'
  <2>1. rd[r].key \in Keys /\ rd[r].anchor \in 0 .. head
    BY <1>5, TicketFields DEF FinishFold
  <2>2. CASE Mine(r)
    BY <1>5, <2>1, <2>2, LandFoldCounts DEF FinishFold
  <2>3. CASE ~Mine(r)
    BY <1>0, <1>5, <2>3, SameCounts DEF FinishFold, IsPresent
  <2> QED
    BY <2>2, <2>3
<1>6. ASSUME NEW r \in Readers, DropFold(r) \/ DropWait(r) PROVE CountInv'
  BY <1>0, <1>6, SameCounts DEF DropFold, DropWait, view, IsPresent
<1> QED
  BY <1>1, <1>2, <1>3, <1>4, <1>5, <1>6 DEF Next

-----------------------------------------------------------------------------
(***************************************************************************)
(* The flight table and the markers.                                       *)
(***************************************************************************)

LEMMA TableStep == ASSUME TypeOK, TableInv, [Next]_vars PROVE TableInv'
<1>1. ASSUME Flying' \subseteq Flying PROVE TableInv'
  <2>1. Flying \subseteq Keys
    BY DEF Flying
  <2>2. Cardinality(Flying') \in Nat /\ Cardinality(Flying) \in Nat
        /\ Cardinality(Flying') <= Cardinality(Flying)
    BY <1>1, <2>1, KeysAreFinite
  <2> QED
    BY <2>2, ConstantsAssumption DEF TableInv, ConstantsAssumption
<1>2. CASE SealEpoch \/ ApplyEpoch \/ UNCHANGED vars
  BY <1>1, <1>2 DEF SealEpoch, ApplyEpoch, vars, flights, Flying
<1>3. CASE Wipe
  BY <1>1, <1>3 DEF Wipe, Flying, NoFlight
<1>4. ASSUME NEW r \in Readers, NEW k \in Keys, NEW a \in 0 .. head, OwnFlight(r, k, a)
      PROVE  TableInv'
  <2> DEFINE kept == Flying \ Reaped(k)
  <2>1. Flying' \subseteq kept \cup {k}
    BY <1>4 DEF OwnFlight, Flying, NoFlight
  <2>2. kept \cup {k} \subseteq Keys /\ kept \subseteq Keys
    BY DEF Flying
  <2>3. IsFiniteSet(kept) /\ Cardinality(kept) \in Nat
    BY <2>2, KeysAreFinite
  <2>4. Cardinality(kept \cup {k}) <= Cardinality(kept) + 1
    <3> HIDE DEF kept
    <3>1. Cardinality(kept \cup {k}) =
            IF k \in kept THEN Cardinality(kept) ELSE Cardinality(kept) + 1
      BY <2>3, FS_AddElement
    <3> QED
      BY <2>3, <3>1
  <2>5. /\ Cardinality(Flying') <= Cardinality(kept \cup {k})
        /\ Cardinality(Flying') \in Nat /\ Cardinality(kept \cup {k}) \in Nat
    BY <2>1, <2>2, KeysAreFinite
  <2>6. Cardinality(kept) < MaxFlights /\ MaxFlights \in Nat
    BY <1>4, ConstantsAssumption DEF OwnFlight, ConstantsAssumption
  <2> HIDE DEF kept
  <2> QED
    BY <2>3, <2>4, <2>5, <2>6 DEF TableInv
<1>5. ASSUME NEW r \in Readers, NEW k \in Keys, NEW a \in 0 .. head, BeginRead(r, k, a)
      PROVE  TableInv'
  <2>1. CASE ReadHit(r, k, a) \/ JoinFlight(r, k, a) \/ FoldAlone(r, k, a)
    BY <1>1, <2>1 DEF ReadHit, JoinFlight, FoldAlone, flights, Flying
  <2> QED
    BY <1>4, <1>5, <2>1 DEF BeginRead
<1>6. ASSUME NEW r \in Readers, FinishFold(r) \/ DropFold(r) \/ DropWait(r)
      PROVE  TableInv'
  <2>1. CASE FinishFold(r)
    <3>1. \A k \in Keys : in_flight'[k] \in {in_flight[k], NoFlight}
      BY <2>1 DEF FinishFold, TypeOK
    <3> QED
      BY <1>1, <3>1 DEF Flying, NoFlight
  <2>2. CASE DropFold(r)
    <3>1. \A k \in Keys : in_flight'[k].gen = in_flight[k].gen
      BY <2>2 DEF DropFold, TypeOK, FlightT
    <3> QED
      BY <1>1, <3>1 DEF Flying
  <2>3. CASE DropWait(r)
    BY <1>1, <2>3 DEF DropWait, flights, Flying
  <2> QED
    BY <1>6, <2>1, <2>2, <2>3
<1> QED
  BY <1>2, <1>3, <1>5, <1>6 DEF Next

LEMMA MarkerStep ==
  ASSUME TypeOK, CountInv, MarkerHasFlight, [Next]_vars PROVE MarkerHasFlight'
\* A marker that stays, stays with its flight.
<1>1. ASSUME \A j \in Keys : slots'[j].tag = "pending" =>
               /\ slots'[j] = slots[j]
               /\ in_flight'[j].gen = in_flight[j].gen
               /\ in_flight'[j].marked = in_flight[j].marked
               /\ in_flight'[j].anchor = in_flight[j].anchor
      PROVE  MarkerHasFlight'
  BY <1>1 DEF MarkerHasFlight, Flying, Pending
<1>2. CASE SealEpoch \/ UNCHANGED vars
  BY <1>1, <1>2 DEF SealEpoch, vars, view, flights
<1>3. CASE ApplyEpoch
  <2>1. \A j \in Keys : slots'[j].tag = "pending" => slots'[j] = slots[j]
    BY <1>3 DEF ApplyEpoch, Folded, Present
  <2> QED
    BY <1>1, <1>3, <2>1 DEF ApplyEpoch, flights
<1>4. CASE Wipe
  BY <1>4 DEF Wipe, MarkerHasFlight, Absent
<1>5. ASSUME NEW r \in Readers, NEW k \in Keys, NEW a \in 0 .. head, OwnFlight(r, k, a)
      PROVE  MarkerHasFlight'
  <2> DEFINE dead == Reaped(k)
             found == AfterReap(k, dead)
             gen == flight_generation + 1
  <2>1. /\ slots' = [j \in Keys |->
                       IF j = k /\ found.tag # "present" THEN Pending(a)
                       ELSE AfterReap(j, dead)]
        /\ in_flight' = [j \in Keys |->
              IF j = k THEN [anchor |-> a, gen |-> gen, cancelled |-> FALSE,
                             marked |-> found.tag # "present"]
              ELSE IF j \in dead THEN NoFlight ELSE in_flight[j]]
        /\ gen > 0
    BY <1>5 DEF OwnFlight, TypeOK
  <2> HIDE DEF gen, dead
  <2> SUFFICES ASSUME NEW j \in Keys, slots'[j].tag = "pending"
               PROVE  /\ in_flight'[j].gen > 0
                      /\ in_flight'[j].marked
                      /\ slots'[j] = Pending(in_flight'[j].anchor)
    BY DEF MarkerHasFlight, Flying
  <2>2. CASE j = k
    <3>1. found.tag # "present"
      BY <2>1, <2>2
    <3> HIDE DEF found
    <3> QED
      BY <2>1, <2>2, <3>1
  <2>3. CASE j # k
    <3>1. slots'[j] = AfterReap(j, dead)
      BY <2>1, <2>3
    <3>2. slots[j].tag = "pending" /\ slots'[j] = slots[j]
      BY <3>1 DEF AfterReap, Absent
    <3>3. /\ in_flight[j].gen > 0 /\ in_flight[j].marked
          /\ slots[j] = Pending(in_flight[j].anchor)
      BY <3>2 DEF MarkerHasFlight, Flying
    <3>4. j \notin dead
      BY <3>1, <3>3 DEF AfterReap, Absent
    <3> QED
      BY <2>1, <2>3, <3>2, <3>3, <3>4
  <2> QED
    BY <2>2, <2>3
<1>6. ASSUME NEW r \in Readers, NEW k \in Keys, NEW a \in 0 .. head, BeginRead(r, k, a)
      PROVE  MarkerHasFlight'
  <2>1. CASE ReadHit(r, k, a) \/ JoinFlight(r, k, a) \/ FoldAlone(r, k, a)
    BY <1>1, <2>1 DEF ReadHit, JoinFlight, FoldAlone, view, flights
  <2> QED
    BY <1>5, <1>6, <2>1 DEF BeginRead
<1>7. ASSUME NEW r \in Readers, FinishFold(r) PROVE MarkerHasFlight'
  <2>1. CASE ~Mine(r)
    BY <1>1, <1>7, <2>1 DEF FinishFold
  <2>2. CASE Mine(r)
    <3>1. rd[r].key \in Keys /\ rd[r].anchor \in 0 .. head
      BY <1>7, TicketFields DEF FinishFold
    <3>2. \A j \in Keys : slots'[j].tag = "pending" => j # rd[r].key /\ slots'[j] = slots[j]
      BY <1>7, <2>2, <3>1, LandFoldKeeps DEF FinishFold, CountInv
    <3> QED
      BY <1>1, <1>7, <2>2, <3>2 DEF FinishFold, TypeOK
  <2> QED
    BY <2>1, <2>2
<1>8. ASSUME NEW r \in Readers, DropFold(r) PROVE MarkerHasFlight'
  BY <1>1, <1>8 DEF DropFold, view, TypeOK, FlightT
<1>9. ASSUME NEW r \in Readers, DropWait(r) PROVE MarkerHasFlight'
  BY <1>1, <1>9 DEF DropWait, view, flights
<1> QED
  BY <1>2, <1>3, <1>4, <1>6, <1>7, <1>8, <1>9 DEF Next

-----------------------------------------------------------------------------
(***************************************************************************)
(* Owners and their flights.                                               *)
(***************************************************************************)

\* Tickets that stay and flights that stay are still each other's.
LEMMA OwnersKeep ==
  ASSUME TypeOK, OwnersInv, UNCHANGED <<in_flight, wiped_at>>,
         \A q \in Readers : /\ Installs(q)' => rd'[q] = rd[q]
                            /\ Installs(q) => rd'[q] = rd[q]
  PROVE  OwnersInv'
<1>1. \A q \in Readers : /\ Installs(q)' => Installs(q) /\ (Mine(q)' <=> Mine(q))
                         /\ Installs(q) => Installs(q)'
  BY DEF Installs, Folding, Mine
<1>2. \A k \in Keys : Live(k)' <=> Live(k)
  BY DEF Live, Flying, Dead
<1>3. OneOwner'
  BY <1>1 DEF OwnersInv, OneOwner
<1>4. LiveHasOwner'
  <2> SUFFICES ASSUME NEW k \in Keys, Live(k)
               PROVE  \E r \in Readers :
                        rd'[r] = Fold(k, in_flight[k].anchor, in_flight[k].gen)
    BY <1>2 DEF LiveHasOwner
  <2>1. PICK r \in Readers : rd[r] = Fold(k, in_flight[k].anchor, in_flight[k].gen)
    BY DEF OwnersInv, LiveHasOwner
  <2>2. Installs(r)
    BY <2>1 DEF Live, Flying, Installs, Folding, Fold
  <2> QED
    BY <2>1, <2>2
<1>5. TicketHasFlight'
  <2> SUFFICES ASSUME NEW r \in Readers, Installs(r)', rd'[r].gen > wiped_at'
               PROVE  /\ Mine(r)' /\ Live(rd[r].key)'
                      /\ in_flight'[rd'[r].key].anchor = rd'[r].anchor
    BY DEF TicketHasFlight
  <2>1. Mine(r) /\ Live(rd[r].key) /\ in_flight[rd[r].key].anchor = rd[r].anchor
    BY <1>1 DEF OwnersInv, TicketHasFlight
  <2> QED
    BY <1>1, <1>2, <2>1 DEF Live, Flying
<1> QED
  BY <1>3, <1>4, <1>5 DEF OwnersInv

\* The owner r gives its ticket up, and with it its own flight, if any.
LEMMA OwnerLeaves ==
  ASSUME TypeOK, OwnersInv, NEW r \in Readers, Folding(r), ~Folding(r)',
         \A q \in Readers \ {r} : /\ Installs(q)' => rd'[q] = rd[q]
                                  /\ Installs(q) => rd'[q] = rd[q],
         \A k \in Keys : ~(Mine(r) /\ k = rd[r].key) => in_flight'[k] = in_flight[k],
         Mine(r) => in_flight'[rd[r].key].gen = 0 \/ in_flight'[rd[r].key].cancelled,
         UNCHANGED wiped_at
  PROVE  OwnersInv'
<1>1. /\ ~Installs(r)'
      /\ \A q \in Readers \ {r} : /\ Installs(q)' => Installs(q)
                                  /\ Installs(q) => Installs(q)'
  BY DEF Installs, Folding
<1>2. OneOwner'
  BY <1>1 DEF OwnersInv, OneOwner
<1>3. \A k \in Keys : Live(k)' => Live(k) /\ in_flight'[k] = in_flight[k]
  BY DEF Live, Flying, Dead
<1>4. LiveHasOwner'
  <2> SUFFICES ASSUME NEW k \in Keys, Live(k)'
               PROVE  \E q \in Readers :
                        rd'[q] = Fold(k, in_flight'[k].anchor, in_flight'[k].gen)
    BY DEF LiveHasOwner
  <2>1. Live(k) /\ in_flight'[k] = in_flight[k]
    BY <1>3
  <2>2. PICK q \in Readers : rd[q] = Fold(k, in_flight[k].anchor, in_flight[k].gen)
    BY <2>1 DEF OwnersInv, LiveHasOwner
  <2>3. Installs(q) /\ rd[q].key = k /\ rd[q].gen = in_flight[k].gen
    BY <2>1, <2>2 DEF Live, Flying, Installs, Folding, Fold
  <2>4. q # r
    <3> SUFFICES ASSUME q = r PROVE FALSE
      OBVIOUS
    <3>1. Mine(r) /\ k = rd[r].key
      BY <2>3 DEF Mine
    <3> QED
      BY <2>1, <3>1 DEF Live, Flying, Dead
  <2> QED
    BY <2>1, <2>2, <2>3, <2>4
<1>5. TicketHasFlight'
  <2> SUFFICES ASSUME NEW q \in Readers, Installs(q)', rd'[q].gen > wiped_at'
               PROVE  /\ Mine(q)' /\ Live(rd[q].key)'
                      /\ in_flight'[rd'[q].key].anchor = rd'[q].anchor
    BY DEF TicketHasFlight
  <2>1. q # r /\ Installs(q) /\ rd'[q] = rd[q]
    BY <1>1
  <2>2. Mine(q) /\ Live(rd[q].key) /\ in_flight[rd[q].key].anchor = rd[q].anchor
    BY <2>1 DEF OwnersInv, TicketHasFlight
  <2>3. rd[q].key \in Keys
    BY <2>2 DEF Live, Flying
  <2>4. ~(Mine(r) /\ rd[q].key = rd[r].key)
    BY <2>1, <2>2 DEF Mine, OwnersInv, OneOwner
  <2>5. in_flight'[rd[q].key] = in_flight[rd[q].key]
    BY <2>3, <2>4
  <2> QED
    BY <2>1, <2>2, <2>3, <2>5 DEF Mine, Live, Flying, Dead
<1> QED
  BY <1>2, <1>4, <1>5 DEF OwnersInv

\* A new owner's generation is above all tickets, and what it reaps was dead.
LEMMA OwnerComes ==
  ASSUME TypeOK, OwnersInv, NEW r \in Readers, NEW k \in Keys, NEW a \in 0 .. head,
         CanRead(r), OwnFlight(r, k, a)
  PROVE  OwnersInv'
<1> DEFINE g == flight_generation + 1
<1>1. /\ in_flight'[k].anchor = a /\ in_flight'[k].gen = g /\ ~in_flight'[k].cancelled
      /\ rd' = [rd EXCEPT ![r] = Fold(k, a, g)]
      /\ ~Live(k) /\ wiped_at' = wiped_at
  BY DEF OwnFlight
<1>2. \A j \in Keys \ {k} : \/ in_flight'[j] = in_flight[j]
                            \/ j \in Dead /\ in_flight'[j] = NoFlight
  BY DEF OwnFlight, Reaped
<1>3. rd'[r] = Fold(k, a, g) /\ \A q \in Readers \ {r} : rd'[q] = rd[q]
  BY <1>1 DEF TypeOK
<1>4. flight_generation \in Nat /\ wiped_at \in 0 .. flight_generation
  BY DEF TypeOK
<1>5. \A q \in Readers : Installs(q) => rd[q].gen \in 1 .. flight_generation
  BY TicketFields DEF Installs
<1>6. /\ Installs(r)' /\ rd'[r].gen = g /\ rd'[r].key = k /\ rd'[r].anchor = a
      /\ ~Installs(r)
      /\ \A q \in Readers \ {r} : Installs(q)' <=> Installs(q)
  BY <1>3, <1>4 DEF Installs, Folding, Fold, CanRead
<1> HIDE DEF g
<1>7. OneOwner'
  <2>1. \A q \in Readers \ {r} : Installs(q)' => rd'[q].gen # g
    BY <1>3, <1>4, <1>5, <1>6 DEF g
  <2> QED
    BY <1>3, <1>6, <2>1 DEF OwnersInv, OneOwner
<1>8. \A j \in Keys \ {k} : Live(j)' <=> Live(j) /\ in_flight'[j] = in_flight[j]
  BY <1>2 DEF Live, Flying, Dead, NoFlight
<1>9. LiveHasOwner'
  <2> SUFFICES ASSUME NEW j \in Keys, Live(j)'
               PROVE  \E q \in Readers :
                        rd'[q] = Fold(j, in_flight'[j].anchor, in_flight'[j].gen)
    BY DEF LiveHasOwner
  <2>1. CASE j = k
    BY <1>1, <1>3, <2>1
  <2>2. CASE j # k
    <3>1. Live(j) /\ in_flight'[j] = in_flight[j]
      BY <1>8, <2>2
    <3>2. PICK q \in Readers : rd[q] = Fold(j, in_flight[j].anchor, in_flight[j].gen)
      BY <3>1 DEF OwnersInv, LiveHasOwner
    <3>3. q # r
      BY <3>2 DEF CanRead, Fold
    <3> QED
      BY <1>3, <3>1, <3>2, <3>3
  <2> QED
    BY <2>1, <2>2
<1>10. TicketHasFlight'
  <2> SUFFICES ASSUME NEW q \in Readers, Installs(q)', rd'[q].gen > wiped_at'
               PROVE  /\ Mine(q)' /\ Live(rd[q].key)'
                      /\ in_flight'[rd'[q].key].anchor = rd'[q].anchor
    BY DEF TicketHasFlight
  <2>1. CASE q = r
    <3>1. Mine(r)' /\ in_flight'[rd'[r].key].anchor = rd'[r].anchor
      BY <1>1, <1>6 DEF Mine
    <3>2. Live(k)'
      BY <1>1, <1>4 DEF Live, Flying, Dead, g
    <3> QED
      BY <1>6, <2>1, <3>1, <3>2
  <2>2. CASE q # r
    <3>1. Installs(q) /\ rd'[q] = rd[q] /\ rd[q].gen > wiped_at
      BY <1>1, <1>3, <1>6, <2>2
    <3>2. Mine(q) /\ Live(rd[q].key) /\ in_flight[rd[q].key].anchor = rd[q].anchor
      BY <3>1 DEF OwnersInv, TicketHasFlight
    <3>3. rd[q].key \in Keys \ {k} /\ rd[q].key \notin Dead
      BY <1>1, <3>2 DEF Live, Flying
    <3>4. in_flight'[rd[q].key] = in_flight[rd[q].key]
      BY <1>2, <3>3
    <3>5. Live(rd[q].key)'
      BY <3>1, <3>2, <3>3, <3>4 DEF Live, Flying, Dead
    <3> QED
      BY <3>1, <3>2, <3>4, <3>5, <1>6, <2>2 DEF Mine
  <2> QED
    BY <2>1, <2>2
<1> QED
  BY <1>7, <1>9, <1>10 DEF OwnersInv

LEMMA OwnersStep == ASSUME TypeOK, OwnersInv, [Next]_vars PROVE OwnersInv'
<1>1. CASE SealEpoch \/ ApplyEpoch \/ UNCHANGED vars
  BY <1>1, OwnersKeep DEF SealEpoch, ApplyEpoch, vars, flights
<1>2. CASE Wipe
  <2>1. /\ \A k \in Keys : in_flight'[k].gen = 0
        /\ rd' = rd /\ wiped_at' = flight_generation
    BY <1>2 DEF Wipe, NoFlight
  <2>2. \A q \in Readers : Installs(q) => rd[q].gen <= flight_generation
    BY TicketFields DEF Installs, TypeOK
  <2>3. \A q \in Readers : Installs(q)' => Installs(q) /\ ~(rd'[q].gen > wiped_at')
    BY <2>1, <2>2, TicketFields DEF Installs, Folding, TypeOK
  <2>4. \A k \in Keys : ~Live(k)'
    BY <2>1 DEF Live, Flying
  <2> QED
    BY <2>1, <2>3, <2>4 DEF OwnersInv, OneOwner, LiveHasOwner, TicketHasFlight
<1>3. ASSUME NEW r \in Readers, NEW k \in Keys, NEW a \in 0 .. head, BeginRead(r, k, a)
      PROVE  OwnersInv'
  <2>1. CASE ReadHit(r, k, a) \/ JoinFlight(r, k, a) \/ FoldAlone(r, k, a)
    <3>1. /\ UNCHANGED <<in_flight, wiped_at>>
          /\ \A q \in Readers \ {r} : rd'[q] = rd[q]
          /\ ~Installs(r) /\ ~Installs(r)'
      BY <1>3, <2>1 DEF BeginRead, ReadHit, JoinFlight, FoldAlone, flights, CanRead,
         Installs, Folding, Hit, Wait, Fold, TypeOK
    <3> QED
      BY <3>1, OwnersKeep
  <2> QED
    BY <1>3, <2>1, OwnerComes DEF BeginRead
<1>4. ASSUME NEW r \in Readers, FinishFold(r) PROVE OwnersInv'
  <2>1. \A q \in Readers : /\ Folding(q)' => rd'[q] = rd[q]
                           /\ q # r /\ Folding(q) => rd'[q] = rd[q]
    BY <1>4 DEF FinishFold, Publish, WaitersOf, Waiting, Folding, Answer
  <2>2. ~Folding(r)'
    BY <1>4 DEF FinishFold, Publish, Folding, Answer
  <2>3. /\ \A k \in Keys : ~(Mine(r) /\ k = rd[r].key) => in_flight'[k] = in_flight[k]
        /\ Mine(r) => in_flight'[rd[r].key].gen = 0
    BY <1>4, TicketFields DEF FinishFold, NoFlight, TypeOK
  <2> QED
    BY <1>4, <2>1, <2>2, <2>3, OwnerLeaves DEF FinishFold, Installs
<1>5. ASSUME NEW r \in Readers, DropFold(r) PROVE OwnersInv'
  <2>1. \A q \in Readers : /\ Folding(q)' => rd'[q] = rd[q]
                           /\ q # r /\ Folding(q) => rd'[q] = rd[q]
    BY <1>5 DEF DropFold, WaitersOf, Waiting, Folding, Idle
  <2>2. ~Folding(r)'
    BY <1>5 DEF DropFold, Folding, Idle
  <2>3. /\ \A k \in Keys : ~(Mine(r) /\ k = rd[r].key) => in_flight'[k] = in_flight[k]
        /\ Mine(r) => in_flight'[rd[r].key].cancelled
    BY <1>5, TicketFields DEF DropFold, TypeOK, FlightT
  <2> QED
    BY <1>5, <2>1, <2>2, <2>3, OwnerLeaves DEF DropFold, Installs
<1>6. ASSUME NEW r \in Readers, DropWait(r) PROVE OwnersInv'
  <2>1. \A q \in Readers : /\ Installs(q)' => rd'[q] = rd[q]
                           /\ Installs(q) => rd'[q] = rd[q]
    BY <1>6 DEF DropWait, Installs, Folding, Waiting, Idle, TypeOK
  <2> QED
    BY <1>6, <2>1, OwnersKeep DEF DropWait, flights
<1> QED
  BY <1>1, <1>2, <1>3, <1>4, <1>5, <1>6 DEF Next

-----------------------------------------------------------------------------
(***************************************************************************)
(* The theorems.                                                           *)
(***************************************************************************)

LEMMA StateInit == ASSUME Init PROVE StateInv
<1>1. Flying = {} /\ resident = Cardinality(PresentKeys) /\ (~Full => PresentKeys = {})
  BY DEF Init, PresentKeys, IsPresent, Absent, Flying, NoFlight
<1>2. \A r \in Readers : ~Folding(r)
  BY DEF Init, Folding, Idle
<1>3. OwnersInv
  BY <1>1, <1>2 DEF OwnersInv, OneOwner, LiveHasOwner, TicketHasFlight, Installs, Live
<1>4. MarkerHasFlight
  BY DEF Init, MarkerHasFlight, Absent, Present
<1>5. CountInv /\ TableInv
  BY <1>1, FS_EmptySet, ConstantsAssumption
     DEF Init, CountInv, TableInv, PinsAreEntries, ConstantsAssumption
<1> QED
  BY <1>3, <1>4, <1>5 DEF StateInv

\* The invariant of what a view holds, partial or full.
THEOREM StateInductive == Spec => []StateInv
<1>1. Init => StateInv
  BY StateInit
<1>2. TypeOK /\ StateInv /\ [Next]_vars => StateInv'
  BY OwnersStep, MarkerStep, CountStep, TableStep DEF StateInv
<1> QED
  BY <1>1, <1>2, TypeCorrect, PTL DEF Spec

\* Whoever folds for a flight is the only one to settle it, and no wipe, reap or
\* late completion takes a later flight from its owner.
THEOREM OneTicketPerFlight == Spec => []SingleFlight
<1>1. StateInv => SingleFlight
  BY DEF StateInv, OwnersInv, LiveHasOwner, TicketHasFlight, SingleFlight
<1> QED
  BY <1>1, StateInductive, PTL

\* No key is left pending for ever: each marker belongs to the flight that placed it.
THEOREM MarkersHaveFlights == Spec => []MarkerHasFlight
<1>1. StateInv => MarkerHasFlight
  BY DEF StateInv
<1> QED
  BY <1>1, StateInductive, PTL

\* The view holds what its budget and its flight table allow and no more, for
\* however many keys, readers, wipes and abandoned folds.
THEOREM StateIsBounded == Spec => []BoundedState
<1>1. TypeOK /\ StateInv => BoundedState
  <2> SUFFICES ASSUME TypeOK, StateInv PROVE BoundedState
    OBVIOUS
  <2> DEFINE pending == {k \in Keys : slots[k].tag = "pending"}
  <2>1. pending \subseteq Flying /\ Flying \subseteq Keys
    BY DEF StateInv, MarkerHasFlight, Flying
  <2>2. /\ Cardinality(pending) <= Cardinality(Flying)
        /\ Cardinality(pending) \in Nat /\ Cardinality(Flying) \in Nat
    BY <2>1, KeysAreFinite
  <2>3. Cardinality(Flying) <= MaxFlights /\ MaxFlights \in Nat
    BY ConstantsAssumption DEF StateInv, TableInv, ConstantsAssumption
  <2> HIDE DEF pending
  <2>4. Cardinality(pending) <= MaxFlights
    BY <2>2, <2>3
  <2>5. meta \cup pinned \subseteq PresentKeys
    <3>1. pinned \subseteq PresentKeys
      BY DEF TypeOK, StateInv, CountInv, PinsAreEntries, PresentKeys
    <3> QED
      BY <3>1 DEF StateInv, CountInv
  <2> QED
    BY <2>3, <2>4, <2>5 DEF StateInv, CountInv, PresentKeys, BoundedState, pending
<1> QED
  BY <1>1, StateInductive, TypeCorrect, PTL

=============================================================================
