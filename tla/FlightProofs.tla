---------------------------- MODULE FlightProofs ----------------------------
(***************************************************************************)
(* Proofs about FlightRendezvous: the place count is right, a publication  *)
(* reaches all who wait, and a flight implements FlightPromise, for any    *)
(* number of readers and places.                                           *)
(***************************************************************************)
EXTENDS FlightRendezvous, FiniteSetTheorems, TLAPS

InView == {"reap", "decide", "admit"}
Publishing == {"publish", "publish_store", "publish_notify"}

\* The view lock is held across begin_read and across finish_fold.
LockHeld ==
    /\ \A j \in Joiners : reader[j] \in InView => view_lock = j
    /\ owner \in Publishing => view_lock = Owner

\* Who is about to join found the flight in the table, where it is no more once
\* its owner publishes.
InTable ==
    /\ \A j \in Joiners : reader[j] \in {"decide", "admit"} => in_flight
    /\ owner \in Publishing \cup {"answered"} => ~in_flight

\* Nobody has a place in the flight who did not mark it as joined.
MarkedFirst == \A j \in Joiners : HasPlace(j) \/ reader[j] = "admit" => joined

\* Once the owner goes on to notify, a flight that was joined has its answer.
AnswerStored ==
    /\ owner = "publish_notify" => state.answer
    /\ owner = "answered" /\ joined => state.answer

AllWoken == owner = "answered" => \A j \in Joiners : reader[j] # "parked"

FlightInv ==
    /\ TypeOK /\ PlacesMatch
    /\ LockHeld /\ InTable /\ MarkedFirst /\ AnswerStored /\ AllWoken

Places == {j \in Joiners : HasPlace(j)}

LEMMA PlacesFinite == IsFiniteSet(Places) /\ Cardinality(Places) \in Nat
<1>1. IsFiniteSet(Places)
  BY JoinersAssumption, FS_Subset DEF Places
<1> QED
  BY <1>1, FS_CardinalityType

\* Who had a place keeps it, and nobody gets one.
LEMMA PlacesSame ==
    ASSUME PlacesMatch, state'.waiters = state.waiters,
           \A j \in Joiners : HasPlace(j)' <=> HasPlace(j)
    PROVE  PlacesMatch'
<1>1. Places' = Places
  BY DEF Places
<1> QED
  BY <1>1 DEF PlacesMatch, Places

\* A reader gives back the place it had.
LEMMA PlaceGivenBack ==
    ASSUME TypeOK, PlacesMatch, GiveBackPlace, NEW j \in Joiners, HasPlace(j), ~HasPlace(j)',
           \A k \in Joiners \ {j} : HasPlace(k)' <=> HasPlace(k)
    PROVE  PlacesMatch' /\ state' \in [answer : BOOLEAN, cancelled : BOOLEAN,
                                       waiters : 0 .. MaxWaiters]
           /\ state'.answer = state.answer /\ state'.cancelled = state.cancelled
<1>1. Places' = Places \ {j} /\ j \in Places
  BY DEF Places
<1>2. Cardinality(Places') = Cardinality(Places) - 1 /\ Cardinality(Places) \in Nat
      /\ Cardinality(Places') \in Nat
  <2>1. IsFiniteSet(Places) /\ Cardinality(Places) \in Nat
    BY PlacesFinite
  <2>2. IsFiniteSet(Places')
    BY <1>1, <2>1, FS_Subset
  <2> QED
    BY <1>1, <2>1, <2>2, FS_RemoveElement, FS_CardinalityType
<1>3. state.waiters = Cardinality(Places) /\ state.waiters \in 0 .. MaxWaiters /\ MaxWaiters \in Nat
  BY JoinersAssumption DEF PlacesMatch, Places, TypeOK
<1>4. state.waiters > 0
  BY <1>2, <1>3
<1>5. state' = [state EXCEPT !.waiters = state.waiters - 1]
  BY <1>4 DEF GiveBackPlace
<1>6. state'.waiters = state.waiters - 1
  BY <1>5 DEF TypeOK
<1>7. PlacesMatch'
  BY <1>2, <1>3, <1>6 DEF PlacesMatch, Places
<1> QED
  BY <1>3, <1>4, <1>5, <1>7 DEF TypeOK

\* A reader is admitted while there is a place left.
LEMMA PlaceTaken ==
    ASSUME TypeOK, PlacesMatch, state.waiters < MaxWaiters,
           state' = [state EXCEPT !.waiters = @ + 1],
           NEW j \in Joiners, ~HasPlace(j), HasPlace(j)',
           \A k \in Joiners \ {j} : HasPlace(k)' <=> HasPlace(k)
    PROVE  PlacesMatch' /\ state' \in [answer : BOOLEAN, cancelled : BOOLEAN,
                                       waiters : 0 .. MaxWaiters]
           /\ state'.answer = state.answer /\ state'.cancelled = state.cancelled
<1>1. Places' = Places \cup {j} /\ j \notin Places
  BY DEF Places
<1>2. Cardinality(Places') = Cardinality(Places) + 1
  BY <1>1, PlacesFinite, FS_AddElement
<1>3. state.waiters = Cardinality(Places) /\ state.waiters \in 0 .. MaxWaiters /\ MaxWaiters \in Nat
  BY JoinersAssumption DEF PlacesMatch, Places, TypeOK
<1>4. state'.waiters = state.waiters + 1
  BY DEF TypeOK
<1>5. PlacesMatch'
  BY <1>2, <1>3, <1>4 DEF PlacesMatch, Places
<1> QED
  BY <1>3, <1>5 DEF TypeOK

LEMMA FlightInit == ASSUME Init PROVE FlightInv
<1>1. TypeOK
  <2>1. 0 \in 0 .. MaxWaiters
    BY JoinersAssumption
  <2>2. state \in [answer : BOOLEAN, cancelled : BOOLEAN, waiters : 0 .. MaxWaiters]
    BY <2>1 DEF Init
  <2>3. reader \in [Joiners -> {"idle"}] /\ owner = "folding"
    BY DEF Init
  <2> QED
    BY <2>2, <2>3 DEF Init, TypeOK
<1>2. PlacesMatch
  <2>1. {j \in Joiners : HasPlace(j)} = {}
    BY DEF Init, HasPlace
  <2> QED
    BY <2>1, FS_EmptySet DEF PlacesMatch, Init
<1> QED
  BY <1>1, <1>2 DEF FlightInv, Init, LockHeld, InTable, MarkedFirst, AnswerStored, AllWoken,
     HasPlace, InView, Publishing

\* What a step of one reader may change without a place in the queue.
LEMMA FlightInvStep == ASSUME FlightInv, [Next]_vars PROVE FlightInv'
<1>0. /\ TypeOK /\ PlacesMatch /\ LockHeld /\ InTable /\ MarkedFirst /\ AnswerStored /\ AllWoken
      /\ \A j \in Joiners : j # Nobody /\ j # Owner
  BY JoinersAssumption DEF FlightInv
<1> USE <1>0 DEF InView, Publishing, flags, Nobody, Owner
<1>1. ASSUME NEW j \in Joiners, EnterView(j) PROVE FlightInv'
  <2>1. TypeOK'
    BY <1>1 DEF EnterView, TypeOK
  <2>2. PlacesMatch'
    BY <1>1, PlacesSame DEF EnterView, TypeOK, HasPlace
  <2>3. LockHeld' /\ InTable' /\ MarkedFirst' /\ AnswerStored' /\ AllWoken'
    BY <1>1 DEF EnterView, TypeOK, HasPlace, LockHeld, InTable, MarkedFirst, AnswerStored, AllWoken
  <2> QED
    BY <2>1, <2>2, <2>3 DEF FlightInv
<1>2. ASSUME NEW j \in Joiners, ReapCancelled(j) PROVE FlightInv'
  <2>1. TypeOK'
    BY <1>2 DEF ReapCancelled, Elsewhere, TypeOK
  <2>2. PlacesMatch'
    BY <1>2, PlacesSame DEF ReapCancelled, Elsewhere, TypeOK, HasPlace
  <2>3. LockHeld' /\ InTable'
    BY <1>2 DEF ReapCancelled, Elsewhere, TypeOK, LockHeld, InTable
  <2>4. MarkedFirst' /\ AnswerStored' /\ AllWoken'
    BY <1>2 DEF ReapCancelled, Elsewhere, TypeOK, HasPlace, MarkedFirst, AnswerStored, AllWoken
  <2> QED
    BY <2>1, <2>2, <2>3, <2>4 DEF FlightInv
<1>3. ASSUME NEW j \in Joiners, DeclineJoin(j) PROVE FlightInv'
  <2>1. TypeOK'
    BY <1>3 DEF DeclineJoin, Elsewhere, TypeOK
  <2>2. PlacesMatch'
    BY <1>3, PlacesSame DEF DeclineJoin, Elsewhere, TypeOK, HasPlace
  <2>3. LockHeld' /\ InTable'
    BY <1>3 DEF DeclineJoin, Elsewhere, TypeOK, LockHeld, InTable
  <2>4. MarkedFirst' /\ AnswerStored' /\ AllWoken'
    BY <1>3 DEF DeclineJoin, Elsewhere, TypeOK, HasPlace, MarkedFirst, AnswerStored, AllWoken
  <2> QED
    BY <2>1, <2>2, <2>3, <2>4 DEF FlightInv
<1>4. ASSUME NEW j \in Joiners, MarkJoined(j) PROVE FlightInv'
  <2>1. TypeOK'
    BY <1>4 DEF MarkJoined, TypeOK
  <2>2. PlacesMatch'
    BY <1>4, PlacesSame DEF MarkJoined, TypeOK, HasPlace
  <2>3. LockHeld' /\ InTable'
    BY <1>4 DEF MarkJoined, TypeOK, LockHeld, InTable
  <2>4. MarkedFirst' /\ AllWoken'
    BY <1>4 DEF MarkJoined, TypeOK, HasPlace, MarkedFirst, AllWoken
  <2>5. AnswerStored'
    BY <1>4 DEF MarkJoined, InTable, AnswerStored
  <2> QED
    BY <2>1, <2>2, <2>3, <2>4, <2>5 DEF FlightInv
<1>5. ASSUME NEW j \in Joiners, Admit(j) PROVE FlightInv'
  <2>1. CASE ~Settled /\ state.waiters < MaxWaiters
    <3>1. /\ state' = [state EXCEPT !.waiters = @ + 1]
          /\ reader' = [reader EXCEPT ![j] = "ticket"] /\ reader[j] = "admit"
          /\ view_lock' = Nobody /\ in_flight' = in_flight /\ owner' = owner
          /\ joined' = joined /\ cancelled' = cancelled
      BY <1>5, <2>1 DEF Admit
    <3>2. ~HasPlace(j) /\ HasPlace(j)' /\ \A k \in Joiners \ {j} : HasPlace(k)' <=> HasPlace(k)
      BY <3>1 DEF HasPlace, TypeOK
    <3>3. PlacesMatch' /\ state' \in [answer : BOOLEAN, cancelled : BOOLEAN, waiters : 0 .. MaxWaiters]
          /\ state'.answer = state.answer
      BY <2>1, <3>1, <3>2, PlaceTaken
    <3>4. TypeOK'
      BY <3>1, <3>3 DEF TypeOK
    <3>5. LockHeld' /\ InTable'
      BY <3>1 DEF TypeOK, LockHeld, InTable
    <3>6. MarkedFirst' /\ AnswerStored' /\ AllWoken'
      BY <3>1, <3>3 DEF TypeOK, HasPlace, MarkedFirst, AnswerStored, AllWoken
    <3> QED
      BY <3>3, <3>4, <3>5, <3>6 DEF FlightInv
  <2>2. CASE ~(~Settled /\ state.waiters < MaxWaiters)
    <3>1. /\ reader' = [reader EXCEPT ![j] = "elsewhere"] /\ reader[j] = "admit" /\ state' = state
          /\ view_lock' = Nobody /\ in_flight' = in_flight /\ owner' = owner
          /\ joined' = joined /\ cancelled' = cancelled
      BY <1>5, <2>2 DEF Admit, Elsewhere
    <3>2. TypeOK'
      BY <3>1 DEF TypeOK
    <3>3. PlacesMatch'
      BY <3>1, PlacesSame DEF TypeOK, HasPlace
    <3>4. LockHeld' /\ InTable'
      BY <3>1 DEF TypeOK, LockHeld, InTable
    <3>5. MarkedFirst' /\ AnswerStored' /\ AllWoken'
      BY <3>1 DEF TypeOK, HasPlace, MarkedFirst, AnswerStored, AllWoken
    <3> QED
      BY <3>2, <3>3, <3>4, <3>5 DEF FlightInv
  <2> QED
    BY <2>1, <2>2
\* A reader leaves the queue for where.
<1>6. ASSUME NEW j \in Joiners, HasPlace(j), GiveBackPlace,
             NEW where \in {"idle", "answered", "elsewhere"},
             reader' = [reader EXCEPT ![j] = where],
             UNCHANGED <<view_lock, in_flight, flags, owner>>
      PROVE  FlightInv'
  <2>1. ~HasPlace(j)' /\ \A k \in Joiners \ {j} : HasPlace(k)' <=> HasPlace(k)
    BY <1>6 DEF HasPlace, TypeOK
  <2>2. PlacesMatch' /\ state' \in [answer : BOOLEAN, cancelled : BOOLEAN, waiters : 0 .. MaxWaiters]
        /\ state'.answer = state.answer
    BY <1>6, <2>1, PlaceGivenBack
  <2>3. TypeOK'
    BY <1>6, <2>2 DEF TypeOK
  <2>4. LockHeld' /\ InTable'
    BY <1>6 DEF TypeOK, LockHeld, InTable
  <2>5. MarkedFirst' /\ AnswerStored' /\ AllWoken'
    BY <1>6, <2>2 DEF TypeOK, HasPlace, MarkedFirst, AnswerStored, AllWoken
  <2> QED
    BY <2>2, <2>3, <2>4, <2>5 DEF FlightInv
<1>7. ASSUME NEW j \in Joiners, DropWait(j) PROVE FlightInv'
  BY <1>6, <1>7 DEF DropWait, HasPlace
<1>8. ASSUME NEW j \in Joiners, JoinTurn(j) PROVE FlightInv'
  <2>1. CASE Settled
    BY <1>6, <1>8, <2>1 DEF JoinTurn, HasPlace
  <2>2. CASE ~Settled
    <3>1. /\ reader' = [reader EXCEPT ![j] = "parked"] /\ reader[j] \in {"ticket", "woken"}
          /\ state' = state /\ ~state.answer /\ UNCHANGED <<view_lock, in_flight, flags, owner>>
      BY <1>8, <2>2 DEF JoinTurn, Settled
    <3>2. TypeOK'
      BY <3>1 DEF TypeOK
    <3>3. PlacesMatch'
      BY <3>1, PlacesSame DEF TypeOK, HasPlace
    <3>4. LockHeld' /\ InTable' /\ MarkedFirst' /\ AnswerStored'
      BY <3>1 DEF TypeOK, HasPlace, LockHeld, InTable, MarkedFirst, AnswerStored
    <3>5. AllWoken'
      BY <3>1 DEF HasPlace, MarkedFirst, AnswerStored, AllWoken
    <3> QED
      BY <3>2, <3>3, <3>4, <3>5 DEF FlightInv
  <2> QED
    BY <2>1, <2>2
<1>9. ASSUME NEW j \in Joiners, WakeUnasked(j) PROVE FlightInv'
  <2>1. TypeOK'
    BY <1>9 DEF WakeUnasked, TypeOK
  <2>2. PlacesMatch'
    BY <1>9, PlacesSame DEF WakeUnasked, TypeOK, HasPlace
  <2>3. LockHeld' /\ InTable' /\ MarkedFirst' /\ AnswerStored' /\ AllWoken'
    BY <1>9 DEF WakeUnasked, TypeOK, HasPlace, LockHeld, InTable, MarkedFirst, AnswerStored, AllWoken
  <2> QED
    BY <2>1, <2>2, <2>3 DEF FlightInv
\* A step of the owner, or a wipe, that moves no reader.
<1>10. ASSUME reader' = reader, state'.waiters = state.waiters, TypeOK', LockHeld', InTable',
              joined' = joined, AnswerStored',
              owner' = "answered" => owner = "answered" \/ ~joined
       PROVE  FlightInv'
  <2>1. PlacesMatch'
    BY <1>10, PlacesSame DEF HasPlace
  <2>2. MarkedFirst'
    BY <1>10 DEF HasPlace, MarkedFirst
  <2>3. AllWoken'
    BY <1>10 DEF AllWoken, HasPlace, MarkedFirst
  <2> QED
    BY <1>10, <2>1, <2>2, <2>3 DEF FlightInv
<1>11. CASE Wipe
  <2>1. TypeOK' /\ LockHeld' /\ InTable' /\ AnswerStored'
    BY <1>11 DEF Wipe, TypeOK, LockHeld, InTable, AnswerStored
  <2> QED
    BY <1>10, <1>11, <2>1 DEF Wipe
<1>12. CASE FinishFold
  <2>1. TypeOK' /\ LockHeld' /\ InTable' /\ AnswerStored'
    BY <1>12 DEF FinishFold, TypeOK, LockHeld, InTable, AnswerStored
  <2> QED
    BY <1>10, <1>12, <2>1 DEF FinishFold
<1>13. CASE PublishCheck
  <2>1. TypeOK' /\ LockHeld' /\ InTable' /\ AnswerStored'
    BY <1>13 DEF PublishCheck, TypeOK, LockHeld, InTable, AnswerStored
  <2> QED
    BY <1>10, <1>13, <2>1 DEF PublishCheck
<1>14. CASE PublishStore
  <2>1. TypeOK' /\ LockHeld' /\ InTable' /\ AnswerStored' /\ state'.waiters = state.waiters
    BY <1>14 DEF PublishStore, TypeOK, LockHeld, InTable, AnswerStored
  <2> QED
    BY <1>10, <1>14, <2>1 DEF PublishStore
<1>15. CASE CancelFlag
  <2>1. TypeOK' /\ LockHeld' /\ InTable' /\ AnswerStored'
    BY <1>15 DEF CancelFlag, TypeOK, LockHeld, InTable, AnswerStored
  <2> QED
    BY <1>10, <1>15, <2>1 DEF CancelFlag
<1>16. CASE CancelCheck
  <2>1. TypeOK' /\ LockHeld' /\ InTable' /\ AnswerStored'
    BY <1>16 DEF CancelCheck, TypeOK, LockHeld, InTable, AnswerStored
  <2> QED
    BY <1>10, <1>16, <2>1 DEF CancelCheck
<1>17. CASE CancelStore
  <2>1. TypeOK' /\ LockHeld' /\ InTable' /\ AnswerStored' /\ state'.waiters = state.waiters
    BY <1>17 DEF CancelStore, TypeOK, LockHeld, InTable, AnswerStored
  <2> QED
    BY <1>10, <1>17, <2>1 DEF CancelStore
\* Who is notified keeps its place and its lock.
<1>18. ASSUME NotifyAll, UNCHANGED <<in_flight, flags, state>>
       PROVE  /\ reader' \in [Joiners -> {"idle", "reap", "decide", "admit", "ticket", "parked",
                                          "woken", "answered", "elsewhere"}]
              /\ PlacesMatch' /\ MarkedFirst'
              /\ \A j \in Joiners : /\ reader'[j] # "parked"
                                    /\ reader'[j] \in InView => reader'[j] = reader[j]
  <2>1. \A j \in Joiners : reader'[j] = IF reader[j] = "parked" THEN "woken" ELSE reader[j]
    BY <1>18 DEF NotifyAll
  <2>2. reader' \in [Joiners -> {"idle", "reap", "decide", "admit", "ticket", "parked",
                                 "woken", "answered", "elsewhere"}]
    BY <1>18 DEF NotifyAll, TypeOK
  <2>3. PlacesMatch'
    BY <1>18, <2>1, PlacesSame DEF HasPlace
  <2>4. MarkedFirst'
    BY <1>18, <2>1 DEF HasPlace, MarkedFirst
  <2> QED
    BY <2>1, <2>2, <2>3, <2>4
<1>19. CASE PublishNotify
  <2>1. /\ NotifyAll /\ UNCHANGED <<in_flight, flags, state>> /\ owner = "publish_notify"
        /\ owner' = "answered" /\ view_lock' = Nobody
    BY <1>19 DEF PublishNotify
  <2>2. TypeOK'
    BY <1>18, <2>1 DEF TypeOK
  <2>3. LockHeld' /\ InTable'
    BY <1>18, <2>1 DEF LockHeld, InTable
  <2>4. AnswerStored' /\ AllWoken'
    BY <1>18, <2>1 DEF AnswerStored, AllWoken
  <2> QED
    BY <1>18, <2>1, <2>2, <2>3, <2>4 DEF FlightInv
<1>20. CASE CancelNotify
  <2>1. /\ NotifyAll /\ UNCHANGED <<in_flight, flags, state>> /\ owner = "cancel_notify"
        /\ owner' = "dropped" /\ view_lock' = view_lock
    BY <1>20 DEF CancelNotify
  <2>2. TypeOK'
    BY <1>18, <2>1 DEF TypeOK
  <2>3. LockHeld' /\ InTable'
    BY <1>18, <2>1 DEF LockHeld, InTable
  <2>4. AnswerStored' /\ AllWoken'
    BY <1>18, <2>1 DEF AnswerStored, AllWoken
  <2> QED
    BY <1>18, <2>1, <2>2, <2>3, <2>4 DEF FlightInv
<1>21. CASE UNCHANGED vars
  <2>1. TypeOK' /\ LockHeld' /\ InTable' /\ AnswerStored'
    BY <1>21 DEF vars, TypeOK, LockHeld, InTable, AnswerStored
  <2> QED
    BY <1>10, <1>21, <2>1 DEF vars
<1> QED
  BY <1>1, <1>2, <1>3, <1>4, <1>5, <1>7, <1>8, <1>9, <1>11, <1>12, <1>13, <1>14, <1>15, <1>16,
     <1>17, <1>19, <1>20, <1>21 DEF Next, OwnerStep, ReaderStep

THEOREM FlightInductive == Spec => []FlightInv
  BY FlightInit, FlightInvStep, PTL DEF Spec

\* The flags, the lock and where the threads stand have their types; in particular
\* the flight never counts more readers than MAX_WAITERS.
THEOREM FlightTyped == Spec => []TypeOK
<1>1. FlightInv => TypeOK
  BY DEF FlightInv
<1> QED
  BY <1>1, FlightInductive, PTL

\* The waiter count of Completion is at all times the number of readers in its queue.
THEOREM PlacesCounted == Spec => []PlacesMatch
<1>1. FlightInv => PlacesMatch
  BY DEF FlightInv
<1> QED
  BY <1>1, FlightInductive, PTL

\* A publication reaches every reader with a place, although Completion::publish
\* skips the rendezvous when it finds that nobody has joined.
THEOREM PublicationReachesAll == Spec => []PublishReachesAll
<1>1. FlightInv => PublishReachesAll
  BY DEF FlightInv, PublishReachesAll, InTable, MarkedFirst, AnswerStored, AllWoken, Publishing
<1> QED
  BY <1>1, FlightInductive, PTL

-----------------------------------------------------------------------------
(***************************************************************************)
(* The refinement of FlightPromise.  The flight ends when its answer or    *)
(* its cancellation is stored, or when publish finds nobody to store it    *)
(* for; every other step of the owner and every wake-up is a stutter.      *)
(***************************************************************************)

\* What is stored for those who wait says how far its owner has come.
StoredByOwner ==
    /\ state.answer => owner \in {"publish_notify", "answered"}
    /\ state.cancelled => owner \in {"cancel_notify", "dropped"}

LEMMA StoredStep == ASSUME FlightInv, StoredByOwner, [Next]_vars PROVE StoredByOwner'
<1>0. state \in [answer : BOOLEAN, cancelled : BOOLEAN, waiters : 0 .. MaxWaiters]
  BY DEF FlightInv, TypeOK
<1>1. ASSUME state'.answer = state.answer, state'.cancelled = state.cancelled,
             \/ owner' = owner
             \/ owner \in {"folding", "publish", "cancel_check"}
             \/ owner = "publish_notify" /\ owner' = "answered"
             \/ owner = "cancel_notify" /\ owner' = "dropped"
      PROVE  StoredByOwner'
  BY <1>1 DEF StoredByOwner
<1>2. ASSUME NEW j \in Joiners,
             EnterView(j) \/ ReaderStep(j) \/ DropWait(j) \/ WakeUnasked(j)
      PROVE  StoredByOwner'
  <2>1. owner' = owner
    BY <1>2 DEF EnterView, ReaderStep, ReapCancelled, DeclineJoin, MarkJoined, Admit, JoinTurn,
       DropWait, WakeUnasked
  <2>2. \/ state' = state \/ GiveBackPlace
        \/ state' = [state EXCEPT !.waiters = @ + 1]
    BY <1>2 DEF EnterView, ReaderStep, ReapCancelled, DeclineJoin, MarkJoined, Admit, JoinTurn,
       DropWait, WakeUnasked
  <2>3. state'.answer = state.answer /\ state'.cancelled = state.cancelled
    BY <1>0, <2>2 DEF GiveBackPlace
  <2> QED
    BY <1>1, <2>1, <2>3
<1>3. CASE OwnerStep \/ Wipe
  <2>1. CASE PublishStore
    BY <1>0, <2>1 DEF PublishStore, StoredByOwner
  <2>2. CASE CancelStore
    BY <1>0, <2>2 DEF CancelStore, StoredByOwner
  <2>3. CASE FinishFold \/ PublishCheck \/ PublishNotify \/ Wipe
    BY <1>1, <2>3 DEF FinishFold, PublishCheck, PublishNotify, Wipe
  <2>4. CASE CancelFlag \/ CancelCheck \/ CancelNotify
    BY <1>1, <2>4 DEF CancelFlag, CancelCheck, CancelNotify
  <2> QED
    BY <1>3, <2>1, <2>2, <2>3, <2>4 DEF OwnerStep
<1>4. CASE UNCHANGED vars
  BY <1>1, <1>4 DEF vars
<1> QED
  BY <1>2, <1>3, <1>4 DEF Next

THEOREM StoredInductive == Spec => [](FlightInv /\ StoredByOwner)
<1>1. Init => StoredByOwner
  BY DEF Init, StoredByOwner
<1> QED
  BY <1>1, FlightInit, FlightInvStep, StoredStep, PTL DEF Spec

AllGot == [j \in Joiners |-> Got(j)]

LEMMA SameCardinality == \A S : Promise!Cardinality(S) = Cardinality(S)
BY DEF Cardinality, Promise!Cardinality

\* While nothing is stored for them, those with a place are those that wait.
LEMMA WaitingHavePlaces == ASSUME ~Settled PROVE Promise!WaitingOn = Places
<1>1. \A j \in Joiners : Got(j) = "waiting" <=> HasPlace(j)
  BY DEF Got, HasPlace
<1> QED
  BY <1>1 DEF Promise!WaitingOn, Places

LEMMA NothingEnds ==
    ASSUME Fate' = Fate, \A j \in Joiners : Got(j)' = Got(j)
    PROVE  UNCHANGED <<Fate, AllGot>>
BY DEF AllGot

\* One reader moves, and the flight is as it was.
LEMMA OneMoves ==
    ASSUME Fate' = Fate, NEW j \in Joiners, \A k \in Joiners \ {j} : Got(k)' = Got(k)
    PROVE  AllGot' = [AllGot EXCEPT ![j] = Got(j)']
BY DEF AllGot

\* What the other readers have of the flight does not depend on this one.
LEMMA OthersGot ==
    ASSUME TypeOK, NEW j \in Joiners, NEW where, reader' = [reader EXCEPT ![j] = where],
           owner' = owner, state'.answer = state.answer, state'.cancelled = state.cancelled
    PROVE  /\ Fate' = Fate /\ (Settled <=> Settled')
           /\ \A k \in Joiners \ {j} : Got(k)' = Got(k)
           /\ reader'[j] = where
<1>1. Fate' = Fate /\ (Settled <=> Settled')
  BY DEF Fate, Settled
<1>2. \A k \in Joiners \ {j} : reader'[k] = reader[k]
  BY DEF TypeOK
<1>3. \A k \in Joiners \ {j} : Got(k)' = Got(k)
  BY <1>1, <1>2 DEF Got, HasPlace
<1> QED
  BY <1>1, <1>3 DEF TypeOK

LEMMA ReaderKeepsPromise ==
    ASSUME FlightInv, StoredByOwner, NEW j \in Joiners,
           EnterView(j) \/ ReaderStep(j) \/ DropWait(j) \/ WakeUnasked(j)
    PROVE  Promise!Next \/ UNCHANGED <<Fate, AllGot>>
<1>0. /\ TypeOK /\ PlacesMatch /\ InTable /\ MarkedFirst
      /\ state \in [answer : BOOLEAN, cancelled : BOOLEAN, waiters : 0 .. MaxWaiters]
  BY DEF FlightInv, TypeOK
<1>1. ASSUME NEW where, reader' = [reader EXCEPT ![j] = where], owner' = owner,
             state'.answer = state.answer, state'.cancelled = state.cancelled,
             Got(j)' = Got(j)
      PROVE  UNCHANGED <<Fate, AllGot>>
  <2>1. Fate' = Fate /\ \A k \in Joiners \ {j} : Got(k)' = Got(k)
    BY <1>0, <1>1, OthersGot
  <2> QED
    BY <1>1, <2>1, NothingEnds
\* The reader folds elsewhere.
<1>2. ASSUME reader[j] \in InView, reader' = [reader EXCEPT ![j] = "elsewhere"], owner' = owner,
             state' = state
      PROVE  Promise!Next
  <2>1. Got(j) = "nothing"
    BY <1>2 DEF Got, HasPlace, InView
  <2>2. /\ Fate' = Fate /\ \A k \in Joiners \ {j} : Got(k)' = Got(k)
        /\ reader'[j] = "elsewhere"
    BY <1>0, <1>2, OthersGot
  <2>3. Got(j)' = "given_up"
    BY <2>2 DEF Got, HasPlace
  <2>4. AllGot' = [AllGot EXCEPT ![j] = "given_up"]
    BY <2>2, <2>3, OneMoves
  <2>5. Promise!GoElsewhere(j)
    BY <2>1, <2>2, <2>4 DEF Promise!GoElsewhere, AllGot
  <2> QED
    BY <2>5 DEF Promise!Next
\* A reader without a place, which gets none.
<1>3. ASSUME NEW where \in InView, reader[j] \in InView \cup {"idle"},
             reader' = [reader EXCEPT ![j] = where], owner' = owner, state' = state
      PROVE  UNCHANGED <<Fate, AllGot>>
  <2>1. reader'[j] = where
    BY <1>0, <1>3, OthersGot
  <2>2. Got(j) = "nothing" /\ Got(j)' = "nothing"
    BY <1>3, <2>1 DEF Got, HasPlace, InView
  <2> QED
    BY <1>1, <1>3, <2>2
<1>4. CASE EnterView(j)
  BY <1>3, <1>4 DEF EnterView, InView
<1>5. CASE ReapCancelled(j)
  BY <1>2, <1>3, <1>5 DEF ReapCancelled, Elsewhere, InView
<1>6. CASE DeclineJoin(j)
  BY <1>2, <1>6 DEF DeclineJoin, Elsewhere, InView
<1>7. CASE MarkJoined(j)
  BY <1>3, <1>7 DEF MarkJoined, InView
<1>8. CASE Admit(j)
  <2>1. CASE ~Settled /\ state.waiters < MaxWaiters
    <3>1. /\ reader[j] = "admit" /\ reader' = [reader EXCEPT ![j] = "ticket"] /\ owner' = owner
          /\ state' = [state EXCEPT !.waiters = @ + 1]
      BY <1>8, <2>1 DEF Admit
    <3>2. state'.answer = state.answer /\ state'.cancelled = state.cancelled
      BY <1>0, <3>1
    <3>3. /\ Fate' = Fate /\ \A k \in Joiners \ {j} : Got(k)' = Got(k)
          /\ reader'[j] = "ticket" /\ (Settled <=> Settled')
      BY <1>0, <3>1, <3>2, OthersGot
    <3>4. Got(j) = "nothing" /\ Got(j)' = "waiting"
      BY <2>1, <3>1, <3>3 DEF Got, HasPlace
    <3>5. Fate = "open"
      BY <1>0, <2>1, <3>1 DEF Fate, Settled, InTable
    <3>6. Promise!Cardinality(Promise!WaitingOn) < MaxWaiters
      BY <1>0, <2>1, WaitingHavePlaces, SameCardinality DEF PlacesMatch, Places
    <3>7. AllGot' = [AllGot EXCEPT ![j] = "waiting"]
      BY <3>3, <3>4, OneMoves
    <3>8. Promise!Join(j)
      BY <3>3, <3>4, <3>5, <3>6, <3>7 DEF Promise!Join, AllGot
    <3> QED
      BY <3>8 DEF Promise!Next
  <2>2. CASE ~(~Settled /\ state.waiters < MaxWaiters)
    BY <1>2, <1>8, <2>2 DEF Admit, Elsewhere, InView
  <2> QED
    BY <2>1, <2>2
<1>9. CASE DropWait(j)
  <2>1. /\ reader' = [reader EXCEPT ![j] = "idle"] /\ owner' = owner
        /\ state'.answer = state.answer /\ state'.cancelled = state.cancelled
    BY <1>0, <1>9 DEF DropWait, GiveBackPlace
  <2>2. /\ Fate' = Fate /\ \A k \in Joiners \ {j} : Got(k)' = Got(k)
        /\ reader'[j] = "idle"
    BY <1>0, <2>1, OthersGot
  <2>3. Got(j)' = "nothing"
    BY <2>2 DEF Got, HasPlace
  <2>4. AllGot' = [AllGot EXCEPT ![j] = "nothing"]
    BY <2>2, <2>3, OneMoves
  <2>5. Promise!Leave(j)
    BY <2>2, <2>4 DEF Promise!Leave, AllGot
  <2> QED
    BY <2>5 DEF Promise!Next
<1>10. CASE JoinTurn(j)
  <2>1. CASE Settled
    <3> DEFINE where == IF state.answer THEN "answered" ELSE "given_up"
               stand == IF state.answer THEN "answered" ELSE "elsewhere"
    <3>1. /\ reader' = [reader EXCEPT ![j] = stand] /\ owner' = owner /\ HasPlace(j)
          /\ state'.answer = state.answer /\ state'.cancelled = state.cancelled
      BY <1>0, <1>10, <2>1 DEF JoinTurn, GiveBackPlace, HasPlace
    <3>2. reader'[j] = stand
      BY <1>0, <3>1, OthersGot
    <3>3. Got(j)' = where
      BY <3>2 DEF Got, HasPlace
    <3>4. Fate = where
      BY <2>1 DEF Fate, Settled, StoredByOwner
    <3>5. Got(j) = Fate
      BY <2>1, <3>1 DEF Got, HasPlace
    <3> HIDE DEF where, stand
    <3> QED
      BY <1>1, <3>1, <3>3, <3>4, <3>5
  <2>2. CASE ~Settled
    <3>1. /\ reader' = [reader EXCEPT ![j] = "parked"] /\ owner' = owner /\ HasPlace(j)
          /\ state' = state
      BY <1>10, <2>2 DEF JoinTurn, HasPlace
    <3>2. reader'[j] = "parked" /\ (Settled <=> Settled')
      BY <1>0, <3>1, OthersGot
    <3>3. Got(j) = "waiting" /\ Got(j)' = "waiting"
      BY <2>2, <3>1, <3>2 DEF Got, HasPlace
    <3> QED
      BY <1>1, <3>1, <3>3
  <2> QED
    BY <2>1, <2>2
<1>11. CASE WakeUnasked(j)
  <2>1. /\ reader' = [reader EXCEPT ![j] = "woken"] /\ owner' = owner /\ HasPlace(j)
        /\ state' = state
    BY <1>11 DEF WakeUnasked, HasPlace
  <2>2. reader'[j] = "woken" /\ (Settled <=> Settled') /\ Fate' = Fate
    BY <1>0, <2>1, OthersGot
  <2>3. Got(j)' = Got(j)
    BY <2>1, <2>2 DEF Got, HasPlace
  <2> QED
    BY <1>1, <2>1, <2>3
<1> QED
  BY <1>4, <1>5, <1>6, <1>7, <1>8, <1>9, <1>10, <1>11 DEF ReaderStep

LEMMA OwnerKeepsPromise ==
    ASSUME FlightInv, StoredByOwner, OwnerStep \/ Wipe
    PROVE  Promise!Next \/ UNCHANGED <<Fate, AllGot>>
<1>0. /\ TypeOK /\ MarkedFirst /\ AnswerStored
      /\ state \in [answer : BOOLEAN, cancelled : BOOLEAN, waiters : 0 .. MaxWaiters]
  BY DEF FlightInv, TypeOK
\* The owner goes on, and those who wait do not see it.
<1>1. ASSUME state' = state, \A j \in Joiners : \/ reader'[j] = reader[j]
                                                \/ reader[j] = "parked" /\ reader'[j] = "woken",
             owner' = "answered" => owner = "answered" \/ state.answer,
             owner = "answered" => owner' = "answered"
      PROVE  UNCHANGED <<Fate, AllGot>>
  <2>1. Fate' = Fate /\ (Settled <=> Settled')
    BY <1>1 DEF Fate, Settled
  <2>2. \A j \in Joiners : Got(j)' = Got(j)
    BY <1>1, <2>1 DEF Got, HasPlace
  <2> QED
    BY <2>1, <2>2, NothingEnds
\* The end: whoever has a place waits before, and has it after.
<1>2. ASSUME NEW how \in {"answered", "given_up"}, reader' = reader, Fate = "open", Fate' = how,
             ~Settled, Settled' \/ \A j \in Joiners : ~HasPlace(j)
      PROVE  Promise!Next
  <2>1. \A j \in Joiners : Got(j)' = IF HasPlace(j) THEN how ELSE Got(j)
    BY <1>2 DEF Got, HasPlace
  <2>2. Promise!WaitingOn = Places
    BY <1>2, WaitingHavePlaces
  <2>3. AllGot' = [j \in Joiners |-> IF j \in Promise!WaitingOn THEN how ELSE Got(j)]
    BY <2>1, <2>2 DEF AllGot, Places
  <2>4. Promise!End(how)
    BY <1>2, <2>3 DEF Promise!End, AllGot
  <2> QED
    BY <1>2, <2>4 DEF Promise!Next
<1>3. CASE FinishFold \/ CancelFlag \/ Wipe
  BY <1>1, <1>3 DEF FinishFold, CancelFlag, Wipe
<1>4. CASE CancelCheck
  BY <1>1, <1>4 DEF CancelCheck
<1>5. CASE PublishCheck
  <2>1. CASE joined
    BY <1>1, <1>5, <2>1 DEF PublishCheck
  <2>2. CASE ~joined
    <3>1. \A j \in Joiners : ~HasPlace(j)
      BY <1>0, <2>2 DEF MarkedFirst
    <3>2. ~Settled /\ Fate = "open" /\ Fate' = "answered" /\ reader' = reader
      BY <1>5, <2>2 DEF PublishCheck, Settled, Fate, StoredByOwner
    <3> QED
      BY <1>2, <3>1, <3>2
  <2> QED
    BY <2>1, <2>2
<1>6. CASE PublishStore
  <2>1. ~Settled /\ Fate = "open"
    BY <1>6 DEF PublishStore, Settled, Fate, StoredByOwner
  <2>2. reader' = reader /\ state'.answer
    BY <1>0, <1>6 DEF PublishStore
  <2>3. Settled' /\ Fate' = "answered"
    BY <2>2 DEF Settled, Fate
  <2> QED
    BY <1>2, <2>1, <2>2, <2>3
<1>7. CASE PublishNotify
  <2>1. state.answer
    BY <1>0, <1>7 DEF PublishNotify, AnswerStored
  <2>2. \A j \in Joiners : reader'[j] = IF reader[j] = "parked" THEN "woken" ELSE reader[j]
    BY <1>7 DEF PublishNotify, NotifyAll
  <2> QED
    BY <1>1, <1>7, <2>1, <2>2 DEF PublishNotify
<1>8. CASE CancelStore
  <2>1. ~Settled /\ Fate = "open"
    BY <1>8 DEF CancelStore, Settled, Fate, StoredByOwner
  <2>2. reader' = reader /\ state'.cancelled /\ ~state'.answer /\ owner' # "answered"
    BY <1>0, <1>8, <2>1 DEF CancelStore, Settled
  <2>3. Settled' /\ Fate' = "given_up"
    BY <2>2 DEF Settled, Fate
  <2> QED
    BY <1>2, <2>1, <2>2, <2>3
<1>9. CASE CancelNotify
  <2>1. \A j \in Joiners : reader'[j] = IF reader[j] = "parked" THEN "woken" ELSE reader[j]
    BY <1>9 DEF CancelNotify, NotifyAll
  <2> QED
    BY <1>1, <1>9, <2>1 DEF CancelNotify
<1> QED
  BY <1>3, <1>4, <1>5, <1>6, <1>7, <1>8, <1>9 DEF OwnerStep

\* The flight does in its many steps what RevView does in one: it ends once, and every
\* reader in its queue gets that end; for any number of readers and places.
THEOREM KeepsPromise == Spec => PromiseSpec
<1>1. ASSUME Init PROVE Promise!Init
  <2>1. Fate = "open" /\ \A j \in Joiners : Got(j) = "nothing"
    BY <1>1 DEF Init, Fate, Got, HasPlace
  <2> QED
    BY <2>1 DEF Promise!Init
<1>2. ASSUME FlightInv, StoredByOwner, [Next]_vars
      PROVE  [Promise!Next]_<<Fate, [j \in Joiners |-> Got(j)]>>
  <2>1. CASE UNCHANGED vars
    <3>1. Fate' = Fate
      BY <2>1 DEF vars, Fate
    <3>2. \A j \in Joiners : Got(j)' = Got(j)
      BY <2>1, <3>1 DEF vars, Got, HasPlace, Settled
    <3> QED
      BY <3>1, <3>2, NothingEnds DEF AllGot
  <2>2. CASE Next
    <3>1. Promise!Next \/ UNCHANGED <<Fate, AllGot>>
      BY <1>2, <2>2, ReaderKeepsPromise, OwnerKeepsPromise DEF Next
    <3> QED
      BY <3>1 DEF AllGot
  <2> QED
    BY <1>2, <2>1, <2>2
<1> QED
  BY <1>1, <1>2, StoredInductive, PTL DEF Spec, PromiseSpec, Promise!Spec
=============================================================================
