-------------------------- MODULE FlightRendezvous --------------------------
(***************************************************************************)
(* The rendezvous of one flight, step by step (Completion, FoldTicket and  *)
(* WaitTicket of src/crates/nilestream-core/src/rev.rs).                   *)
(*                                                                         *)
(* RevView settles a flight in one step.  Here the owner and the readers   *)
(* that would join it interleave between the two atomic flags, the mutex   *)
(* and the condition variable of the flight.  The view lock is held across *)
(* begin_read and finish_fold, and not by a destructor.  A section under   *)
(* the completion's own mutex is one step: nothing is acquired inside it.  *)
(***************************************************************************)
EXTENDS Integers, FiniteSets

CONSTANTS
    Joiners,     \* readers that find the flight at their own anchor
    MaxWaiters   \* MAX_WAITERS

\* Two names for the view lock that no reader has.
Nobody == "nobody"
Owner == "owner"

ASSUME JoinersAssumption ==
    /\ IsFiniteSet(Joiners)
    /\ Joiners \intersect {Nobody, Owner} = {}
    /\ MaxWaiters \in Nat

VARIABLES
    view_lock,   \* who is in a section under the view lock
    in_flight,   \* is the flight in the view's table?
    joined,      \* Completion::joined, atomic
    cancelled,   \* Completion::cancelled, atomic
    state,       \* CompletionState, under the completion's mutex
    owner,       \* where the owner of the fold ticket stands
    reader       \* where each reader stands

vars == <<view_lock, in_flight, joined, cancelled, state, owner, reader>>
flags == <<joined, cancelled>>

\* Readers that take up one of the MAX_WAITERS places of the flight.
HasPlace(j) == reader[j] \in {"ticket", "parked", "woken"}

Settled == state.answer \/ state.cancelled

Init ==
    /\ view_lock = Nobody
    /\ in_flight = TRUE
    /\ joined = FALSE
    /\ cancelled = FALSE
    /\ state = [answer |-> FALSE, cancelled |-> FALSE, waiters |-> 0]
    /\ owner = "folding"
    /\ reader = [j \in Joiners |-> "idle"]

-----------------------------------------------------------------------------
(* begin_read on the key of the flight, at its anchor.                     *)

EnterView(j) ==
    /\ reader[j] = "idle"
    /\ view_lock = Nobody
    /\ view_lock' = j
    /\ reader' = [reader EXCEPT ![j] = "reap"]
    /\ UNCHANGED <<in_flight, flags, state, owner>>

\* The reader has no place in this flight: it folds, or owns another one.
Elsewhere(j) ==
    /\ view_lock' = Nobody
    /\ reader' = [reader EXCEPT ![j] = "elsewhere"]

\* reap_cancelled reads the atomic flag and takes a dead flight away.
ReapCancelled(j) ==
    /\ reader[j] = "reap"
    /\ IF in_flight /\ ~cancelled
       THEN /\ reader' = [reader EXCEPT ![j] = "decide"]
            /\ UNCHANGED <<view_lock, in_flight>>
       ELSE /\ in_flight' = FALSE
            /\ Elsewhere(j)
    /\ UNCHANGED <<flags, state, owner>>

\* ReadMode::Alone: a caller that may not wait folds on its own.
DeclineJoin(j) ==
    /\ reader[j] = "decide"
    /\ Elsewhere(j)
    /\ UNCHANGED <<in_flight, flags, state, owner>>

\* Mutant: a reader takes its place without marking the flight as joined.
AdmitUnmarked(j) ==
    /\ reader[j] = "decide"
    /\ reader' = [reader EXCEPT ![j] = "admit"]
    /\ UNCHANGED <<view_lock, in_flight, flags, state, owner>>

MarkJoined(j) ==
    /\ reader[j] = "decide"
    /\ joined' = TRUE
    /\ reader' = [reader EXCEPT ![j] = "admit"]
    /\ UNCHANGED <<view_lock, in_flight, cancelled, state, owner>>

\* Mutant: one reader too many is admitted.
AdmitOneMore(j) ==
    /\ reader[j] = "admit"
    /\ IF ~Settled /\ state.waiters <= MaxWaiters
       THEN /\ state' = [state EXCEPT !.waiters = @ + 1]
            /\ reader' = [reader EXCEPT ![j] = "ticket"]
            /\ view_lock' = Nobody
       ELSE /\ Elsewhere(j)
            /\ state' = state
    /\ UNCHANGED <<in_flight, flags, owner>>

\* The decision, under the completion's mutex: it asks the guarded copy of the
\* cancellation and not the atomic one.
Admit(j) ==
    /\ reader[j] = "admit"
    /\ IF ~Settled /\ state.waiters < MaxWaiters
       THEN /\ state' = [state EXCEPT !.waiters = @ + 1]
            /\ reader' = [reader EXCEPT ![j] = "ticket"]
            /\ view_lock' = Nobody
       ELSE /\ Elsewhere(j)
            /\ state' = state
    /\ UNCHANGED <<in_flight, flags, owner>>

-----------------------------------------------------------------------------
(* WaitTicket.                                                             *)

GiveBackPlace == state' = [state EXCEPT !.waiters = IF @ > 0 THEN @ - 1 ELSE 0]

\* Mutant: a ticket that is dropped keeps its place.
DropWaitKeepsPlace(j) ==
    /\ reader[j] = "ticket"
    /\ reader' = [reader EXCEPT ![j] = "idle"]
    /\ UNCHANGED <<view_lock, in_flight, flags, state, owner>>

\* Drop for WaitTicket; the caller may come back for another read.
DropWait(j) ==
    /\ reader[j] = "ticket"
    /\ GiveBackPlace
    /\ reader' = [reader EXCEPT ![j] = "idle"]
    /\ UNCHANGED <<view_lock, in_flight, flags, owner>>

\* Mutant: a reader that is woken does not look for the answer again (a condition
\* variable under an if and not a while).
JoinTurnOnce(j) ==
    /\ reader[j] \in {"ticket", "woken"}
    /\ IF Settled \/ reader[j] = "woken"
       THEN /\ GiveBackPlace
            /\ reader' = [reader EXCEPT ![j] = IF ~state.cancelled THEN "answered"
                                               ELSE "elsewhere"]
       ELSE /\ reader' = [reader EXCEPT ![j] = "parked"]
            /\ state' = state
    /\ UNCHANGED <<view_lock, in_flight, flags, owner>>

\* Completion::join: one turn of its loop.
JoinTurn(j) ==
    /\ reader[j] \in {"ticket", "woken"}
    /\ IF Settled
       THEN /\ GiveBackPlace
            /\ reader' = [reader EXCEPT ![j] = IF state.answer THEN "answered"
                                               ELSE "elsewhere"]
       ELSE /\ reader' = [reader EXCEPT ![j] = "parked"]
            /\ state' = state
    /\ UNCHANGED <<view_lock, in_flight, flags, owner>>

\* A condition variable may wake a thread that was not notified.
WakeUnasked(j) ==
    /\ reader[j] = "parked"
    /\ reader' = [reader EXCEPT ![j] = "woken"]
    /\ UNCHANGED <<view_lock, in_flight, flags, state, owner>>

NotifyAll == reader' = [j \in Joiners |-> IF reader[j] = "parked" THEN "woken"
                                          ELSE reader[j]]

-----------------------------------------------------------------------------
(* The owner: finish_fold under the view lock, or Drop for FoldTicket.     *)

\* The fold is done: the flight leaves the table.
FinishFold ==
    /\ owner = "folding"
    /\ view_lock = Nobody
    /\ view_lock' = Owner
    /\ in_flight' = FALSE
    /\ owner' = "publish"
    /\ UNCHANGED <<flags, state, reader>>

\* Completion::publish returns at once when nobody has ever joined.
PublishCheck ==
    /\ owner = "publish"
    /\ IF joined THEN owner' = "publish_store" /\ view_lock' = view_lock
                 ELSE owner' = "answered" /\ view_lock' = Nobody
    /\ UNCHANGED <<in_flight, flags, state, reader>>

PublishStore ==
    /\ owner = "publish_store"
    /\ state' = [state EXCEPT !.answer = TRUE]
    /\ owner' = "publish_notify"
    /\ UNCHANGED <<view_lock, in_flight, flags, reader>>

\* Mutant: the answer is stored and nobody is woken to it.
PublishNotifiesNobody ==
    /\ owner = "publish_notify"
    /\ owner' = "answered"
    /\ view_lock' = Nobody
    /\ UNCHANGED <<in_flight, flags, state, reader>>

PublishNotify ==
    /\ owner = "publish_notify"
    /\ NotifyAll
    /\ owner' = "answered"
    /\ view_lock' = Nobody
    /\ UNCHANGED <<in_flight, flags, state>>

\* Completion::cancel: the atomic flag first, under no lock.
CancelFlag ==
    /\ owner = "folding"
    /\ cancelled' = TRUE
    /\ owner' = "cancel_check"
    /\ UNCHANGED <<view_lock, in_flight, joined, state, reader>>

CancelCheck ==
    /\ owner = "cancel_check"
    /\ owner' = IF joined THEN "cancel_store" ELSE "dropped"
    /\ UNCHANGED <<view_lock, in_flight, flags, state, reader>>

CancelStore ==
    /\ owner = "cancel_store"
    /\ state' = [state EXCEPT !.cancelled = TRUE]
    /\ owner' = "cancel_notify"
    /\ UNCHANGED <<view_lock, in_flight, flags, reader>>

CancelNotify ==
    /\ owner = "cancel_notify"
    /\ NotifyAll
    /\ owner' = "dropped"
    /\ UNCHANGED <<view_lock, in_flight, flags, state>>

\* Rev::wipe forgets the flight while its owner folds on.
Wipe ==
    /\ view_lock = Nobody
    /\ in_flight
    /\ in_flight' = FALSE
    /\ UNCHANGED <<view_lock, flags, state, owner, reader>>

-----------------------------------------------------------------------------

OwnerStep ==
    \/ FinishFold \/ PublishCheck \/ PublishStore \/ PublishNotify
    \/ CancelFlag \/ CancelCheck \/ CancelStore \/ CancelNotify

\* What a reader does of itself once it is under the view lock or in the queue.
ReaderStep(j) ==
    \/ ReapCancelled(j) \/ DeclineJoin(j) \/ MarkJoined(j) \/ Admit(j)
    \/ JoinTurn(j)

Next ==
    \/ OwnerStep
    \/ Wipe
    \/ \E j \in Joiners : EnterView(j) \/ ReaderStep(j)
    \/ \E j \in Joiners : DropWait(j) \/ WakeUnasked(j)

\* Threads run: the owner ends its fold or dies, and a reader that is not parked
\* takes its next step.  Nobody is owed a wake-up that was not sent.
Fairness == WF_vars(OwnerStep) /\ \A j \in Joiners : WF_vars(ReaderStep(j))

Spec == Init /\ [][Next]_vars /\ Fairness

-----------------------------------------------------------------------------
(* Properties.                                                             *)

\* The types of the flags and of where the threads stand.
TypeOK ==
    /\ view_lock \in Joiners \cup {Nobody, Owner}
    /\ in_flight \in BOOLEAN /\ joined \in BOOLEAN /\ cancelled \in BOOLEAN
    /\ state \in [answer : BOOLEAN, cancelled : BOOLEAN, waiters : 0 .. MaxWaiters]
    /\ owner \in {"folding", "publish", "publish_store", "publish_notify", "answered",
                  "cancel_check", "cancel_store", "cancel_notify", "dropped"}
    /\ reader \in [Joiners -> {"idle", "reap", "decide", "admit", "ticket", "parked",
                               "woken", "answered", "elsewhere"}]

\* The waiter count is the number of readers in the queue: no ticket that is
\* dropped, answered or sent round again leaks a place, and none gives back two.
PlacesMatch == state.waiters = Cardinality({j \in Joiners : HasPlace(j)})

\* Once the owner has published, every reader with a place has its answer before
\* it or has been woken to it, and no later reader joins: the check of joined
\* that lets publish skip the rendezvous never skips a waiter (mark_joined).
PublishReachesAll ==
    owner = "answered" =>
        /\ \A j \in Joiners : HasPlace(j) => state.answer /\ reader[j] # "parked"
        /\ \A j \in Joiners : reader[j] \notin {"decide", "admit"}

\* How the flight has ended, for all who wait: the publication that skips the
\* rendezvous is an end too, which nobody waits for.
Fate ==
    IF state.answer \/ owner = "answered" THEN "answered"
    ELSE IF state.cancelled THEN "given_up" ELSE "open"

\* What a reader has of the flight, whether or not it runs already.
Got(j) ==
    CASE HasPlace(j) -> IF ~Settled THEN "waiting" ELSE Fate
      [] reader[j] = "answered" -> "answered"
      [] reader[j] = "elsewhere" -> "given_up"
      [] OTHER -> "nothing"

\* What RevView takes for granted: for all the flags, the two copies of the
\* cancellation and the wake-ups, the flight ends at most once, every reader in the
\* queue gets that end at the same moment, and none gets in after it (Completion).
Promise == INSTANCE FlightPromise WITH fate <- Fate, got <- [j \in Joiners |-> Got(j)]
PromiseSpec == Promise!Spec

\* A reader that was in the queue before the owner gave up is answered or sent
\* round again.
JoinedInTimeLeaves ==
    \A j \in Joiners : HasPlace(j) /\ ~cancelled ~> ~HasPlace(j)

\* "A fold that never returns must not strand the readers waiting on it": every
\* reader in the queue leaves it, whenever the owner gives up (Drop for
\* FoldTicket, Completion::cancel).
NobodyStranded == \A j \in Joiners : HasPlace(j) ~> ~HasPlace(j)

=============================================================================
