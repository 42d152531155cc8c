---------------------------- MODULE FlightPromise ----------------------------
(***************************************************************************)
(* What a flight promises to the view, and RevView takes for granted: it   *)
(* ends at most once, in an answer or with its owner giving up, all who    *)
(* wait at that moment get that end in one step, and nobody joins after    *)
(* it.  That the end comes is not promised here.                           *)
(***************************************************************************)
EXTENDS Naturals, FiniteSets

CONSTANTS
    Joiners,     \* readers that find the flight at their own anchor
    MaxWaiters   \* how many of them may wait

VARIABLES
    fate,        \* how the flight ended
    got          \* what each reader has of it

WaitingOn == {j \in Joiners : got[j] = "waiting"}

\* The flight ends, and with it every wait.
End(how) ==
    /\ fate = "open"
    /\ fate' = how
    /\ got' = [j \in Joiners |-> IF j \in WaitingOn THEN how ELSE got[j]]

Join(j) ==
    /\ fate = "open"
    /\ got[j] = "nothing"
    /\ Cardinality(WaitingOn) < MaxWaiters
    /\ got' = [got EXCEPT ![j] = "waiting"]
    /\ fate' = fate

\* A reader that does not join folds on its own or at another flight.
GoElsewhere(j) ==
    /\ got[j] = "nothing"
    /\ got' = [got EXCEPT ![j] = "given_up"]
    /\ fate' = fate

\* A reader that is not interested any more, before the end or after it.
Leave(j) ==
    /\ got' = [got EXCEPT ![j] = "nothing"]
    /\ fate' = fate

Init ==
    /\ fate = "open"
    /\ got = [j \in Joiners |-> "nothing"]

Next ==
    \/ End("answered") \/ End("given_up")
    \/ \E j \in Joiners : Join(j) \/ GoElsewhere(j) \/ Leave(j)

Spec == Init /\ [][Next]_<<fate, got>>
=============================================================================
